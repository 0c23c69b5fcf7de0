---------------------------- MODULE ErrorChannel ----------------------------
(***************************************************************************)
(* What the UDP programs may take for granted of sendto() through the error   *)
(* library: a datagram is lost, or arrives in its turn, as it was sent or     *)
(* recognised as corrupted.  It is never doubled, overtaken or mistaken for    *)
(* another one.                                                               *)
(***************************************************************************)
EXTENDS Sequences

CONSTANTS Senders, Datagrams, Corrupted

VARIABLES wire      \* of each sender, what is under way

Init == wire = [p \in Senders |-> << >>]

Send(p, m) ==
  \/ UNCHANGED wire
  \/ wire' = [wire EXCEPT ![p] = Append(@, m)]
  \/ wire' = [wire EXCEPT ![p] = Append(@, Corrupted)]

Receive(p) ==
  /\ wire[p] # << >>
  /\ wire' = [wire EXCEPT ![p] = Tail(@)]

Next == \E p \in Senders : Receive(p) \/ \E m \in Datagrams : Send(p, m)

Spec == Init /\ [][Next]_wire
=============================================================================

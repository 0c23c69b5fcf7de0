------------------------------- MODULE PollSet -------------------------------
(***************************************************************************)
(* The poll set of both chat programs: 2A:Chat/pollLib.c.                     *)
(*                                                                           *)
(* pollFileDescriptors has one slot per descriptor number.  The slot of a    *)
(* member holds its own number and POLLIN; every other slot holds descriptor *)
(* 0 with no event, so the kernel still reports a hang-up of descriptor 0     *)
(* there.  A poll set is the set of its members, maxFileDescriptor and        *)
(* currentPollSetSize.                                                        *)
(***************************************************************************)
EXTENDS Naturals

CONSTANT POLL_SET_SIZE      \* 10 in pollLib.h

ASSUME PollSetAssumption == POLL_SET_SIZE \in Nat \ {0}

setupPollSet == [members |-> {}, max |-> 0, size |-> POLL_SET_SIZE]

\* Mutant of addToPollSet: the array grows by one block, wherever the number is.
addToPollSetByBlock(ps, s) ==
  [members |-> ps.members \cup {s},
   max     |-> IF s + 1 >= ps.max THEN s + 1 ELSE ps.max,
   size    |-> IF s >= ps.size THEN ps.size + POLL_SET_SIZE ELSE ps.size]

addToPollSet(ps, s) ==
  [members |-> ps.members \cup {s},
   max     |-> IF s + 1 >= ps.max THEN s + 1 ELSE ps.max,
   size    |-> IF s >= ps.size THEN s + POLL_SET_SIZE ELSE ps.size]

\* maxFileDescriptor is never lowered: the slot stays in what poll() is given.
removeFromPollSet(ps, s) == [ps EXCEPT !.members = @ \ {s}]

\* The slots poll() reports on: a member that is readable, and every other
\* slot when descriptor 0 has hung up.
ReadySlots(ps, readable, zeroHungUp) ==
  {i \in 0 .. ps.max - 1 : IF i \in ps.members THEN i \in readable
                                               ELSE zeroHungUp}

\* pollCall() waits for a slot to be ready, and returns the lowest that is.
pollCallReturns(ps, readable, zeroHungUp, i) ==
  /\ i \in ReadySlots(ps, readable, zeroHungUp)
  /\ \A j \in ReadySlots(ps, readable, zeroHungUp) : i <= j
=============================================================================

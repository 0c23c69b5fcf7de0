--------------------------- MODULE PacketManager ---------------------------
(***************************************************************************)
(* What becomes of one datagram that is sent: Lab7UDP/libcpe464,              *)
(* PacketManager.cpp and MsgEvents/.  drand48() is a choice: a draw d of      *)
(* Draws stands for d / Scale, and rates are multiples of 1 / Scale too.      *)
(***************************************************************************)
EXTENDS SettingsManager, UdpPacket

CONSTANTS Scale, Draws

ASSUME DrawsAssumption ==
  /\ Scale \in Nat \ {0}
  /\ Draws \subseteq 0 .. Scale - 1

Managers == [rate : Int, msgNo : Nat, seed : Int, standard : Seq(Events),
             chance : Seq(Events), history : Seq(Nat)]

\* (int)(n * drand48())
Portion(n, draw) == (n * draw) \div Scale

\* errorDrop::run() returns 2
dropsIt(event, msgNo) ==
  event.kind = "drop" /\ (event.dropAll \/ msgNo \in event.dropList)

\* errorFlipBits::run()
flipByte(buf, draw) ==
  [buf EXCEPT ![1 + Portion(Len(buf), draw)] = 255 - @]

\* runMsgEvents() on the standard events: it stops at the first that drops.
dropIndex(mgr, msgNo) ==
  {i \in DOMAIN mgr.standard : dropsIt(mgr.standard[i], msgNo)}
standardDrops(mgr, msgNo) == dropIndex(mgr, msgNo) # {}

\* infoSeqNo::run(), if its turn comes
recordSeqNo(mgr, msgNo, buf) ==
  IF \E i \in DOMAIN mgr.standard :
       /\ mgr.standard[i].kind = "info"
       /\ \A j \in dropIndex(mgr, msgNo) : i < j
  THEN Append(mgr.history, ntohl(buf))
  ELSE mgr.history

\* The random event, if the first draw says that an error is due: the second
\* chooses which, the third which byte a flip is for.
randomEvent(mgr, buf, due, which, where) ==
  LET event == mgr.chance[1 + Portion(Len(mgr.chance), which)]
  IN  IF mgr.chance = << >> \/ due > mgr.rate
      THEN [dropped |-> FALSE, bytes |-> buf]
      ELSE IF event.kind = "flip"
      THEN [dropped |-> FALSE, bytes |-> flipByte(buf, where)]
      ELSE [dropped |-> event.dropAll, bytes |-> buf]

\* processEvents(): what may become of a message.  Either kind of event can
\* drop it, and at most one random event is run.
processEvents(mgr, msgNo, buf) ==
  {IF standardDrops(mgr, msgNo) THEN [out EXCEPT !.dropped = TRUE] ELSE out :
     out \in {randomEvent(mgr, buf, due, which, where) : due, which, where \in Draws}}
=============================================================================

---------------------------- MODULE NetworkHooks ----------------------------
(***************************************************************************)
(* The error library in the programs that use it: Lab7UDP/libcpe464,          *)
(* network-hooks.c.  Process 0 is the program; 1, 2, ... are the children it   *)
(* forks (3A:Rcopy/server.c: the children send, and the parent does not).  A    *)
(* program that does not fork (rcopy, Lab7UDP/udpClient.c) sends itself.       *)
(***************************************************************************)
EXTENDS PacketManager

CONSTANTS
  Environments,  \* records of seed, rate, drop and flip
  UserRates,     \* error rates a program asks for
  Datagrams,     \* what is sent: records of seq, flag, payload and ok
  MaxForks, MaxSends,
  RANDOM_SEED    \* 10

\* What can be in the environment, in a datagram and in the four bytes of a
\* sequence number: strtol() and strtof() also give negative numbers, and a
\* datagram of UDP over IP has at most 65507 bytes.
Numbers == {Unset, NotANumber} \cup Int
Lists   == {Unset} \cup Seq({NotANumber} \cup Int)

ASSUME HooksAssumption ==
  /\ UserRates \subseteq 0 .. Scale - 1
  /\ \A env \in Environments :
       env \in [seed : Numbers, rate : Numbers, drop : Lists, flip : Lists]
  /\ \A m \in Datagrams :
       /\ m \in Packets /\ m.ok
       /\ m.seq \div 16777216 \in Bytes
       /\ HEADERLEN + Len(m.payload) <= 65507
  /\ MaxForks \in Nat /\ MaxSends \in Nat /\ RANDOM_SEED \in Nat

Procs == 0 .. MaxForks

\* What time(NULL) returns: no small number
Times == RANDOM_SEED + 10 .. RANDOM_SEED + 11

VARIABLES
  environ,       \* the environment
  asked,         \* what sendErr_init() was called with
  pktMgr,        \* g_PktMgr of each process
  nextSeed,      \* of each process
  forked,        \* how many children there are
  wire,          \* of each process, the messages it put on the wire, each with
                 \* what its bytes are for the other end
  taken          \* how much of that the other end has received

vars == <<environ, asked, pktMgr, nextSeed, forked, wire, taken>>

NotAsked == [rate |-> 0, drop |-> FALSE, flip |-> FALSE, random |-> FALSE,
             called |-> FALSE]

TypeOK ==
  /\ environ \in Environments
  /\ asked \in [rate : {0} \cup UserRates, drop : BOOLEAN, flip : BOOLEAN,
                random : BOOLEAN, called : BOOLEAN]
  /\ pktMgr \in [Procs -> Managers]
  /\ nextSeed \in [Procs -> Nat]
  /\ forked \in Procs
  /\ wire \in [Procs -> Seq([no : Nat, packet : Packets])]
  /\ taken \in [Procs -> Nat]

\* The constructors run before main().
Init ==
  /\ environ \in Environments
  /\ asked = NotAsked
  /\ \E time \in Times : pktMgr = [p \in Procs |-> loadEnvData(environ, time)]
  /\ nextSeed = [p \in Procs |-> RANDOM_SEED]
  /\ forked = 0
  /\ wire = [p \in Procs |-> << >>]
  /\ taken = [p \in Procs |-> 0]

\* sendErr_init(), called once: time(NULL) is read twice when the seed is to be
\* random.
sendErr_init(rate, drop, flip, random, time, later) ==
  LET seedValue == IF random THEN time ELSE nextSeed[0]
      m1 == addMsgEvent_Standard(pktMgr[0], infoSeqNo)
      m2 == setUserMode_ErrRate(m1, environ, rate)
      m3 == setUserMode_ErrDrop(m2, environ, drop)
      m4 == setUserMode_ErrFlip(m3, environ, flip)
      m5 == setUserMode_SeedRand(m4, environ, seedValue)
  IN  /\ ~asked.called
      /\ asked' = [rate |-> rate, drop |-> drop, flip |-> flip,
                   random |-> random, called |-> TRUE]
      /\ pktMgr' = [pktMgr EXCEPT ![0] = m5]
      /\ later \in {time, time + 1}
      /\ nextSeed' = [nextSeed EXCEPT ![0] = IF random THEN later ELSE @ + 1]
      /\ UNCHANGED <<environ, forked, wire, taken>>

\* Mutant of forkMod: the next seed is counted in the child.
forkModChildCounts ==
  /\ asked.called /\ forked < MaxForks /\ pktMgr[0].msgNo = 0
  /\ forked' = forked + 1
  /\ pktMgr' = [pktMgr EXCEPT ![forked + 1] =
                   setUserMode_SeedRand(pktMgr[0], environ, nextSeed[0])]
  /\ nextSeed' = [nextSeed EXCEPT ![forked + 1] = nextSeed[0] + 1]
  /\ UNCHANGED <<environ, asked, wire, taken>>

\* forkMod(): the parent counts before it forks, so that both have the new
\* nextSeed; the child starts from a copy of the parent's library.
forkMod ==
  /\ asked.called /\ forked < MaxForks /\ pktMgr[0].msgNo = 0
  /\ forked' = forked + 1
  /\ pktMgr' = [pktMgr EXCEPT ![forked + 1] =
                   setUserMode_SeedRand(pktMgr[0], environ, nextSeed[0])]
  /\ nextSeed' = [nextSeed EXCEPT ![0] = @ + 1, ![forked + 1] = nextSeed[0] + 1]
  /\ UNCHANGED <<environ, asked, wire, taken>>

\* Messages sent by the whole program
Sent == MapThenSumSet(LAMBDA p : pktMgr[p].msgNo, Procs)

\* A program that forks leaves the sending to its children.
Running(p) == asked.called /\ IF forked = 0 THEN p = 0 ELSE p \in 1 .. forked

\* Mutant of sendto_Err: the message is counted once it is sent.
sendto_ErrCountsLate(p, m) ==
  LET no  == pktMgr[p].msgNo
      buf == createPDU(m.seq, m.flag, m.payload)
  IN  /\ Running(p) /\ Sent < MaxSends
      /\ pktMgr' = [pktMgr EXCEPT ![p].msgNo = no + 1,
                                  ![p].history = recordSeqNo(pktMgr[p], no, buf)]
      /\ \E out \in processEvents(pktMgr[p], no, buf) :
           wire' = IF out.dropped THEN wire
                   ELSE [wire EXCEPT ![p] =
                           Append(@, [no |-> no, packet |-> retrieveHeader(out.bytes)])]
      /\ UNCHANGED <<environ, asked, nextSeed, forked, taken>>

\* sendtoErr() of a datagram the program has just made, sendto_Err()
sendto_Err(p, m) ==
  LET no  == pktMgr[p].msgNo + 1
      buf == createPDU(m.seq, m.flag, m.payload)
  IN  /\ Running(p) /\ Sent < MaxSends
      /\ pktMgr' = [pktMgr EXCEPT ![p].msgNo = no,
                                  ![p].history = recordSeqNo(pktMgr[p], no, buf)]
      /\ \E out \in processEvents(pktMgr[p], no, buf) :
           wire' = IF out.dropped THEN wire
                   ELSE [wire EXCEPT ![p] =
                           Append(@, [no |-> no, packet |-> retrieveHeader(out.bytes)])]
      /\ UNCHANGED <<environ, asked, nextSeed, forked, taken>>

\* The other end of p takes a datagram and tests its checksum: recv_buf() of
\* 3A:Rcopy, processClient() and outputPDU() of Lab7UDP.
recvfrom(p) ==
  /\ taken[p] < Len(wire[p])
  /\ taken' = [taken EXCEPT ![p] = @ + 1]
  /\ UNCHANGED <<environ, asked, pktMgr, nextSeed, forked, wire>>

Next ==
  \/ forkMod
  \/ \E rate \in UserRates, drop, flip, random \in BOOLEAN, time, later \in Times :
       sendErr_init(rate, drop, flip, random, time, later)
  \/ \E p \in Procs :
       \/ recvfrom(p)
       \/ \E m \in Datagrams : sendto_Err(p, m)

Spec == Init /\ [][Next]_vars

-----------------------------------------------------------------------------
\* What the library makes of the environment and, where that is silent, of what
\* the program asks for.
Listed == IF environ.drop = Unset THEN {} ELSE parserLong2Uint32(environ.drop)
RandomDrops == IF environ.drop = Unset THEN asked.drop ELSE Listed = {}
RandomFlips == IF environ.flip = Unset THEN asked.flip
               ELSE parserLong2Uint32(environ.flip) = {}

\* The messages of p that never got on the wire.
Lost(p) == {n \in 1 .. pktMgr[p].msgNo : \A i \in DOMAIN wire[p] : wire[p][i].no # n}

\* The values SettingsManager.h describes, by their tokens: none at all, -1 for
\* random events, or the numbers of messages, which are counted in 32 bits.
RandomValue == << -1 >>
Described(value) ==
  \/ value \in {Unset, RandomValue}
  \/ value # << >> /\ Range(value) \subseteq 0 .. UINT32 - 1

\* What such a value asks for, if the program wants random events or not.
AsksFor(value) == IF value \in {Unset, RandomValue} THEN {} ELSE Range(value)
AsksRandom(value, wanted) == IF value = Unset THEN wanted ELSE value = RandomValue

\* Nothing is lost or flipped that nobody asked to be, and in every process a
\* message whose number was written in CPE464_OVERRIDE_ERR_DROP is lost,
\* whatever the program asks for and in whichever child it is sent.  (Numbers
\* in CPE464_OVERRIDE_ERR_FLIP are read and not obeyed; of an empty list, by
\* which testRandError.sh clears a variable, see the README.)
OnlyAskedErrors ==
  \A p \in Procs :
    /\ Described(environ.drop) =>
         /\ AsksFor(environ.drop) \cap 1 .. pktMgr[p].msgNo \subseteq Lost(p)
         /\ ~AsksRandom(environ.drop, asked.drop) =>
              Lost(p) \subseteq AsksFor(environ.drop)
    /\ Described(environ.flip) /\ ~AsksRandom(environ.flip, asked.flip) =>
         \A i \in DOMAIN wire[p] : wire[p][i].packet.ok

\* The report of infoSeqNo has every message that was sent but those on the
\* list, which are dropped before its turn comes: "Msgs (Total)" is no total.
CountsAgree ==
  \A p \in Procs :
    Len(pktMgr[p].history) + Cardinality(Listed \cap 1 .. pktMgr[p].msgNo)
      = pktMgr[p].msgNo

\* Whoever has not been forked, and the program before sendErr_init(), has done
\* nothing but read its environment.
NotYetActive ==
  /\ ~asked.called => asked = NotAsked /\ forked = 0
  /\ \A p \in Procs : ~asked.called \/ p > forked =>
       pktMgr[p].msgNo = 0 /\ wire[p] = << >>

\* The standard events are the list, if there is one, and after sendErr_init()
\* infoSeqNo, in this order; the random ones are those asked for.
EventsAsked ==
  \A p \in Procs :
    /\ pktMgr[p].standard =
         (IF Listed = {} THEN << >> ELSE << setDropSpecific(Listed) >>) \o
         (IF asked.called /\ p <= forked THEN << infoSeqNo >> ELSE << >>)
    /\ \A i \in DOMAIN pktMgr[p].chance :
         \/ pktMgr[p].chance[i] = errorDrop /\ RandomDrops
         \/ pktMgr[p].chance[i] = errorFlipBits /\ RandomFlips

\* What is on the wire was sent, is on no list, and is as it was or shows it.
WireIsSent ==
  \A p \in Procs :
    /\ taken[p] <= Len(wire[p])
    /\ \A i \in DOMAIN wire[p] :
         /\ wire[p][i].no \in 1 .. pktMgr[p].msgNo \ Listed
         /\ wire[p][i].packet \in Datagrams \cup {Corrupted}
         /\ ~RandomFlips => wire[p][i].packet.ok
    /\ ~RandomDrops => Lost(p) \subseteq Listed

\* Children are given numbers the parent has counted past.
SeedsCounted ==
  ~isSet(environ.seed) =>
    \A p \in 1 .. forked : pktMgr[p].seed < nextSeed[0]

\* Any child forked has a seed of its own (network-hooks.c, sendErr_init()), so
\* that no two children see the same errors, unless the environment gives one
\* seed to all of them.  The first child may still have the seed of its parent:
\* both are time(NULL) when the seed is to be random.
ChildrenDiffer ==
  ~isSet(environ.seed) =>
    \A p, q \in 1 .. forked : p # q => pktMgr[p].seed # pktMgr[q].seed

\* The types, numbers as wide as the code's, what the report says, and what
\* keeps errors to those asked for, inductive as a whole.
HooksInvariant ==
  /\ TypeOK /\ CountsAgree /\ NotYetActive
  /\ EventsAsked /\ WireIsSent /\ SeedsCounted /\ ChildrenDiffer

\* A datagram that is changed on its way is never taken for another one: what
\* SrejNet assumes of the network below it.
Channel == INSTANCE ErrorChannel WITH
  Senders <- Procs,
  wire    <- [p \in Procs |->
                [i \in 1 .. Len(wire[p]) - taken[p] |->
                   wire[p][taken[p] + i].packet]]

ImplementsChannel == Channel!Spec

=============================================================================

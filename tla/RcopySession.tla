---------------------------- MODULE RcopySession ----------------------------
(***************************************************************************)
(* A whole run of rcopy against the server of 3A:Rcopy: process_server(),     *)
(* which forks a child for every FNAME, and stateMachine() from its            *)
(* START_STATE on, which opens another socket and sends FNAME again when        *)
(* filename() gets no good answer.  A conversation of Rcopy is one of several   *)
(* here: the child of an earlier FNAME goes on sending to a socket that rcopy   *)
(* reads no more.                                                              *)
(*                                                                           *)
(* There are two children at most, the first one forked being child 1; each    *)
(* has the variables of RcopyServer and two channels of its own.  A socket of   *)
(* rcopy is its number, and its queue is split by sender: recvfrom() may give   *)
(* a packet of either child.  select() may expire at any time.                  *)
(***************************************************************************)
EXTENDS Integers, Sequences, SequencesExt

CONSTANTS
  WindowSize, NumChunks, MaxTries, SockBuf, MaxSeq, MaxFaults,
  DataReorder, AckReorder, ReadMayFail,
  MaxSockets,    \* bound: sockets rcopy opens
  NamesDouble    \* may the network deliver an FNAME twice?

ASSUME SessionAssumption == MaxSockets \in Nat /\ NamesDouble \in BOOLEAN

\* What SlidingWindow and SrejNet assume of theirs.
ASSUME ConversationAssumption ==
  /\ WindowSize \in Nat \ {0}
  /\ NumChunks \in Nat
  /\ MaxTries \in Nat \ {0}
  /\ SockBuf \in Nat \ {0}
  /\ MaxSeq \in Nat
  /\ MaxFaults \in Nat
  /\ DataReorder \in BOOLEAN
  /\ AckReorder \in BOOLEAN
  /\ ReadMayFail \in BOOLEAN

VARIABLES
  sstate1, swindow1, wptrL1, seqNum1, fileOff1, retryCount1,
  toServer1, toClient1,
  sstate2, swindow2, wptrL2, seqNum2, fileOff2, retryCount2,
  toServer2, toClient2,
  cstate, expSeqNum, srejFg, cwindow, output, nameTries, outcome,
  faults,
  sock,          \* rcopy's server.sk_num, 0 before the first
  remote,        \* rcopy's server.remote: 0 is the main server
  toMain,        \* FNAMEs on their way to the main server, seq being the
                 \* socket they come from
  mainUp,        \* process_server() runs
  serves,        \* the socket of client->remote of each child, 0 if not forked
  reaped         \* children waitpid() has returned

childVars1 == <<sstate1, swindow1, wptrL1, seqNum1, fileOff1, retryCount1>>
childVars2 == <<sstate2, swindow2, wptrL2, seqNum2, fileOff2, retryCount2>>
channels1  == <<toServer1, toClient1>>
channels2  == <<toServer2, toClient2>>
clientVars == <<cstate, expSeqNum, srejFg, cwindow, output, nameTries, outcome>>
nameVars   == <<sock, remote>>
mainVars   == <<toMain, mainUp, serves, reaped>>
vars == <<childVars1, childVars2, channels1, channels2, clientVars, faults,
          nameVars, mainVars>>

Child1 == INSTANCE RcopyServer WITH Timely <- FALSE,
  toServer <- toServer1, toClient <- toClient1, sstate <- sstate1,
  swindow <- swindow1, wptrL <- wptrL1, seqNum <- seqNum1,
  fileOff <- fileOff1, retryCount <- retryCount1

Child2 == INSTANCE RcopyServer WITH Timely <- FALSE,
  toServer <- toServer2, toClient <- toClient2, sstate <- sstate2,
  swindow <- swindow2, wptrL <- wptrL2, seqNum <- seqNum2,
  fileOff <- fileOff2, retryCount <- retryCount2

\* rcopy in conversation with a child, or with the main server
With1 == INSTANCE RcopyClient WITH Timely <- FALSE,
  toServer <- toServer1, toClient <- toClient1

With2 == INSTANCE RcopyClient WITH Timely <- FALSE,
  toServer <- toServer2, toClient <- toClient2

WithMain == INSTANCE RcopyClient WITH Timely <- FALSE,
  toServer <- toMain, toClient <- << >>

Children == {1, 2}
ChildState(k)  == IF k = 1 THEN sstate1 ELSE sstate2
LowerBound(k)  == IF k = 1 THEN wptrL1 ELSE wptrL2
AnswersTo(k)   == IF k = 1 THEN toServer1 ELSE toServer2

Forked == {k \in Children : serves[k] # 0}
Exited == {k \in Forked : ChildState(k) = "DONE"}

Name(n) == [flag |-> "FNAME", seq |-> n, data |-> WithMain!NoData]

Init ==
  /\ Child1!ServerInit /\ Child2!ServerInit
  /\ toServer1 = << >> /\ toClient1 = << >>
  /\ toServer2 = << >> /\ toClient2 = << >>
  /\ cstate = "START_STATE" /\ expSeqNum = 0 /\ srejFg = FALSE
  /\ cwindow = With1!createWindow /\ output = << >> /\ nameTries = 0
  /\ outcome = "running"
  /\ faults = 0
  /\ sock = 0 /\ remote = 0
  /\ toMain = << >> /\ mainUp = TRUE
  /\ serves = [k \in Children |-> 0] /\ reaped = {}

-----------------------------------------------------------------------------
\* start_state()

SendName(n) ==
  /\ WithMain!SendToServer(Name(n))
  /\ NamesDouble \/ Len(toMain') <= Len(toMain) + 1

\* Mutant of StartState: udpClientSetup() is called the first time only.
StartStateSameSocket ==
  /\ cstate = "START_STATE" /\ sock < MaxSockets
  /\ sock' = 1
  /\ remote' = 0
  /\ SendName(1)
  /\ cstate' = "FILENAME" /\ expSeqNum' = 1 /\ outcome' = "running"
  /\ UNCHANGED <<srejFg, cwindow, output, nameTries, mainUp, serves, reaped>>
  /\ UNCHANGED <<childVars1, childVars2, channels1, channels2>>

\* Mutant of StartState: udpClientSetup() leaves the address as recv_buf() set
\* it.
StartStateKeepsAddress ==
  /\ cstate = "START_STATE" /\ sock < MaxSockets
  /\ sock' = sock + 1
  /\ \/ remote = 0 /\ SendName(sock + 1) /\ UNCHANGED channels1
     \/ remote = 1 /\ With1!SendToServer(Name(sock + 1)) /\ UNCHANGED <<toMain, toClient1>>
  /\ cstate' = "FILENAME" /\ expSeqNum' = 1 /\ outcome' = "running"
  /\ UNCHANGED <<remote, srejFg, cwindow, output, nameTries, mainUp, serves, reaped>>
  /\ UNCHANGED <<childVars1, childVars2, channels2>>

StartState ==
  /\ cstate = "START_STATE" /\ sock < MaxSockets
  /\ sock' = sock + 1
  /\ remote' = 0
  /\ SendName(sock + 1)
  /\ cstate' = "FILENAME" /\ expSeqNum' = 1 /\ outcome' = "running"
  /\ UNCHANGED <<srejFg, cwindow, output, nameTries, mainUp, serves, reaped>>
  /\ UNCHANGED <<childVars1, childVars2, channels1, channels2>>

\* The name of the host is not found.
StartFails ==
  /\ cstate = "START_STATE"
  /\ cstate' = "DONE" /\ outcome' = "no_server"
  /\ UNCHANGED <<expSeqNum, srejFg, cwindow, output, nameTries, faults>>
  /\ UNCHANGED <<nameVars, mainVars, childVars1, childVars2, channels1, channels2>>

-----------------------------------------------------------------------------
\* The other states of rcopy.  A packet is read from the socket in use, and
\* recv_buf() puts the address it came from into server.remote, where all that
\* rcopy sends then goes.

\* Mutant of ClientReads: the address of the sender is not kept.
ClientReadsKeepsAddress(k) ==
  /\ serves[k] = sock
  /\ \/ /\ k = 1
        /\ With1!ReadFilenameReply \/ With1!RecvData
        /\ UNCHANGED channels2
     \/ /\ k = 2
        /\ With2!ReadFilenameReply \/ With2!RecvData
        /\ UNCHANGED channels1
  /\ UNCHANGED <<sock, remote, mainVars, childVars1, childVars2>>

ClientReads(k) ==
  /\ serves[k] = sock
  /\ \/ /\ k = 1
        /\ With1!ReadFilenameReply \/ With1!RecvData
        /\ UNCHANGED channels2
     \/ /\ k = 2
        /\ With2!ReadFilenameReply \/ With2!RecvData
        /\ UNCHANGED channels1
  /\ remote' = k
  /\ UNCHANGED <<sock, mainVars, childVars1, childVars2>>

ClientAnswers ==
  /\ \/ remote = 0 /\ (WithMain!AckAll \/ WithMain!RejectHole)
        /\ UNCHANGED <<channels1, channels2>>
     \/ remote = 1 /\ (With1!AckAll \/ With1!RejectHole)
        /\ UNCHANGED <<toMain, channels2>>
     \/ remote = 2 /\ (With2!AckAll \/ With2!RejectHole)
        /\ UNCHANGED <<toMain, channels1>>
  /\ UNCHANGED <<nameVars, mainUp, serves, reaped, childVars1, childVars2>>

\* Steps that neither read nor send
Silently(A) ==
  /\ A
  /\ UNCHANGED <<nameVars, mainVars, childVars1, childVars2, channels2>>

ClientNext ==
  \/ StartState \/ StartFails
  \/ \E k \in Children : ClientReads(k)
  \/ ClientAnswers
  \/ Silently(With1!FilenameGiveUp \/ With1!OpenOutput \/ With1!DrainOne)

NameSelectExpires == Silently(With1!FilenameTimeout)
RecvSelectExpires == Silently(With1!ServerGone)

-----------------------------------------------------------------------------
\* process_server(): one turn of its loop.  A turn ends with waitpid() for
\* every child that has exited by then.

Reap == reaped' = reaped \cup Exited

\* The child starts with a copy of what its parent received, and with static
\* variables its parent has never used.
Fork ==
  /\ mainUp
  /\ \E i \in DOMAIN toMain, k \in Children :
       /\ toMain[i].flag # "CRC_ERROR"
       /\ k \notin Forked /\ 1 .. k - 1 \subseteq Forked
       /\ serves' = [serves EXCEPT ![k] = toMain[i].seq]
       /\ toMain' = RemoveAt(toMain, i)
  /\ Reap
  /\ UNCHANGED <<mainUp, clientVars, faults, nameVars>>
  /\ UNCHANGED <<childVars1, childVars2, channels1, channels2>>

ForkFails ==
  /\ mainUp
  /\ \E i \in DOMAIN toMain :
       /\ toMain[i].flag # "CRC_ERROR"
       /\ toMain' = RemoveAt(toMain, i)
  /\ mainUp' = FALSE
  /\ UNCHANGED <<serves, reaped, clientVars, faults, nameVars>>
  /\ UNCHANGED <<childVars1, childVars2, channels1, channels2>>

DropCorrupted ==
  /\ mainUp
  /\ \E i \in DOMAIN toMain :
       /\ toMain[i].flag = "CRC_ERROR"
       /\ toMain' = RemoveAt(toMain, i)
  /\ Reap
  /\ UNCHANGED <<mainUp, serves, clientVars, faults, nameVars>>
  /\ UNCHANGED <<childVars1, childVars2, channels1, channels2>>

\* Mutant of MainSelectExpires: waitpid() is called after a packet only.
MainSelectExpiresOnly ==
  /\ mainUp
  /\ UNCHANGED vars

\* LONG_TIME without a packet
MainSelectExpires ==
  /\ mainUp
  /\ Reap
  /\ UNCHANGED <<toMain, mainUp, serves, clientVars, faults, nameVars>>
  /\ UNCHANGED <<childVars1, childVars2, channels1, channels2>>

MainNext == Fork \/ ForkFails \/ DropCorrupted \/ MainSelectExpires

-----------------------------------------------------------------------------
\* process_client() of each child

ChildDoes(k, A1, A2) ==
  /\ serves[k] # 0
  /\ \/ k = 1 /\ A1 /\ UNCHANGED <<childVars2, channels2>>
     \/ k = 2 /\ A2 /\ UNCHANGED <<childVars1, channels1>>
  /\ UNCHANGED <<clientVars, nameVars, mainVars>>

ChildNext(k) == ChildDoes(k, Child1!ServerStep, Child2!ServerStep)
ChildSelectExpires(k) == ChildDoes(k, Child1!ServerTimeout, Child2!ServerTimeout)

-----------------------------------------------------------------------------
\* Everybody is gone but the main server, and it has nothing to do.
Finished ==
  /\ cstate = "DONE" /\ Exited = Forked
  /\ mainUp => toMain = << >> /\ reaped = Forked
  /\ UNCHANGED vars

Next ==
  \/ ClientNext \/ NameSelectExpires \/ RecvSelectExpires
  \/ MainNext
  \/ \E k \in Children : ChildNext(k) \/ ChildSelectExpires(k)
  \/ Finished

Spec == Init /\ [][Next]_vars

\* The scheduler runs every process, and a select() returns at the latest when
\* its time is over; nothing says that it is not the time that is over first.
FairSpec ==
  /\ Spec
  /\ WF_vars(ClientNext \/ NameSelectExpires \/ RecvSelectExpires)
  /\ WF_vars(MainNext)
  /\ \A k \in Children : WF_vars(ChildNext(k) \/ ChildSelectExpires(k))

-----------------------------------------------------------------------------
(***************************************************************************)
(* Safety.                                                                   *)
(***************************************************************************)

\* However many conversations it takes, rcopy makes one copy: the output file
\* grows by the chunks of the file in order, from one child, and is reported
\* done when it is whole.
CopyStatus == CASE outcome \in {"running", "restarted"} -> "copying"
                [] outcome = "eof"                       -> "done"
                [] OTHER                                 -> "failed"

Copy == INSTANCE FileCopy WITH FileLength <- NumChunks,
                               copied <- output,
                               status <- CopyStatus

ImplementsCopy == Copy!Spec

\* A child that rcopy has turned away from (filename() opened another socket)
\* never hears of it: no packet was ever sent to it, so it frees nothing, sends
\* one window at most and must time out.
OrphansAreDeaf ==
  \A k \in Forked : serves[k] # sock =>
    AnswersTo(k) = << >> /\ LowerBound(k) = 1

\* The main server is sent nothing but FNAMEs: it forks for every packet whose
\* checksum is good and never looks at the flag, so an acknowledgement that
\* strayed to its port would be opened as a file and copied to rcopy.
MainHearsNamesOnly ==
  \A p \in Range(toMain) : p.flag \in {"FNAME", "CRC_ERROR"}

\* Within a conversation rcopy answers one child only: recv_buf() overwrites
\* the address with each packet, and a second child on the same socket would
\* get acknowledgements for what it never sent.
OneChildIsAnswered == [][remote # 0 => remote' \in {0, remote}]_remote

-----------------------------------------------------------------------------
(***************************************************************************)
(* Liveness.                                                                 *)
(***************************************************************************)

\* A child leaves when rcopy has left or has turned to another socket.
Abandoned == {k \in Forked \ Exited : cstate = "DONE" \/ serves[k] # sock}

ChildrenLeave == Abandoned # {} ~> Abandoned = {}

\* rcopy does not wait for ever on a socket nobody serves: its FNAME is lost,
\* or the child has exited.  It asks again or gives up.
Unserved == cstate # "DONE" /\ {k \in Forked \ Exited : serves[k] = sock} = {}

RcopyMovesOn == Unserved ~> ~ Unserved

\* No child stays a zombie.
ChildrenAreReaped == Exited # {} ~> (Exited \subseteq reaped \/ ~ mainUp)

-----------------------------------------------------------------------------
(***************************************************************************)
(* What the repository says and the code does not do.                        *)
(***************************************************************************)

\* tiny.sh:5 compares the copy with the file.
CopyIsTheFile == outcome = "eof" => output = [k \in 1 .. NumChunks |-> k]
=============================================================================

------------------------------ MODULE SessionInv ------------------------------
(***************************************************************************)
(* The inductive invariant of RcopySession.                                  *)
(*                                                                           *)
(* A session is one conversation of Rcopy after another.  The first part of   *)
(* the invariant says who may talk to whom, and holds for every network; the   *)
(* second, that an FNAME is served once, needs a network that does not double  *)
(* it.  Together they make the child that serves the socket in use, and that   *)
(* child alone, the partner of rcopy: what either does is a step of the        *)
(* conversation "current".                                                   *)
(***************************************************************************)
EXTENDS RcopySession

SendingStates == {"FILE_OK", "RECV_DATA", "CHECK_BUFFER"}

\* rcopy has not got a good answer to its FNAME.
AskingStates == {"START_STATE", "FILENAME"}

NamePackets ==
  [flag : {"FNAME"}, seq : Nat, data : {WithMain!NoData}] \cup {WithMain!Corrupted}

SessionTypes ==
  /\ sock \in Nat
  /\ remote \in Children \cup {0}
  /\ serves \in [Children -> Nat]
  /\ toMain \in Seq(NamePackets)
  /\ faults \in 0 .. MaxFaults

\* Sockets are numbered as they are opened, and a name comes from an open one.
NamesAreOld ==
  /\ \A k \in Children : serves[k] <= sock
  /\ \A i \in 1 .. Len(toMain) :
       toMain[i].flag = "FNAME" => toMain[i].seq \in 1 .. sock
  /\ sock = 0 => cstate \in {"START_STATE", "DONE"}

\* Once it has an answer, rcopy talks to a child forked for its socket.
RemoteServes ==
  /\ remote # 0 => serves[remote] = sock /\ sock # 0
  /\ cstate \in SendingStates => remote # 0

Deaf(k) == AnswersTo(k) = << >> /\ LowerBound(k) = 1

\* Nobody but the child in use is written to, and not before it has answered.
OthersAreDeaf ==
  \A k \in Children : serves[k] # sock \/ cstate \in AskingStates => Deaf(k)

\* A process that has not been forked has done nothing.
UnforkedIsFresh ==
  /\ serves[1] = 0 => /\ Child1!ServerInit
                      /\ toServer1 = << >> /\ toClient1 = << >>
  /\ serves[2] = 0 => /\ Child2!ServerInit
                      /\ toServer2 = << >> /\ toClient2 = << >>

\* stateMachine() comes back to start_state() with its variables untouched.
AskingIsFresh ==
  /\ cstate \in AskingStates \cup {"FILE_OK"} =>
       output = << >> /\ cwindow = With1!createWindow /\ srejFg = FALSE
  /\ cstate \in AskingStates => nameTries \in 0 .. MaxTries
  /\ cstate = "START_STATE" => outcome \in {"running", "restarted"}

\* Who talks to whom, for every network.
SessionInv1 ==
  /\ SessionTypes
  /\ NamesAreOld
  /\ RemoteServes
  /\ OthersAreDeaf
  /\ UnforkedIsFresh
  /\ AskingIsFresh

\* A name on its way has not been served, is on its way once, and is served
\* once.
NamesAreServedOnce ==
  /\ \A i, j \in 1 .. Len(toMain) :
       toMain[i].flag = "FNAME" /\ toMain[j].flag = "FNAME" /\ i # j =>
          toMain[i].seq # toMain[j].seq
  /\ \A i \in 1 .. Len(toMain), k \in Children :
       toMain[i].flag = "FNAME" => toMain[i].seq # serves[k]
  /\ serves[1] # 0 => serves[1] # serves[2]

-----------------------------------------------------------------------------
\* The conversation on the socket in use: the variables of the child that
\* serves it, or those of a child not yet forked.

current(of1, of2, fresh) ==
  IF serves[1] = sock THEN of1 ELSE IF serves[2] = sock THEN of2 ELSE fresh

curState    == current(sstate1, sstate2, "FILENAME")
curWindow   == current(swindow1, swindow2, With1!createWindow)
curLower    == current(wptrL1, wptrL2, 1)
curSeqNum   == current(seqNum1, seqNum2, 1)
curFileOff  == current(fileOff1, fileOff2, 0)
curRetry    == current(retryCount1, retryCount2,
                       [s \in Child1!SelectStates |-> 0])
curToServer == current(toServer1, toServer2, << >>)
curToClient == current(toClient1, toClient2, << >>)
=============================================================================

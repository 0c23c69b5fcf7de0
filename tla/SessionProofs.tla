---------------------------- MODULE SessionProofs ----------------------------
(***************************************************************************)
(* A session of rcopy, for every number of sockets it opens.  Who talks to    *)
(* whom follows from SessionInv alone.  That the session copies the file       *)
(* follows from the conversation's own invariant: the processes at the two     *)
(* ends of the socket in use take steps of Rcopy, under the mapping            *)
(* "current", and a new socket begins a new conversation.                      *)
(***************************************************************************)
EXTENDS SessionInv, DataLemmas

\* The conversation on the socket in use.
Current == INSTANCE RcopyProofs WITH Timely <- FALSE,
  toServer <- curToServer, toClient <- curToClient,
  sstate <- curState, swindow <- curWindow, wptrL <- curLower,
  seqNum <- curSeqNum, fileOff <- curFileOff, retryCount <- curRetry

-----------------------------------------------------------------------------
(* The main server's socket. *)

\* start_state() sends one name; the network may lose, spoil or double it.
LEMMA SendNameEffect ==
  ASSUME SessionTypes, NEW n \in Nat, SendName(n)
  PROVE  /\ toMain' \in Seq(NamePackets)
         /\ faults' \in 0 .. MaxFaults
         /\ Len(toMain') >= Len(toMain)
         /\ \A i \in 1 .. Len(toMain) : toMain'[i] = toMain[i]
         /\ \A i \in 1 .. Len(toMain') :
              i \notin 1 .. Len(toMain) =>
                toMain'[i] \in {Name(n), WithMain!Corrupted}
         /\ ~ NamesDouble => Len(toMain') <= Len(toMain) + 1
<1> DEFINE Sent(old, new) ==
      /\ new \in Seq(NamePackets)
      /\ Len(new) >= Len(old)
      /\ \A i \in 1 .. Len(old) : new[i] = old[i]
      /\ \A i \in 1 .. Len(new) :
           i \notin 1 .. Len(old) => new[i] \in {Name(n), WithMain!Corrupted}
<1>1. Name(n) \in NamePackets /\ WithMain!Corrupted \in NamePackets
  BY DEF Name, NamePackets
<1>2. ASSUME NEW s \in Seq(NamePackets), NEW p \in {Name(n), WithMain!Corrupted}
      PROVE  Sent(s, WithMain!Enqueue(s, p)) /\ WithMain!Enqueue(s, p) \in Seq(NamePackets)
  <2>1. /\ Append(s, p) \in Seq(NamePackets)
        /\ Len(Append(s, p)) = Len(s) + 1
        /\ \A i \in 1 .. Len(s) : Append(s, p)[i] = s[i]
        /\ Append(s, p)[Len(s) + 1] = p
    BY <1>1, AppendProperties
  <2>2. Len(s) \in Nat
    BY LenProperties
  <2> QED
    BY <2>1, <2>2 DEF WithMain!Enqueue
<1>3. Sent(toMain, toMain)
  BY LenProperties DEF SessionTypes
<1>4. ASSUME NEW s \in Seq(NamePackets), Sent(toMain, s),
             NEW p \in {Name(n), WithMain!Corrupted}
      PROVE  Sent(toMain, WithMain!Enqueue(s, p))
  <2>1. Sent(s, WithMain!Enqueue(s, p))
    BY <1>2
  <2>2. Len(s) \in Nat /\ Len(toMain) \in Nat /\ Len(WithMain!Enqueue(s, p)) \in Nat
    BY <2>1, LenProperties DEF SessionTypes
  <2> QED
    BY <1>4, <2>1, <2>2
<1>5. Sent(toMain, toMain') /\ faults' \in 0 .. MaxFaults
  <2>1. toMain \in Seq(NamePackets) /\ faults \in 0 .. MaxFaults
    BY DEF SessionTypes
  <2>2. Sent(toMain, WithMain!Enqueue(toMain, Name(n)))
    BY <1>3, <1>4, <2>1
  <2>3. CASE toMain' = WithMain!Enqueue(toMain, Name(n)) /\ UNCHANGED faults
    BY <2>1, <2>2, <2>3
  <2>4. CASE /\ faults < MaxFaults /\ faults' = faults + 1
             /\ toMain' \in WithMain!Faulty(toMain, Name(n))
    <3>1. faults' \in 0 .. MaxFaults
      BY <2>1, <2>4, ConversationAssumption
    <3>2. Sent(toMain, WithMain!Enqueue(toMain, WithMain!Corrupted))
      BY <1>3, <1>4, <2>1
    <3>3. Sent(toMain, WithMain!Enqueue(WithMain!Enqueue(toMain, Name(n)), Name(n)))
      BY <1>4, <2>2
    <3> HIDE DEF Sent
    <3> QED
      BY <1>3, <2>2, <2>4, <3>1, <3>2, <3>3 DEF WithMain!Faulty
  <2> QED
    BY <2>3, <2>4 DEF SendName, WithMain!SendToServer
<1> QED
  BY <1>5 DEF SendName

\* process_server() takes one packet from its socket.
LEMMA MainReads ==
  ASSUME SessionTypes, NEW i \in DOMAIN toMain, toMain' = RemoveAt(toMain, i)
  PROVE  /\ i \in 1 .. Len(toMain)
         /\ toMain' \in Seq(NamePackets)
         /\ Len(toMain') = Len(toMain) - 1
         /\ \A j \in 1 .. Len(toMain') :
              /\ (IF j < i THEN j ELSE j + 1) \in 1 .. Len(toMain)
              /\ (IF j < i THEN j ELSE j + 1) # i
              /\ toMain'[j] = toMain[IF j < i THEN j ELSE j + 1]
<1>1. toMain \in Seq(NamePackets) /\ i \in 1 .. Len(toMain) /\ Len(toMain) \in Nat
  BY LenProperties DEF SessionTypes
<1>2. /\ toMain' \in Seq(NamePackets)
      /\ Len(toMain') = Len(toMain) - 1
      /\ \A j \in 1 .. Len(toMain) - 1 :
           toMain'[j] = IF j < i THEN toMain[j] ELSE toMain[j + 1]
  BY <1>1, RemoveEffect
<1> QED
  BY <1>1, <1>2

-----------------------------------------------------------------------------
(* What one step of a process does to what others see of it. *)

FaultsAdvance == \/ faults' = faults
                 \/ faults < MaxFaults /\ faults' = faults + 1

\* Child 1, whether rcopy listens to it or not: it hears only what it is sent.
LEMMA Child1Effect ==
  ASSUME Child1!ServerStep \/ Child1!ServerTimeout
  PROVE  /\ FaultsAdvance
         /\ toServer1 = << >> => toServer1' = << >> /\ wptrL1' = wptrL1
<1> USE DEF FaultsAdvance, Child1!netVars, Child1!SendToClient, Child1!resend
<1>1. CASE Child1!FilenameOk \/ Child1!FilenameBad \/ Child1!SendChunk
  BY <1>1 DEF Child1!FilenameOk, Child1!FilenameBad, Child1!SendChunk
<1>2. CASE Child1!WindowOpen \/ Child1!ReachEof \/ Child1!ReadError \/ Child1!NoAnswerYet
  BY <1>2 DEF Child1!WindowOpen, Child1!ReachEof, Child1!ReadError, Child1!NoAnswerYet
<1>3. CASE Child1!WindowFullReady \/ Child1!WindowFullGiveUp \/ Child1!LastRrGiveUp
           \/ Child1!EofAckGiveUp
  BY <1>3 DEF Child1!WindowFullReady, Child1!WindowFullGiveUp, Child1!LastRrGiveUp,
              Child1!EofAckGiveUp, Child1!SelectReady, Child1!SelectGiveUp
<1>4. CASE Child1!ReadRrSrej
  <2>1. toServer1 # << >>
    BY <1>4 DEF Child1!ReadRrSrej, Child1!ToServerReadable, Child1!Readable
  <2>2. FaultsAdvance
    BY <1>4 DEF Child1!ReadRrSrej
  <2> QED
    BY <2>1, <2>2
<1>5. CASE Child1!ReadLastRr \/ Child1!ReadEofAck
  <2>1. toServer1 # << >>
    BY <1>5 DEF Child1!ReadLastRr, Child1!ReadEofAck, Child1!SelectReady
  <2>2. FaultsAdvance
    BY <1>5 DEF Child1!ReadLastRr, Child1!ReadEofAck
  <2> QED
    BY <2>1, <2>2
<1>6. CASE Child1!ServerTimeout
  BY <1>6 DEF Child1!ServerTimeout, Child1!WindowFullTimeout, Child1!LastRrTimeout,
              Child1!EofAckTimeout
<1> QED
  BY <1>1, <1>2, <1>3, <1>4, <1>5, <1>6 DEF Child1!ServerStep

\* Child 2, whether rcopy listens to it or not: it hears only what it is sent.
LEMMA Child2Effect ==
  ASSUME Child2!ServerStep \/ Child2!ServerTimeout
  PROVE  /\ FaultsAdvance
         /\ toServer2 = << >> => toServer2' = << >> /\ wptrL2' = wptrL2
<1> USE DEF FaultsAdvance, Child2!netVars, Child2!SendToClient, Child2!resend
<1>1. CASE Child2!FilenameOk \/ Child2!FilenameBad \/ Child2!SendChunk
  BY <1>1 DEF Child2!FilenameOk, Child2!FilenameBad, Child2!SendChunk
<1>2. CASE Child2!WindowOpen \/ Child2!ReachEof \/ Child2!ReadError \/ Child2!NoAnswerYet
  BY <1>2 DEF Child2!WindowOpen, Child2!ReachEof, Child2!ReadError, Child2!NoAnswerYet
<1>3. CASE Child2!WindowFullReady \/ Child2!WindowFullGiveUp \/ Child2!LastRrGiveUp
           \/ Child2!EofAckGiveUp
  BY <1>3 DEF Child2!WindowFullReady, Child2!WindowFullGiveUp, Child2!LastRrGiveUp,
              Child2!EofAckGiveUp, Child2!SelectReady, Child2!SelectGiveUp
<1>4. CASE Child2!ReadRrSrej
  <2>1. toServer2 # << >>
    BY <1>4 DEF Child2!ReadRrSrej, Child2!ToServerReadable, Child2!Readable
  <2>2. FaultsAdvance
    BY <1>4 DEF Child2!ReadRrSrej
  <2> QED
    BY <2>1, <2>2
<1>5. CASE Child2!ReadLastRr \/ Child2!ReadEofAck
  <2>1. toServer2 # << >>
    BY <1>5 DEF Child2!ReadLastRr, Child2!ReadEofAck, Child2!SelectReady
  <2>2. FaultsAdvance
    BY <1>5 DEF Child2!ReadLastRr, Child2!ReadEofAck
  <2> QED
    BY <2>1, <2>2
<1>6. CASE Child2!ServerTimeout
  BY <1>6 DEF Child2!ServerTimeout, Child2!WindowFullTimeout, Child2!LastRrTimeout,
              Child2!EofAckTimeout
<1> QED
  BY <1>1, <1>2, <1>3, <1>4, <1>5, <1>6 DEF Child2!ServerStep

\* filename() with an answer, which sends nothing, or recv_data().
Reads ==
  \/ /\ cstate = "FILENAME" /\ cstate' \in {"START_STATE", "FILE_OK", "DONE"}
     /\ cstate' = "START_STATE" => outcome' = "restarted"
     /\ nameTries' = 0 /\ UNCHANGED <<output, cwindow, srejFg>>
  \/ /\ cstate = "RECV_DATA" /\ cstate' \in {"RECV_DATA", "CHECK_BUFFER", "DONE"}
     /\ UNCHANGED nameTries

\* check_buffer() when it sends.
Answers == cstate = "CHECK_BUFFER" /\ cstate' = "RECV_DATA"

\* rcopy in conversation with child 1.
LEMMA With1Effect ==
  ASSUME \/ With1!ReadFilenameReply \/ With1!RecvData
         \/ With1!AckAll \/ With1!RejectHole
  PROVE  /\ FaultsAdvance
         /\ Reads \/ Answers
         /\ cstate = "FILENAME" => toServer1' = toServer1
<1> USE DEF FaultsAdvance, Reads, Answers, With1!SendToServer, With1!ClientLeaves
<1>1. CASE With1!ReadFilenameReply
  BY <1>1 DEF With1!ReadFilenameReply
<1>2. CASE With1!AckAll \/ With1!RejectHole
  BY <1>2 DEF With1!AckAll, With1!RejectHole
<1>3. CASE With1!RecvData
  BY <1>3 DEF With1!RecvData, With1!RecvCorrupted, With1!RecvEof, With1!RecvOld,
              With1!RecvExpected, With1!RecvAhead
<1> QED
  BY <1>1, <1>2, <1>3

\* rcopy in conversation with child 2.
LEMMA With2Effect ==
  ASSUME \/ With2!ReadFilenameReply \/ With2!RecvData
         \/ With2!AckAll \/ With2!RejectHole
  PROVE  /\ FaultsAdvance
         /\ Reads \/ Answers
         /\ cstate = "FILENAME" => toServer2' = toServer2
<1> USE DEF FaultsAdvance, Reads, Answers, With2!SendToServer, With2!ClientLeaves
<1>1. CASE With2!ReadFilenameReply
  BY <1>1 DEF With2!ReadFilenameReply
<1>2. CASE With2!AckAll \/ With2!RejectHole
  BY <1>2 DEF With2!AckAll, With2!RejectHole
<1>3. CASE With2!RecvData
  BY <1>3 DEF With2!RecvData, With2!RecvCorrupted, With2!RecvEof, With2!RecvOld,
              With2!RecvExpected, With2!RecvAhead
<1> QED
  BY <1>1, <1>2, <1>3

-----------------------------------------------------------------------------
(* Who talks to whom. *)

\* A step that leaves the main server and the children alone disturbs what
\* rcopy knows only.
LEMMA OthersStay ==
  ASSUME UNCHANGED <<childVars1, childVars2, channels1, channels2>>,
         SessionInv1, UNCHANGED serves
  PROVE  /\ UnforkedIsFresh'
         /\ \A k \in Children : Deaf(k) => Deaf(k)'
  BY DEF SessionInv1, UnforkedIsFresh, Children, Deaf, AnswersTo, LowerBound,
         Child1!ServerInit, Child2!ServerInit, childVars1, childVars2,
         channels1, channels2

LEMMA StartStateKeeps ==
  ASSUME SessionInv1, StartState
  PROVE  SessionInv1'
<1> USE DEF SessionInv1
<1>1. /\ cstate = "START_STATE" /\ cstate' = "FILENAME" /\ sock' = sock + 1
      /\ remote' = 0 /\ UNCHANGED <<serves, nameTries, output, cwindow, srejFg>>
      /\ outcome' = "running" /\ SendName(sock + 1)
      /\ UNCHANGED <<childVars1, childVars2, channels1, channels2>>
  BY DEF StartState
<1>2. sock \in Nat /\ sock + 1 \in Nat
  BY DEF SessionTypes
<1>3. SessionTypes'
  BY <1>1, <1>2, SendNameEffect DEF SessionTypes
<1>4. NamesAreOld'
  <2>1. Len(toMain) \in Nat /\ Len(toMain') \in Nat
    BY <1>3, LenProperties DEF SessionTypes
  <2>2. ASSUME NEW i \in 1 .. Len(toMain'), toMain'[i].flag = "FNAME"
        PROVE  toMain'[i].seq \in 1 .. sock'
    <3>1. CASE i \in 1 .. Len(toMain)
      BY <1>1, <1>2, <2>2, <3>1, SendNameEffect DEF NamesAreOld
    <3>2. CASE toMain'[i] \in {Name(sock + 1), WithMain!Corrupted}
      BY <1>1, <1>2, <2>2, <3>2 DEF Name, WithMain!Corrupted, WithMain!Packet
    <3> QED
      BY <1>1, <1>2, <3>1, <3>2, SendNameEffect
  <2>3. \A k \in Children : serves'[k] <= sock'
    BY <1>1, <1>2 DEF NamesAreOld, SessionTypes
  <2> QED
    BY <1>1, <1>2, <2>2, <2>3 DEF NamesAreOld
<1>5. RemoteServes'
  BY <1>1 DEF RemoteServes, SendingStates
<1>6. OthersAreDeaf'
  BY <1>1, OthersStay DEF OthersAreDeaf, AskingStates
<1>7. UnforkedIsFresh'
  BY <1>1, OthersStay
<1>8. AskingIsFresh'
  BY <1>1 DEF AskingIsFresh, AskingStates
<1> QED
  BY <1>3, <1>4, <1>5, <1>6, <1>7, <1>8

LEMMA StartFailsKeeps ==
  ASSUME SessionInv1, StartFails
  PROVE  SessionInv1'
<1> USE DEF SessionInv1, StartFails, nameVars, mainVars
<1>1. cstate' = "DONE" /\ UNCHANGED <<sock, remote, serves, toMain, faults>>
  OBVIOUS
<1>2. SessionTypes' /\ NamesAreOld' /\ RemoteServes' /\ AskingIsFresh'
  BY <1>1 DEF SessionTypes, NamesAreOld, RemoteServes, AskingIsFresh,
              AskingStates, SendingStates
<1>3. OthersAreDeaf' /\ UnforkedIsFresh'
  BY <1>1, OthersStay DEF OthersAreDeaf, AskingStates
<1> QED
  BY <1>2, <1>3

\* rcopy reads from the child it talks to, or answers it: the child is not
\* deaf any more, and no other hears anything.
LEMMA TalkKeeps ==
  ASSUME SessionInv1, FaultsAdvance, NEW k \in Children,
         serves[k] = sock, remote' = k,
         UNCHANGED <<sock, toMain, serves, childVars1, childVars2>>,
         k = 1 => UNCHANGED channels2, k = 2 => UNCHANGED channels1,
         cstate = "FILENAME" => AnswersTo(k)' = AnswersTo(k),
         \/ Reads
         \/ Answers /\ UNCHANGED nameTries
  PROVE  SessionInv1'
<1> USE DEF SessionInv1
<1>1. sock # 0 /\ cstate # "START_STATE" /\ cstate \in SendingStates \cup {"FILENAME"}
  BY DEF Reads, Answers, SendingStates, NamesAreOld
<1>2. SessionTypes'
  <2>1. faults' \in 0 .. MaxFaults
    BY ConversationAssumption DEF FaultsAdvance, SessionTypes
  <2> QED
    BY <2>1 DEF SessionTypes
<1>3. NamesAreOld'
  BY <1>1 DEF NamesAreOld
<1>4. RemoteServes'
  BY <1>1 DEF RemoteServes, Children
<1>5. \A j \in Children : j # k => (Deaf(j) => Deaf(j)')
  BY DEF Children, Deaf, AnswersTo, LowerBound, childVars1, childVars2,
         channels1, channels2
<1>6. OthersAreDeaf'
  <2> SUFFICES ASSUME NEW j \in Children, serves[j] # sock \/ cstate' \in AskingStates
               PROVE  Deaf(j)'
    BY DEF OthersAreDeaf
  <2>1. CASE j # k /\ serves[j] # sock
    BY <1>5, <2>1 DEF OthersAreDeaf
  <2>2. CASE cstate' \in AskingStates
    <3>1. cstate = "FILENAME" /\ AnswersTo(k)' = AnswersTo(k)
      BY <2>2 DEF Reads, Answers, AskingStates
    <3>2. Deaf(j)
      BY <3>1 DEF OthersAreDeaf, AskingStates
    <3>3. LowerBound(j)' = LowerBound(j)
      BY DEF LowerBound, childVars1, childVars2
    <3> QED
      BY <1>5, <3>1, <3>2, <3>3 DEF Deaf
  <2> QED
    BY <2>1, <2>2
<1>7. UnforkedIsFresh'
  BY <1>1 DEF UnforkedIsFresh, Children, Child1!ServerInit, Child2!ServerInit,
              childVars1, childVars2, channels1, channels2
<1>8. AskingIsFresh'
  BY ConversationAssumption DEF AskingIsFresh, AskingStates, Reads, Answers
<1> QED
  BY <1>2, <1>3, <1>4, <1>6, <1>7, <1>8

LEMMA ClientReadsKeeps ==
  ASSUME SessionInv1, NEW k \in Children, ClientReads(k)
  PROVE  SessionInv1'
<1>0. /\ serves[k] = sock /\ remote' = k
      /\ UNCHANGED <<sock, toMain, serves, childVars1, childVars2>>
      /\ \/ k = 1 /\ (With1!ReadFilenameReply \/ With1!RecvData) /\ UNCHANGED channels2
         \/ k = 2 /\ (With2!ReadFilenameReply \/ With2!RecvData) /\ UNCHANGED channels1
  BY DEF ClientReads, mainVars
<1>1. CASE k = 1
  <2>1. /\ FaultsAdvance /\ (Reads \/ Answers)
        /\ cstate = "FILENAME" => toServer1' = toServer1
    BY <1>0, <1>1, With1Effect
  <2>2. ~ Answers /\ UNCHANGED channels2
    BY <1>0, <1>1 DEF Answers, With1!ReadFilenameReply, With1!RecvData
  <2>3. cstate = "FILENAME" => AnswersTo(k)' = AnswersTo(k)
    BY <1>1, <2>1 DEF AnswersTo
  <2> QED
    BY <1>0, <1>1, <2>1, <2>2, <2>3, TalkKeeps
<1>2. CASE k = 2
  <2>1. /\ FaultsAdvance /\ (Reads \/ Answers)
        /\ cstate = "FILENAME" => toServer2' = toServer2
    BY <1>0, <1>2, With2Effect
  <2>2. ~ Answers /\ UNCHANGED channels1
    BY <1>0, <1>2 DEF Answers, With2!ReadFilenameReply, With2!RecvData
  <2>3. cstate = "FILENAME" => AnswersTo(k)' = AnswersTo(k)
    BY <1>2, <2>1 DEF AnswersTo
  <2> QED
    BY <1>0, <1>2, <2>1, <2>2, <2>3, TalkKeeps
<1> QED
  BY <1>1, <1>2 DEF Children

\* The main server is never answered: in check_buffer() there is a child.
LEMMA AnsweredChild ==
  ASSUME SessionInv1, ClientAnswers
  PROVE  /\ cstate = "CHECK_BUFFER" /\ remote \in Children /\ serves[remote] = sock
         /\ UNCHANGED toMain
         /\ \/ remote = 1 /\ (With1!AckAll \/ With1!RejectHole) /\ UNCHANGED channels2
            \/ remote = 2 /\ (With2!AckAll \/ With2!RejectHole) /\ UNCHANGED channels1
<1>1. cstate = "CHECK_BUFFER"
  BY DEF ClientAnswers, WithMain!AckAll, WithMain!RejectHole, With1!AckAll,
         With1!RejectHole, With2!AckAll, With2!RejectHole
<1>2. remote # 0 /\ serves[remote] = sock
  BY <1>1 DEF SessionInv1, RemoteServes, SendingStates
<1> QED
  BY <1>1, <1>2 DEF ClientAnswers, SessionInv1, SessionTypes

LEMMA ClientAnswersKeeps ==
  ASSUME SessionInv1, ClientAnswers
  PROVE  SessionInv1'
<1>1. /\ cstate = "CHECK_BUFFER" /\ remote \in Children /\ serves[remote] = sock
      /\ UNCHANGED toMain
      /\ \/ remote = 1 /\ (With1!AckAll \/ With1!RejectHole) /\ UNCHANGED channels2
         \/ remote = 2 /\ (With2!AckAll \/ With2!RejectHole) /\ UNCHANGED channels1
  BY AnsweredChild
<1>2. FaultsAdvance /\ Answers /\ ~ (cstate = "FILENAME")
  BY <1>1, With1Effect, With2Effect DEF Reads
<1>3. UNCHANGED <<sock, remote, serves, childVars1, childVars2>>
  BY DEF ClientAnswers, nameVars
<1>4. UNCHANGED nameTries
  BY <1>1 DEF With1!AckAll, With1!RejectHole, With2!AckAll, With2!RejectHole
<1>5. /\ remote = 1 => UNCHANGED channels2
      /\ remote = 2 => UNCHANGED channels1
  BY <1>1
<1>6. PICK k \in Children : k = remote
  BY <1>1
<1> QED
  BY <1>1, <1>2, <1>3, <1>4, <1>5, <1>6, TalkKeeps

\* Steps of rcopy that neither read nor send.
ClientAlone == \/ With1!FilenameGiveUp \/ With1!OpenOutput \/ With1!DrainOne
               \/ With1!FilenameTimeout \/ With1!ServerGone

LEMMA ClientAloneKeeps ==
  ASSUME SessionInv1, Silently(ClientAlone)
  PROVE  SessionInv1'
<1> USE DEF SessionInv1
<1>1. /\ UNCHANGED <<sock, remote, serves, toMain, faults>>
      /\ UNCHANGED <<childVars1, childVars2, channels1, channels2>>
  BY DEF Silently, ClientAlone, nameVars, mainVars, channels1, With1!netVars,
         With1!FilenameGiveUp, With1!OpenOutput, With1!DrainOne,
         With1!FilenameTimeout, With1!ServerGone
<1>2. \/ /\ cstate = "FILENAME" /\ cstate' \in {"START_STATE", "DONE"}
         /\ cstate' = "START_STATE" =>
              nameTries < MaxTries /\ nameTries' = nameTries + 1 /\ outcome' = "restarted"
         /\ UNCHANGED <<output, cwindow, srejFg>>
      \/ cstate \in SendingStates /\ cstate' \in {"RECV_DATA", "CHECK_BUFFER", "DONE"}
  BY DEF Silently, ClientAlone, SendingStates, With1!ClientLeaves,
         With1!FilenameGiveUp, With1!OpenOutput, With1!DrainOne,
         With1!FilenameTimeout, With1!ServerGone
<1>3. SessionTypes' /\ NamesAreOld' /\ RemoteServes'
  BY <1>1, <1>2 DEF SessionTypes, NamesAreOld, RemoteServes, SendingStates
<1>4. OthersAreDeaf' /\ UnforkedIsFresh'
  BY <1>1, <1>2, OthersStay DEF OthersAreDeaf, AskingStates
<1>5. AskingIsFresh'
  BY <1>2, ConversationAssumption DEF AskingIsFresh, AskingStates, SendingStates
<1> QED
  BY <1>3, <1>4, <1>5

\* The main server takes a name, or something else, from its socket.
LEMMA MainReadKeeps ==
  ASSUME SessionInv1, NEW i \in DOMAIN toMain, toMain' = RemoveAt(toMain, i),
         UNCHANGED <<sock, cstate>>
  PROVE  \A j \in 1 .. Len(toMain') :
           toMain'[j].flag = "FNAME" => toMain'[j].seq \in 1 .. sock'
  BY MainReads DEF SessionInv1, NamesAreOld

LEMMA ForkKeeps ==
  ASSUME SessionInv1, Fork
  PROVE  SessionInv1'
<1> USE DEF SessionInv1
<1>1. PICK i \in DOMAIN toMain, k \in Children :
        /\ toMain[i].flag # "CRC_ERROR" /\ serves[k] = 0
        /\ serves' = [serves EXCEPT ![k] = toMain[i].seq]
        /\ toMain' = RemoveAt(toMain, i)
  BY DEF Fork, Forked
<1>2. /\ UNCHANGED <<sock, remote, faults, cstate, output, cwindow, srejFg>>
      /\ UNCHANGED <<nameTries, outcome>>
      /\ UNCHANGED <<childVars1, childVars2, channels1, channels2>>
  BY DEF Fork, nameVars, clientVars
<1>3. toMain[i].flag = "FNAME" /\ toMain[i].seq \in 1 .. sock
  <2>1. toMain[i] \in NamePackets /\ i \in 1 .. Len(toMain)
    BY <1>1, MainReads, ElementOfSeq DEF SessionTypes
  <2> QED
    BY <1>1, <2>1 DEF NamePackets, WithMain!Corrupted, WithMain!Packet, NamesAreOld
<1>4. SessionTypes'
  BY <1>1, <1>2, <1>3, MainReads DEF SessionTypes
<1>5. NamesAreOld'
  <2>1. sock \in Nat /\ serves \in [Children -> Nat]
    BY DEF SessionTypes
  <2>2. \A j \in Children : serves'[j] <= sock'
    BY <1>1, <1>2, <1>3, <2>1 DEF NamesAreOld
  <2> QED
    BY <1>1, <1>2, <2>2, MainReadKeeps DEF NamesAreOld
<1>6. remote # 0 => serves'[remote] = serves[remote]
  BY <1>1 DEF RemoteServes, SessionTypes
<1>7. RemoteServes'
  BY <1>2, <1>6 DEF RemoteServes
<1>8. Deaf(k)
  BY <1>1 DEF UnforkedIsFresh, Children, Deaf, AnswersTo, LowerBound,
              Child1!ServerInit, Child2!ServerInit
<1>9. \A j \in Children : Deaf(j) => Deaf(j)'
  BY <1>2 DEF Deaf, AnswersTo, LowerBound, childVars1, childVars2, channels1, channels2
<1>10. OthersAreDeaf'
  <2> SUFFICES ASSUME NEW j \in Children,
                      serves'[j] # sock \/ cstate \in AskingStates
               PROVE  Deaf(j)
    BY <1>2, <1>9 DEF OthersAreDeaf
  <2>1. CASE j = k
    BY <1>8, <2>1
  <2>2. CASE j # k
    BY <1>1, <2>2 DEF OthersAreDeaf, SessionTypes
  <2> QED
    BY <2>1, <2>2
<1>11. UnforkedIsFresh'
  <2>1. \A j \in Children : serves'[j] = 0 => serves[j] = 0
    BY <1>1 DEF SessionTypes
  <2> QED
    BY <1>2, <2>1
    DEF UnforkedIsFresh, Children, Child1!ServerInit, Child2!ServerInit,
        childVars1, childVars2, channels1, channels2
<1>12. AskingIsFresh'
  BY <1>2 DEF AskingIsFresh
<1> QED
  BY <1>4, <1>5, <1>7, <1>10, <1>11, <1>12

LEMMA MainAloneKeeps ==
  ASSUME SessionInv1, ForkFails \/ DropCorrupted \/ MainSelectExpires \/ UNCHANGED vars
  PROVE  SessionInv1'
<1> USE DEF SessionInv1
<1>1. /\ UNCHANGED <<sock, remote, serves, faults, cstate, output, cwindow, srejFg>>
      /\ UNCHANGED <<nameTries, outcome>>
      /\ UNCHANGED <<childVars1, childVars2, channels1, channels2>>
  BY DEF ForkFails, DropCorrupted, MainSelectExpires, nameVars, clientVars, vars, mainVars
<1>2. \/ UNCHANGED toMain
      \/ \E i \in DOMAIN toMain : toMain' = RemoveAt(toMain, i)
  BY DEF ForkFails, DropCorrupted, MainSelectExpires, vars, mainVars
<1>3. toMain' \in Seq(NamePackets)
  BY <1>2, MainReads DEF SessionTypes
<1>4. SessionTypes' /\ RemoteServes' /\ AskingIsFresh'
  BY <1>1, <1>3 DEF SessionTypes, RemoteServes, AskingIsFresh
<1>5. NamesAreOld'
  BY <1>1, <1>2, MainReadKeeps DEF NamesAreOld
<1>6. OthersAreDeaf' /\ UnforkedIsFresh'
  BY <1>1, OthersStay DEF OthersAreDeaf
<1> QED
  BY <1>4, <1>5, <1>6

\* A step of child k.
ChildStep(k) == ChildNext(k) \/ ChildSelectExpires(k)

LEMMA ChildKeeps ==
  ASSUME SessionInv1, NEW k \in Children, ChildStep(k)
  PROVE  SessionInv1'
<1> USE DEF SessionInv1
<1>1. /\ serves[k] # 0
      /\ \/ /\ k = 1 /\ (Child1!ServerStep \/ Child1!ServerTimeout)
            /\ UNCHANGED <<childVars2, channels2>>
         \/ /\ k = 2 /\ (Child2!ServerStep \/ Child2!ServerTimeout)
            /\ UNCHANGED <<childVars1, channels1>>
      /\ UNCHANGED <<clientVars, nameVars, mainVars>>
  BY DEF ChildStep, ChildNext, ChildSelectExpires, ChildDoes
<1>2. /\ UNCHANGED <<sock, remote, serves, toMain, cstate, output, cwindow, srejFg>>
      /\ UNCHANGED <<nameTries, outcome>>
  BY <1>1 DEF nameVars, clientVars, mainVars
<1>3. FaultsAdvance
  BY <1>1, Child1Effect, Child2Effect
<1>4. faults' \in 0 .. MaxFaults
  BY <1>3, ConversationAssumption DEF FaultsAdvance, SessionTypes
<1>5. \A j \in Children : Deaf(j) => Deaf(j)'
  BY <1>1, Child1Effect, Child2Effect
  DEF Children, Deaf, AnswersTo, LowerBound, childVars1, childVars2, channels1, channels2
<1>6. SessionTypes' /\ NamesAreOld' /\ RemoteServes' /\ AskingIsFresh'
  BY <1>2, <1>4 DEF SessionTypes, NamesAreOld, RemoteServes, AskingIsFresh
<1>7. OthersAreDeaf'
  BY <1>2, <1>5 DEF OthersAreDeaf
<1>8. UnforkedIsFresh'
  <2>1. CASE k = 1
    <3>1. serves'[1] # 0 /\ UNCHANGED <<serves, childVars2, channels2>>
      BY <1>1, <1>2, <2>1
    <3> QED
      BY <3>1 DEF UnforkedIsFresh, Child2!ServerInit, childVars2, channels2
  <2>2. CASE k = 2
    <3>1. serves'[2] # 0 /\ UNCHANGED <<serves, childVars1, channels1>>
      BY <1>1, <1>2, <2>2
    <3> QED
      BY <3>1 DEF UnforkedIsFresh, Child1!ServerInit, childVars1, channels1
  <2> QED
    BY <2>1, <2>2 DEF Children
<1> QED
  BY <1>6, <1>7, <1>8

\* Every step of the session is one of these.
LEMMA SessionSteps ==
  ASSUME [Next]_vars
  PROVE  \/ StartState \/ StartFails
         \/ \E k \in Children : ClientReads(k)
         \/ ClientAnswers
         \/ Silently(ClientAlone)
         \/ Fork
         \/ ForkFails \/ DropCorrupted \/ MainSelectExpires \/ UNCHANGED vars
         \/ \E k \in Children : ChildStep(k)
  BY DEF Next, ClientNext, NameSelectExpires, RecvSelectExpires, MainNext,
         Finished, ChildStep, Silently, ClientAlone

LEMMA SessionStep1 ==
  ASSUME SessionInv1, [Next]_vars
  PROVE  SessionInv1'
  BY SessionSteps, StartStateKeeps, StartFailsKeeps, ClientReadsKeeps,
     ClientAnswersKeeps, ClientAloneKeeps, ForkKeeps, MainAloneKeeps, ChildKeeps

LEMMA SessionStart1 ==
  ASSUME Init
  PROVE  SessionInv1
<1> USE DEF Init
<1>1. SessionTypes
  BY EmptySeq, ConversationAssumption DEF SessionTypes, Children
<1>2. NamesAreOld /\ RemoteServes
  BY <1>1 DEF NamesAreOld, RemoteServes, SendingStates, Children
<1>3. OthersAreDeaf /\ UnforkedIsFresh
  BY DEF OthersAreDeaf, UnforkedIsFresh, Children, Deaf, AnswersTo, LowerBound,
         Child1!ServerInit, Child2!ServerInit
<1>4. AskingIsFresh
  BY ConversationAssumption DEF AskingIsFresh, AskingStates
<1> QED
  BY <1>1, <1>2, <1>3, <1>4 DEF SessionInv1

\* Nothing but names, whole or spoilt, reaches the main server's port.
THEOREM MainHearsNames == Spec => []MainHearsNamesOnly
<1>1. SessionInv1 => MainHearsNamesOnly
  <2> SUFFICES ASSUME SessionInv1, NEW i \in DOMAIN toMain
               PROVE  toMain[i].flag \in {"FNAME", "CRC_ERROR"}
    BY DEF MainHearsNamesOnly, Range
  <2>1. toMain[i] \in NamePackets
    BY LenProperties, ElementOfSeq DEF SessionInv1, SessionTypes
  <2> QED
    BY <2>1 DEF NamePackets, WithMain!Corrupted, WithMain!Packet
<1> QED
  BY <1>1, SessionStart1, SessionStep1, PTL DEF Spec

\* A child rcopy has turned away from never hears of it, so it frees nothing.
THEOREM OrphansStayDeaf == Spec => []OrphansAreDeaf
<1>1. SessionInv1 => OrphansAreDeaf
  BY DEF SessionInv1, OthersAreDeaf, Deaf, OrphansAreDeaf, Forked
<1> QED
  BY <1>1, SessionStart1, SessionStep1, PTL DEF Spec

-----------------------------------------------------------------------------
(* A network that does not double a name: each is served once. *)

\* Steps that involve neither a name nor a fork.
LEMMA NamesRest ==
  ASSUME SessionInv1,
         \/ StartFails
         \/ \E k \in Children : ClientReads(k) \/ ChildStep(k)
         \/ ClientAnswers \/ Silently(ClientAlone)
         \/ MainSelectExpires \/ UNCHANGED vars
  PROVE  UNCHANGED <<toMain, serves>>
<1>1. CASE StartFails
  BY <1>1 DEF StartFails, mainVars
<1>2. CASE \E k \in Children : ClientReads(k)
  BY <1>2 DEF ClientReads, mainVars
<1>3. CASE \E k \in Children : ChildStep(k)
  BY <1>3 DEF ChildStep, ChildNext, ChildSelectExpires, ChildDoes, mainVars
<1>4. CASE ClientAnswers
  BY <1>4, AnsweredChild DEF ClientAnswers
<1>5. CASE Silently(ClientAlone)
  BY <1>5 DEF Silently, mainVars
<1>6. CASE MainSelectExpires \/ UNCHANGED vars
  BY <1>6 DEF MainSelectExpires, mainVars, vars
<1> QED
  BY <1>1, <1>2, <1>3, <1>4, <1>5, <1>6

\* Names taken from the queue leave the others as different as they were.
LEMMA NamesTaken ==
  ASSUME SessionInv1, NamesAreServedOnce,
         NEW i \in DOMAIN toMain, toMain' = RemoveAt(toMain, i)
  PROVE  /\ \A j, l \in 1 .. Len(toMain') :
              toMain'[j].flag = "FNAME" /\ toMain'[l].flag = "FNAME" /\ j # l =>
                 toMain'[j].seq # toMain'[l].seq
         /\ \A j \in 1 .. Len(toMain') :
              toMain'[j].flag = "FNAME" =>
                 /\ toMain[i].flag = "FNAME" => toMain'[j].seq # toMain[i].seq
                 /\ \A k \in Children : toMain'[j].seq # serves[k]
<1> DEFINE from(j) == IF j < i THEN j ELSE j + 1
<1>1. /\ i \in 1 .. Len(toMain)
      /\ \A j \in 1 .. Len(toMain') :
           from(j) \in 1 .. Len(toMain) /\ from(j) # i /\ toMain'[j] = toMain[from(j)]
  BY MainReads DEF SessionInv1
<1>2. \A j, l \in 1 .. Len(toMain') : j # l => from(j) # from(l)
  BY <1>1
<1> HIDE DEF from
<1>3. ASSUME NEW j \in 1 .. Len(toMain'), NEW l \in 1 .. Len(toMain'),
             toMain'[j].flag = "FNAME", toMain'[l].flag = "FNAME", j # l
      PROVE  toMain'[j].seq # toMain'[l].seq
  <2>1. from(j) # from(l)
    BY <1>2, <1>3
  <2> QED
    BY <1>1, <1>3, <2>1 DEF NamesAreServedOnce
<1>4. ASSUME NEW j \in 1 .. Len(toMain'), toMain'[j].flag = "FNAME"
      PROVE  /\ toMain[i].flag = "FNAME" => toMain'[j].seq # toMain[i].seq
             /\ \A k \in Children : toMain'[j].seq # serves[k]
  BY <1>1, <1>4 DEF NamesAreServedOnce
<1> QED
  BY <1>3, <1>4

LEMMA NameSent ==
  ASSUME NamesDouble = FALSE, SessionInv1, NamesAreServedOnce, StartState
  PROVE  NamesAreServedOnce'
<1>1. SessionTypes /\ sock \in Nat /\ sock + 1 \in Nat /\ SendName(sock + 1)
      /\ UNCHANGED serves /\ serves \in [Children -> Nat]
  BY DEF SessionInv1, SessionTypes, StartState
<1>2. /\ toMain \in Seq(NamePackets) /\ toMain' \in Seq(NamePackets)
      /\ Len(toMain') <= Len(toMain) + 1
      /\ \A i \in 1 .. Len(toMain) : toMain'[i] = toMain[i]
      /\ \A i \in 1 .. Len(toMain') :
           i \notin 1 .. Len(toMain) => toMain'[i] \in {Name(sock + 1), WithMain!Corrupted}
  BY <1>1, SendNameEffect DEF SessionTypes
<1>3. Len(toMain) \in Nat /\ Len(toMain') \in Nat
  BY <1>2, LenProperties
<1>4. \A i \in 1 .. Len(toMain') : i \notin 1 .. Len(toMain) => i = Len(toMain) + 1
  BY <1>2, <1>3
<1>5. \A i \in 1 .. Len(toMain') : toMain'[i].flag = "FNAME" =>
        \/ i \in 1 .. Len(toMain) /\ toMain'[i].seq = toMain[i].seq
           /\ toMain[i].flag = "FNAME" /\ toMain'[i].seq \in 1 .. sock
        \/ i = Len(toMain) + 1 /\ toMain'[i].seq = sock + 1
  <2> SUFFICES ASSUME NEW i \in 1 .. Len(toMain'), toMain'[i].flag = "FNAME"
               PROVE  \/ i \in 1 .. Len(toMain) /\ toMain'[i].seq = toMain[i].seq
                         /\ toMain[i].flag = "FNAME" /\ toMain'[i].seq \in 1 .. sock
                      \/ i = Len(toMain) + 1 /\ toMain'[i].seq = sock + 1
    OBVIOUS
  <2>1. CASE i \in 1 .. Len(toMain)
    BY <1>2, <2>1 DEF SessionInv1, NamesAreOld
  <2>2. CASE i \notin 1 .. Len(toMain)
    BY <1>2, <1>4, <2>2 DEF Name, WithMain!Corrupted, WithMain!Packet
  <2> QED
    BY <2>1, <2>2
<1>6. \A k \in Children : serves[k] <= sock /\ serves[k] \in Nat
  BY <1>1 DEF SessionInv1, NamesAreOld
<1>7. ASSUME NEW i \in 1 .. Len(toMain'), NEW j \in 1 .. Len(toMain'),
             toMain'[i].flag = "FNAME", toMain'[j].flag = "FNAME", i # j
      PROVE  toMain'[i].seq # toMain'[j].seq
  BY <1>1, <1>5, <1>7 DEF NamesAreServedOnce
<1>8. ASSUME NEW i \in 1 .. Len(toMain'), NEW k \in Children,
             toMain'[i].flag = "FNAME"
      PROVE  toMain'[i].seq # serves'[k]
  <2>1. serves'[k] = serves[k] /\ serves[k] <= sock /\ serves[k] \in Nat
    BY <1>1, <1>6
  <2>2. CASE i \in 1 .. Len(toMain) /\ toMain'[i].seq = toMain[i].seq
             /\ toMain[i].flag = "FNAME"
    BY <2>1, <2>2 DEF NamesAreServedOnce
  <2>3. CASE toMain'[i].seq = sock + 1
    BY <1>1, <2>1, <2>3
  <2> QED
    BY <1>5, <1>8, <2>2, <2>3
<1> QED
  BY <1>1, <1>7, <1>8 DEF NamesAreServedOnce

LEMMA NameForked ==
  ASSUME SessionInv1, NamesAreServedOnce, Fork
  PROVE  NamesAreServedOnce'
<1>1. PICK i \in DOMAIN toMain, k \in Children :
        /\ toMain[i].flag # "CRC_ERROR"
        /\ serves' = [serves EXCEPT ![k] = toMain[i].seq]
        /\ toMain' = RemoveAt(toMain, i)
  BY DEF Fork
<1>2. toMain[i].flag = "FNAME" /\ i \in 1 .. Len(toMain)
  <2>1. toMain[i] \in NamePackets /\ i \in 1 .. Len(toMain)
    BY <1>1, MainReads, ElementOfSeq DEF SessionInv1, SessionTypes
  <2> QED
    BY <1>1, <2>1 DEF NamePackets, WithMain!Corrupted, WithMain!Packet
<1>3. \A j \in Children : serves'[j] = IF j = k THEN toMain[i].seq ELSE serves[j]
  BY <1>1 DEF SessionInv1, SessionTypes
<1>4. serves'[1] # 0 => serves'[1] # serves'[2]
  BY <1>2, <1>3 DEF NamesAreServedOnce, Children
<1>5. ASSUME NEW j \in 1 .. Len(toMain'), NEW l \in Children,
             toMain'[j].flag = "FNAME"
      PROVE  toMain'[j].seq # serves'[l]
  BY <1>1, <1>2, <1>3, <1>5, NamesTaken
<1> QED
  BY <1>1, <1>4, <1>5, NamesTaken DEF NamesAreServedOnce

LEMMA ServedOnceStep ==
  ASSUME NamesDouble = FALSE, SessionInv1, NamesAreServedOnce, [Next]_vars
  PROVE  NamesAreServedOnce'
<1>1. CASE UNCHANGED <<toMain, serves>>
  BY <1>1 DEF NamesAreServedOnce
<1>2. CASE ForkFails \/ DropCorrupted
  <2>1. PICK i \in DOMAIN toMain : toMain' = RemoveAt(toMain, i)
    BY <1>2 DEF ForkFails, DropCorrupted
  <2>2. UNCHANGED serves
    BY <1>2 DEF ForkFails, DropCorrupted
  <2> QED
    BY <2>1, <2>2, NamesTaken DEF NamesAreServedOnce
<1> QED
  BY <1>1, <1>2, NameSent, NameForked, NamesRest, SessionSteps

SessionInv == SessionInv1 /\ NamesAreServedOnce

LEMMA SessionStart ==
  ASSUME Init
  PROVE  SessionInv
<1>1. NamesAreServedOnce
  BY DEF Init, NamesAreServedOnce, Children
<1> QED
  BY <1>1, SessionStart1 DEF SessionInv

\* Within a conversation rcopy answers one child only.
THEOREM OneChildAnswered ==
  ASSUME NamesDouble = FALSE
  PROVE  Spec => OneChildIsAnswered
<1>1. SessionInv /\ [Next]_vars => SessionInv'
  BY SessionStep1, ServedOnceStep DEF SessionInv
<1>2. SessionInv /\ [Next]_vars => [remote # 0 => remote' \in {0, remote}]_remote
  <2> SUFFICES ASSUME SessionInv, [Next]_vars, remote # 0, remote' # remote
               PROVE  remote' = 0
    OBVIOUS
  <2> USE DEF SessionInv
  <2>1. CASE StartState
    BY <2>1 DEF StartState
  <2>2. ASSUME NEW k \in Children, ClientReads(k)
        PROVE  remote' = remote
    <3>1. serves[k] = sock /\ remote' = k
      BY <2>2 DEF ClientReads
    <3>2. serves[remote] = sock /\ sock # 0 /\ remote \in Children
      BY DEF SessionInv1, SessionTypes, RemoteServes
    <3> QED
      BY <3>1, <3>2 DEF NamesAreServedOnce, Children
  <2>3. CASE StartFails \/ ClientAnswers \/ Silently(ClientAlone)
    BY <2>3 DEF StartFails, ClientAnswers, Silently, nameVars
  <2>4. CASE Fork \/ ForkFails \/ DropCorrupted \/ MainSelectExpires \/ UNCHANGED vars
    BY <2>4 DEF Fork, ForkFails, DropCorrupted, MainSelectExpires, nameVars, vars
  <2>5. CASE \E k \in Children : ChildStep(k)
    BY <2>5 DEF ChildStep, ChildNext, ChildSelectExpires, ChildDoes, nameVars
  <2> QED
    BY <2>1, <2>2, <2>3, <2>4, <2>5, SessionSteps
<1> QED
  BY <1>1, <1>2, SessionStart, PTL DEF Spec, OneChildIsAnswered

-----------------------------------------------------------------------------
(* The processes at the ends of the socket in use take steps of Rcopy. *)

\* Child 1 is the one in conversation, before a step and after it.
Paired1 ==
  /\ <<curState, curWindow, curLower, curSeqNum,
       curFileOff, curRetry, curToServer, curToClient>> =
       <<sstate1, swindow1, wptrL1, seqNum1,
         fileOff1, retryCount1, toServer1, toClient1>>
  /\ <<curState, curWindow, curLower, curSeqNum,
       curFileOff, curRetry, curToServer, curToClient>>' =
       <<sstate1, swindow1, wptrL1, seqNum1,
         fileOff1, retryCount1, toServer1, toClient1>>'

LEMMA ServesSock1 ==
  ASSUME serves[1] = sock, UNCHANGED <<sock, serves>>
  PROVE  Paired1
  BY DEF Paired1, current, curState, curWindow, curLower, curSeqNum,
    curFileOff, curRetry, curToServer, curToClient

\* What child 1 calls is what the current child calls.
LEMMA Child1Calls ==
  ASSUME Paired1
  PROVE  /\ Child1!createWindow = Current!createWindow
         /\ Child1!NoData = Current!NoData
         /\ \A f, n, d : Child1!Packet(f, n, d) = Current!Packet(f, n, d)
         /\ \A s, i : Child1!RemoveAt(s, i) = Current!RemoveAt(s, i)
         /\ \A w, n, e : Child1!addElement(w, n, e) = Current!addElement(w, n, e)
         /\ Child1!isWindowFull(swindow1) <=> Current!isWindowFull(curWindow)
         /\ Child1!ToServerReadable = Current!ToServerReadable
         /\ \A p : Child1!SendToClient(p) <=> Current!SendToClient(p)
         /\ \A n : Child1!resend(n) <=> Current!resend(n)
         /\ \A n : Child1!Acknowledge(n) <=> Current!Acknowledge(n)
         /\ \A s : Child1!SelectReady(s) <=> Current!SelectReady(s)
         /\ \A s : Child1!SelectTimeout(s) <=> Current!SelectTimeout(s)
         /\ \A s : Child1!SelectGiveUp(s) <=> Current!SelectGiveUp(s)
<1> USE DEF Paired1, Child1!EMPTY, Current!EMPTY, Child1!NoData,
  Current!NoData, Child1!Slots, Current!Slots, Child1!Index, Current!Index,
  Child1!Packet, Current!Packet
<1>1. /\ Child1!createWindow = Current!createWindow
      /\ Child1!NoData = Current!NoData
      /\ \A f, n, d : Child1!Packet(f, n, d) = Current!Packet(f, n, d)
      /\ \A s, i : Child1!RemoveAt(s, i) = Current!RemoveAt(s, i)
      /\ \A w, n, e : Child1!addElement(w, n, e) = Current!addElement(w, n, e)
      /\ Child1!isWindowFull(swindow1) <=> Current!isWindowFull(curWindow)
  BY DEF Child1!createWindow, Current!createWindow, Child1!RemoveAt,
    Current!RemoveAt, Child1!addElement, Current!addElement,
    Child1!isWindowFull, Current!isWindowFull
<1>2. Child1!ToServerReadable = Current!ToServerReadable
  BY DEF Child1!ToServerReadable, Current!ToServerReadable, Child1!Readable,
    Current!Readable
<1>3. \A p : Child1!SendToClient(p) <=> Current!SendToClient(p)
  <2>1. \A ch, p : Child1!Enqueue(ch, p) = Current!Enqueue(ch, p)
    BY DEF Child1!Enqueue, Current!Enqueue
  <2>2. \A ch, p : Child1!Faulty(ch, p) = Current!Faulty(ch, p)
    BY <2>1 DEF Child1!Faulty, Current!Faulty, Child1!Corrupted,
      Current!Corrupted
  <2> QED
    BY <2>1, <2>2 DEF Child1!SendToClient, Current!SendToClient
<1>4. \A n : Child1!resend(n) <=> Current!resend(n)
  <2>1. \A n : Child1!Resent(n) = Current!Resent(n)
    BY DEF Child1!Resent, Current!Resent, Child1!isEmptySpot,
      Current!isEmptySpot, Child1!getElement, Current!getElement
  <2> QED
    BY <1>3, <2>1 DEF Child1!resend, Current!resend
<1>5. \A n : Child1!Acknowledge(n) <=> Current!Acknowledge(n)
  BY DEF Child1!Acknowledge, Current!Acknowledge, Child1!removeFromBuffer,
    Current!removeFromBuffer
<1>6. /\ \A s : Child1!SelectReady(s) <=> Current!SelectReady(s)
      /\ \A s : Child1!SelectTimeout(s) <=> Current!SelectTimeout(s)
      /\ \A s : Child1!SelectGiveUp(s) <=> Current!SelectGiveUp(s)
  BY DEF Child1!SelectReady, Current!SelectReady, Child1!SelectTimeout,
    Current!SelectTimeout, Child1!SelectGiveUp, Current!SelectGiveUp,
    Child1!netVars, Current!netVars
<1> QED
  BY <1>1, <1>2, <1>3, <1>4, <1>5, <1>6

\* A step of child 1 is a step of the current child.
LEMMA Child1IsCurrent ==
  ASSUME Paired1, Child1!ServerStep \/ Child1!ServerTimeout
  PROVE  Current!ServerStep \/ Current!ServerTimeout
<1> USE Child1Calls DEF Paired1, Child1!netVars, Current!netVars
<1>1. Child1!FilenameOk => Current!FilenameOk
  BY DEF Child1!FilenameOk, Current!FilenameOk
<1>2. Child1!FilenameBad => Current!FilenameBad
  BY DEF Child1!FilenameBad, Current!FilenameBad
<1>3. Child1!WindowOpen => Current!WindowOpen
  BY DEF Child1!WindowOpen, Current!WindowOpen
<1>4. Child1!WindowFullReady => Current!WindowFullReady
  BY DEF Child1!WindowFullReady, Current!WindowFullReady
<1>5. Child1!WindowFullGiveUp => Current!WindowFullGiveUp
  BY DEF Child1!WindowFullGiveUp, Current!WindowFullGiveUp
<1>6. Child1!SendChunk => Current!SendChunk
  BY DEF Child1!SendChunk, Current!SendChunk
<1>7. Child1!ReachEof => Current!ReachEof
  BY DEF Child1!ReachEof, Current!ReachEof
<1>8. Child1!ReadError => Current!ReadError
  BY DEF Child1!ReadError, Current!ReadError
<1>9. Child1!NoAnswerYet => Current!NoAnswerYet
  BY DEF Child1!NoAnswerYet, Current!NoAnswerYet
<1>10. Child1!ReadRrSrej => Current!ReadRrSrej
  BY DEF Child1!ReadRrSrej, Current!ReadRrSrej
<1>11. Child1!ReadLastRr => Current!ReadLastRr
  BY DEF Child1!ReadLastRr, Current!ReadLastRr, Child1!expRR, Current!expRR
<1>12. Child1!LastRrGiveUp => Current!LastRrGiveUp
  BY DEF Child1!LastRrGiveUp, Current!LastRrGiveUp
<1>13. Child1!ReadEofAck => Current!ReadEofAck
  BY DEF Child1!ReadEofAck, Current!ReadEofAck
<1>14. Child1!EofAckGiveUp => Current!EofAckGiveUp
  BY DEF Child1!EofAckGiveUp, Current!EofAckGiveUp
<1>15. Child1!WindowFullTimeout => Current!WindowFullTimeout
  BY DEF Child1!WindowFullTimeout, Current!WindowFullTimeout
<1>16. Child1!LastRrTimeout => Current!LastRrTimeout
  BY DEF Child1!LastRrTimeout, Current!LastRrTimeout
<1>17. Child1!EofAckTimeout => Current!EofAckTimeout
  BY DEF Child1!EofAckTimeout, Current!EofAckTimeout
<1> QED
  BY <1>1, <1>2, <1>3, <1>4, <1>5, <1>6, <1>7, <1>8, <1>9, <1>10, <1>11,
    <1>12, <1>13, <1>14, <1>15, <1>16, <1>17
  DEF Child1!ServerStep, Current!ServerStep, Child1!ServerTimeout,
    Current!ServerTimeout

\* What rcopy calls, in conversation with child 1.
LEMMA With1Calls ==
  ASSUME Paired1
  PROVE  /\ With1!NoData = Current!NoData
         /\ \A f, n, d : With1!Packet(f, n, d) = Current!Packet(f, n, d)
         /\ \A s, i : With1!RemoveAt(s, i) = Current!RemoveAt(s, i)
         /\ \A w, n, e : With1!addElement(w, n, e) = Current!addElement(w, n, e)
         /\ \A w : With1!isWindowEmpty(w) <=> Current!isWindowEmpty(w)
         /\ \A w, n : With1!isEmptySpot(w, n) <=> Current!isEmptySpot(w, n)
         /\ With1!ToClientReadable = Current!ToClientReadable
         /\ \A p : With1!SendToServer(p) <=> Current!SendToServer(p)
         /\ \A d : With1!Written(d) = Current!Written(d)
         /\ \A s, h : With1!ClientLeaves(s, h) <=> Current!ClientLeaves(s, h)
<1> USE DEF Paired1, With1!EMPTY, Current!EMPTY, With1!NoData,
  Current!NoData, With1!Slots, Current!Slots, With1!Index, Current!Index,
  With1!Packet, Current!Packet
<1>1. /\ With1!NoData = Current!NoData
      /\ \A f, n, d : With1!Packet(f, n, d) = Current!Packet(f, n, d)
      /\ \A s, i : With1!RemoveAt(s, i) = Current!RemoveAt(s, i)
      /\ \A w, n, e : With1!addElement(w, n, e) = Current!addElement(w, n, e)
      /\ \A w : With1!isWindowEmpty(w) <=> Current!isWindowEmpty(w)
      /\ \A w, n : With1!isEmptySpot(w, n) <=> Current!isEmptySpot(w, n)
  BY DEF With1!RemoveAt, Current!RemoveAt, With1!addElement,
    Current!addElement, With1!isWindowEmpty, Current!isWindowEmpty,
    With1!isEmptySpot, Current!isEmptySpot
<1>2. With1!ToClientReadable = Current!ToClientReadable
  BY DEF With1!ToClientReadable, Current!ToClientReadable, With1!Readable,
    Current!Readable
<1>3. \A p : With1!SendToServer(p) <=> Current!SendToServer(p)
  <2>1. \A ch, p : With1!Enqueue(ch, p) = Current!Enqueue(ch, p)
    BY DEF With1!Enqueue, Current!Enqueue
  <2>2. \A ch, p : With1!Faulty(ch, p) = Current!Faulty(ch, p)
    BY <2>1 DEF With1!Faulty, Current!Faulty, With1!Corrupted,
      Current!Corrupted
  <2> QED
    BY <2>1, <2>2 DEF With1!SendToServer, Current!SendToServer
<1>4. /\ \A d : With1!Written(d) = Current!Written(d)
      /\ \A s, h : With1!ClientLeaves(s, h) <=> Current!ClientLeaves(s, h)
  BY DEF With1!Written, Current!Written, With1!ClientLeaves,
    Current!ClientLeaves
<1> QED
  BY <1>1, <1>2, <1>3, <1>4

\* rcopy talks to child 1: to the current child.
LEMMA With1IsCurrent ==
  ASSUME Paired1, \/ With1!ReadFilenameReply \/ With1!RecvData
                   \/ With1!AckAll \/ With1!RejectHole
  PROVE  Current!ClientStep
<1> USE With1Calls DEF Paired1
<1>1. With1!ReadFilenameReply => Current!ReadFilenameReply
  BY DEF With1!ReadFilenameReply, Current!ReadFilenameReply
<1>2. With1!AckAll => Current!AckAll
  BY DEF With1!AckAll, Current!AckAll
<1>3. With1!RejectHole => Current!RejectHole
  BY DEF With1!RejectHole, Current!RejectHole
<1>4. \A p : /\ With1!RecvCorrupted(p) => Current!RecvCorrupted(p)
             /\ With1!RecvEof(p) => Current!RecvEof(p)
             /\ With1!RecvOld(p) => Current!RecvOld(p)
             /\ With1!RecvExpected(p) => Current!RecvExpected(p)
             /\ With1!RecvAhead(p) => Current!RecvAhead(p)
  BY DEF With1!RecvCorrupted, Current!RecvCorrupted, With1!RecvEof,
    Current!RecvEof, With1!RecvOld, Current!RecvOld, With1!RecvExpected,
    Current!RecvExpected, With1!RecvAhead, Current!RecvAhead
<1>5. With1!RecvData => Current!RecvData
  BY <1>4 DEF With1!RecvData, Current!RecvData
<1> QED
  BY <1>1, <1>2, <1>3, <1>5 DEF Current!ClientStep

\* Child 2 is the one in conversation, before a step and after it.
Paired2 ==
  /\ <<curState, curWindow, curLower, curSeqNum,
       curFileOff, curRetry, curToServer, curToClient>> =
       <<sstate2, swindow2, wptrL2, seqNum2,
         fileOff2, retryCount2, toServer2, toClient2>>
  /\ <<curState, curWindow, curLower, curSeqNum,
       curFileOff, curRetry, curToServer, curToClient>>' =
       <<sstate2, swindow2, wptrL2, seqNum2,
         fileOff2, retryCount2, toServer2, toClient2>>'

LEMMA ServesSock2 ==
  ASSUME serves[2] = sock, serves[1] # sock, UNCHANGED <<sock, serves>>
  PROVE  Paired2
  BY DEF Paired2, current, curState, curWindow, curLower, curSeqNum,
    curFileOff, curRetry, curToServer, curToClient

\* What child 2 calls is what the current child calls.
LEMMA Child2Calls ==
  ASSUME Paired2
  PROVE  /\ Child2!createWindow = Current!createWindow
         /\ Child2!NoData = Current!NoData
         /\ \A f, n, d : Child2!Packet(f, n, d) = Current!Packet(f, n, d)
         /\ \A s, i : Child2!RemoveAt(s, i) = Current!RemoveAt(s, i)
         /\ \A w, n, e : Child2!addElement(w, n, e) = Current!addElement(w, n, e)
         /\ Child2!isWindowFull(swindow2) <=> Current!isWindowFull(curWindow)
         /\ Child2!ToServerReadable = Current!ToServerReadable
         /\ \A p : Child2!SendToClient(p) <=> Current!SendToClient(p)
         /\ \A n : Child2!resend(n) <=> Current!resend(n)
         /\ \A n : Child2!Acknowledge(n) <=> Current!Acknowledge(n)
         /\ \A s : Child2!SelectReady(s) <=> Current!SelectReady(s)
         /\ \A s : Child2!SelectTimeout(s) <=> Current!SelectTimeout(s)
         /\ \A s : Child2!SelectGiveUp(s) <=> Current!SelectGiveUp(s)
<1> USE DEF Paired2, Child2!EMPTY, Current!EMPTY, Child2!NoData,
  Current!NoData, Child2!Slots, Current!Slots, Child2!Index, Current!Index,
  Child2!Packet, Current!Packet
<1>1. /\ Child2!createWindow = Current!createWindow
      /\ Child2!NoData = Current!NoData
      /\ \A f, n, d : Child2!Packet(f, n, d) = Current!Packet(f, n, d)
      /\ \A s, i : Child2!RemoveAt(s, i) = Current!RemoveAt(s, i)
      /\ \A w, n, e : Child2!addElement(w, n, e) = Current!addElement(w, n, e)
      /\ Child2!isWindowFull(swindow2) <=> Current!isWindowFull(curWindow)
  BY DEF Child2!createWindow, Current!createWindow, Child2!RemoveAt,
    Current!RemoveAt, Child2!addElement, Current!addElement,
    Child2!isWindowFull, Current!isWindowFull
<1>2. Child2!ToServerReadable = Current!ToServerReadable
  BY DEF Child2!ToServerReadable, Current!ToServerReadable, Child2!Readable,
    Current!Readable
<1>3. \A p : Child2!SendToClient(p) <=> Current!SendToClient(p)
  <2>1. \A ch, p : Child2!Enqueue(ch, p) = Current!Enqueue(ch, p)
    BY DEF Child2!Enqueue, Current!Enqueue
  <2>2. \A ch, p : Child2!Faulty(ch, p) = Current!Faulty(ch, p)
    BY <2>1 DEF Child2!Faulty, Current!Faulty, Child2!Corrupted,
      Current!Corrupted
  <2> QED
    BY <2>1, <2>2 DEF Child2!SendToClient, Current!SendToClient
<1>4. \A n : Child2!resend(n) <=> Current!resend(n)
  <2>1. \A n : Child2!Resent(n) = Current!Resent(n)
    BY DEF Child2!Resent, Current!Resent, Child2!isEmptySpot,
      Current!isEmptySpot, Child2!getElement, Current!getElement
  <2> QED
    BY <1>3, <2>1 DEF Child2!resend, Current!resend
<1>5. \A n : Child2!Acknowledge(n) <=> Current!Acknowledge(n)
  BY DEF Child2!Acknowledge, Current!Acknowledge, Child2!removeFromBuffer,
    Current!removeFromBuffer
<1>6. /\ \A s : Child2!SelectReady(s) <=> Current!SelectReady(s)
      /\ \A s : Child2!SelectTimeout(s) <=> Current!SelectTimeout(s)
      /\ \A s : Child2!SelectGiveUp(s) <=> Current!SelectGiveUp(s)
  BY DEF Child2!SelectReady, Current!SelectReady, Child2!SelectTimeout,
    Current!SelectTimeout, Child2!SelectGiveUp, Current!SelectGiveUp,
    Child2!netVars, Current!netVars
<1> QED
  BY <1>1, <1>2, <1>3, <1>4, <1>5, <1>6

\* A step of child 2 is a step of the current child.
LEMMA Child2IsCurrent ==
  ASSUME Paired2, Child2!ServerStep \/ Child2!ServerTimeout
  PROVE  Current!ServerStep \/ Current!ServerTimeout
<1> USE Child2Calls DEF Paired2, Child2!netVars, Current!netVars
<1>1. Child2!FilenameOk => Current!FilenameOk
  BY DEF Child2!FilenameOk, Current!FilenameOk
<1>2. Child2!FilenameBad => Current!FilenameBad
  BY DEF Child2!FilenameBad, Current!FilenameBad
<1>3. Child2!WindowOpen => Current!WindowOpen
  BY DEF Child2!WindowOpen, Current!WindowOpen
<1>4. Child2!WindowFullReady => Current!WindowFullReady
  BY DEF Child2!WindowFullReady, Current!WindowFullReady
<1>5. Child2!WindowFullGiveUp => Current!WindowFullGiveUp
  BY DEF Child2!WindowFullGiveUp, Current!WindowFullGiveUp
<1>6. Child2!SendChunk => Current!SendChunk
  BY DEF Child2!SendChunk, Current!SendChunk
<1>7. Child2!ReachEof => Current!ReachEof
  BY DEF Child2!ReachEof, Current!ReachEof
<1>8. Child2!ReadError => Current!ReadError
  BY DEF Child2!ReadError, Current!ReadError
<1>9. Child2!NoAnswerYet => Current!NoAnswerYet
  BY DEF Child2!NoAnswerYet, Current!NoAnswerYet
<1>10. Child2!ReadRrSrej => Current!ReadRrSrej
  BY DEF Child2!ReadRrSrej, Current!ReadRrSrej
<1>11. Child2!ReadLastRr => Current!ReadLastRr
  BY DEF Child2!ReadLastRr, Current!ReadLastRr, Child2!expRR, Current!expRR
<1>12. Child2!LastRrGiveUp => Current!LastRrGiveUp
  BY DEF Child2!LastRrGiveUp, Current!LastRrGiveUp
<1>13. Child2!ReadEofAck => Current!ReadEofAck
  BY DEF Child2!ReadEofAck, Current!ReadEofAck
<1>14. Child2!EofAckGiveUp => Current!EofAckGiveUp
  BY DEF Child2!EofAckGiveUp, Current!EofAckGiveUp
<1>15. Child2!WindowFullTimeout => Current!WindowFullTimeout
  BY DEF Child2!WindowFullTimeout, Current!WindowFullTimeout
<1>16. Child2!LastRrTimeout => Current!LastRrTimeout
  BY DEF Child2!LastRrTimeout, Current!LastRrTimeout
<1>17. Child2!EofAckTimeout => Current!EofAckTimeout
  BY DEF Child2!EofAckTimeout, Current!EofAckTimeout
<1> QED
  BY <1>1, <1>2, <1>3, <1>4, <1>5, <1>6, <1>7, <1>8, <1>9, <1>10, <1>11,
    <1>12, <1>13, <1>14, <1>15, <1>16, <1>17
  DEF Child2!ServerStep, Current!ServerStep, Child2!ServerTimeout,
    Current!ServerTimeout

\* What rcopy calls, in conversation with child 2.
LEMMA With2Calls ==
  ASSUME Paired2
  PROVE  /\ With2!NoData = Current!NoData
         /\ \A f, n, d : With2!Packet(f, n, d) = Current!Packet(f, n, d)
         /\ \A s, i : With2!RemoveAt(s, i) = Current!RemoveAt(s, i)
         /\ \A w, n, e : With2!addElement(w, n, e) = Current!addElement(w, n, e)
         /\ \A w : With2!isWindowEmpty(w) <=> Current!isWindowEmpty(w)
         /\ \A w, n : With2!isEmptySpot(w, n) <=> Current!isEmptySpot(w, n)
         /\ With2!ToClientReadable = Current!ToClientReadable
         /\ \A p : With2!SendToServer(p) <=> Current!SendToServer(p)
         /\ \A d : With2!Written(d) = Current!Written(d)
         /\ \A s, h : With2!ClientLeaves(s, h) <=> Current!ClientLeaves(s, h)
<1> USE DEF Paired2, With2!EMPTY, Current!EMPTY, With2!NoData,
  Current!NoData, With2!Slots, Current!Slots, With2!Index, Current!Index,
  With2!Packet, Current!Packet
<1>1. /\ With2!NoData = Current!NoData
      /\ \A f, n, d : With2!Packet(f, n, d) = Current!Packet(f, n, d)
      /\ \A s, i : With2!RemoveAt(s, i) = Current!RemoveAt(s, i)
      /\ \A w, n, e : With2!addElement(w, n, e) = Current!addElement(w, n, e)
      /\ \A w : With2!isWindowEmpty(w) <=> Current!isWindowEmpty(w)
      /\ \A w, n : With2!isEmptySpot(w, n) <=> Current!isEmptySpot(w, n)
  BY DEF With2!RemoveAt, Current!RemoveAt, With2!addElement,
    Current!addElement, With2!isWindowEmpty, Current!isWindowEmpty,
    With2!isEmptySpot, Current!isEmptySpot
<1>2. With2!ToClientReadable = Current!ToClientReadable
  BY DEF With2!ToClientReadable, Current!ToClientReadable, With2!Readable,
    Current!Readable
<1>3. \A p : With2!SendToServer(p) <=> Current!SendToServer(p)
  <2>1. \A ch, p : With2!Enqueue(ch, p) = Current!Enqueue(ch, p)
    BY DEF With2!Enqueue, Current!Enqueue
  <2>2. \A ch, p : With2!Faulty(ch, p) = Current!Faulty(ch, p)
    BY <2>1 DEF With2!Faulty, Current!Faulty, With2!Corrupted,
      Current!Corrupted
  <2> QED
    BY <2>1, <2>2 DEF With2!SendToServer, Current!SendToServer
<1>4. /\ \A d : With2!Written(d) = Current!Written(d)
      /\ \A s, h : With2!ClientLeaves(s, h) <=> Current!ClientLeaves(s, h)
  BY DEF With2!Written, Current!Written, With2!ClientLeaves,
    Current!ClientLeaves
<1> QED
  BY <1>1, <1>2, <1>3, <1>4

\* rcopy talks to child 2: to the current child.
LEMMA With2IsCurrent ==
  ASSUME Paired2, \/ With2!ReadFilenameReply \/ With2!RecvData
                   \/ With2!AckAll \/ With2!RejectHole
  PROVE  Current!ClientStep
<1> USE With2Calls DEF Paired2
<1>1. With2!ReadFilenameReply => Current!ReadFilenameReply
  BY DEF With2!ReadFilenameReply, Current!ReadFilenameReply
<1>2. With2!AckAll => Current!AckAll
  BY DEF With2!AckAll, Current!AckAll
<1>3. With2!RejectHole => Current!RejectHole
  BY DEF With2!RejectHole, Current!RejectHole
<1>4. \A p : /\ With2!RecvCorrupted(p) => Current!RecvCorrupted(p)
             /\ With2!RecvEof(p) => Current!RecvEof(p)
             /\ With2!RecvOld(p) => Current!RecvOld(p)
             /\ With2!RecvExpected(p) => Current!RecvExpected(p)
             /\ With2!RecvAhead(p) => Current!RecvAhead(p)
  BY DEF With2!RecvCorrupted, Current!RecvCorrupted, With2!RecvEof,
    Current!RecvEof, With2!RecvOld, Current!RecvOld, With2!RecvExpected,
    Current!RecvExpected, With2!RecvAhead, Current!RecvAhead
<1>5. With2!RecvData => Current!RecvData
  BY <1>4 DEF With2!RecvData, Current!RecvData
<1> QED
  BY <1>1, <1>2, <1>3, <1>5 DEF Current!ClientStep

\* rcopy's steps without a packet are those of the conversation.
CurrentStays ==
  UNCHANGED <<curState, curWindow, curLower, curSeqNum,
              curFileOff, curRetry, curToServer, curToClient>>

LEMMA AloneIsCurrent ==
  ASSUME ClientAlone, CurrentStays
  PROVE  Current!ClientNext \/ Current!FilenameSelectExpires \/ Current!RecvSelectExpires
<1>1. /\ \A w, n : With1!getElement(w, n) = Current!getElement(w, n)
      /\ \A w, n : With1!isEmptySpot(w, n) <=> Current!isEmptySpot(w, n)
      /\ \A w, n : With1!deleteElement(w, n) = Current!deleteElement(w, n)
      /\ \A d : With1!Written(d) = Current!Written(d)
      /\ \A s, h : With1!ClientLeaves(s, h) <=> Current!ClientLeaves(s, h)
  BY DEF With1!Index, Current!Index, With1!EMPTY, Current!EMPTY, With1!NoData,
         Current!NoData, With1!getElement, Current!getElement,
         With1!isEmptySpot, Current!isEmptySpot, With1!deleteElement,
         Current!deleteElement, With1!Written, Current!Written,
         With1!ClientLeaves, Current!ClientLeaves
<1>2. UNCHANGED Current!serverVars
  BY DEF CurrentStays, Current!serverVars
<1> USE <1>1 DEF CurrentStays, With1!netVars, Current!netVars
<1>3. With1!FilenameGiveUp => Current!FilenameGiveUp
  BY DEF With1!FilenameGiveUp, Current!FilenameGiveUp
<1>4. With1!OpenOutput => Current!OpenOutput
  BY DEF With1!OpenOutput, Current!OpenOutput
<1>5. With1!DrainOne => Current!DrainOne
  BY DEF With1!DrainOne, Current!DrainOne
<1>6. With1!FilenameTimeout => Current!FilenameTimeout
  BY DEF With1!FilenameTimeout, Current!FilenameTimeout
<1>7. With1!ServerGone => Current!ServerGone
  BY DEF With1!ServerGone, Current!ServerGone
<1> QED
  BY <1>2, <1>3, <1>4, <1>5, <1>6, <1>7
  DEF ClientAlone, Current!ClientNext, Current!ClientStep,
      Current!FilenameSelectExpires, Current!RecvSelectExpires

\* A step that involves neither the child in use nor the sockets.
LEMMA StaysWithout ==
  ASSUME UNCHANGED <<sock, serves>>,
         serves[1] = sock => UNCHANGED <<childVars1, channels1>>,
         serves[1] # sock /\ serves[2] = sock => UNCHANGED <<childVars2, channels2>>
  PROVE  CurrentStays
  BY DEF CurrentStays, current, curState, curWindow, curLower, curSeqNum,
         curFileOff, curRetry, curToServer, curToClient, childVars1, childVars2,
         channels1, channels2

\* The child of a name is, when it is forked, what its peer took it for.
LEMMA ForkIsQuiet ==
  ASSUME SessionInv, Fork
  PROVE  CurrentStays /\ UNCHANGED <<sock, clientVars>>
<1> USE DEF SessionInv, SessionInv1
<1>1. PICK i \in DOMAIN toMain, k \in Children :
        /\ serves[k] = 0 /\ toMain[i].flag # "CRC_ERROR"
        /\ serves' = [serves EXCEPT ![k] = toMain[i].seq]
        /\ toMain' = RemoveAt(toMain, i)
  BY DEF Fork, Forked
<1>2. /\ UNCHANGED <<sock, clientVars>>
      /\ UNCHANGED <<childVars1, childVars2, channels1, channels2>>
  BY DEF Fork, nameVars
<1>3. toMain[i].flag = "FNAME" /\ i \in 1 .. Len(toMain) /\ toMain[i].seq \in 1 .. sock
  <2>1. toMain[i] \in NamePackets /\ i \in 1 .. Len(toMain)
    BY <1>1, MainReads, ElementOfSeq DEF SessionTypes
  <2> QED
    BY <1>1, <2>1 DEF NamePackets, WithMain!Corrupted, WithMain!Packet, NamesAreOld
<1>4. sock # 0 /\ sock \in Nat
  BY <1>3 DEF SessionTypes
<1>5. \A j \in Children : serves'[j] = IF j = k THEN toMain[i].seq ELSE serves[j]
  BY <1>1 DEF SessionTypes
<1>6. CASE k = 1
  <2>1. /\ serves[1] = 0 /\ serves'[1] = toMain[i].seq /\ serves'[2] = serves[2]
        /\ serves[2] # toMain[i].seq
    BY <1>1, <1>3, <1>5, <1>6 DEF NamesAreServedOnce, Children
  <2>2. /\ sstate1 = "FILENAME" /\ swindow1 = Child1!createWindow /\ wptrL1 = 1
        /\ seqNum1 = 1 /\ fileOff1 = 0 /\ toServer1 = << >> /\ toClient1 = << >>
        /\ retryCount1 = [s \in Child1!SelectStates |-> 0]
    BY <2>1 DEF UnforkedIsFresh, Child1!ServerInit
  <2>3. Child1!createWindow = With1!createWindow
    BY DEF Child1!createWindow, With1!createWindow, Child1!Slots, With1!Slots,
           Child1!EMPTY, With1!EMPTY
  <2>4. CurrentStays
    BY <1>2, <1>4, <2>1, <2>2, <2>3
    DEF CurrentStays, current, curState, curWindow, curLower, curSeqNum,
        curFileOff, curRetry, curToServer, curToClient, childVars1, childVars2,
        channels1, channels2
  <2> QED
    BY <1>2, <2>4
<1>7. CASE k = 2
  <2>1. /\ serves[2] = 0 /\ serves'[2] = toMain[i].seq /\ serves'[1] = serves[1]
        /\ serves[1] # toMain[i].seq
    BY <1>1, <1>3, <1>5, <1>7 DEF NamesAreServedOnce, Children
  <2>2. /\ sstate2 = "FILENAME" /\ swindow2 = Child2!createWindow /\ wptrL2 = 1
        /\ seqNum2 = 1 /\ fileOff2 = 0 /\ toServer2 = << >> /\ toClient2 = << >>
        /\ retryCount2 = [s \in Child2!SelectStates |-> 0]
    BY <2>1 DEF UnforkedIsFresh, Child2!ServerInit
  <2>3. /\ Child2!createWindow = With1!createWindow
        /\ Child2!SelectStates = Child1!SelectStates
    BY DEF Child2!createWindow, With1!createWindow, Child2!Slots, With1!Slots,
           Child2!EMPTY, With1!EMPTY, Child1!SelectStates, Child2!SelectStates
  <2>4. CurrentStays
    BY <1>2, <1>4, <2>1, <2>2, <2>3
    DEF CurrentStays, current, curState, curWindow, curLower, curSeqNum,
        curFileOff, curRetry, curToServer, curToClient, childVars1, childVars2,
        channels1, channels2
  <2> QED
    BY <1>2, <2>4
<1> QED
  BY <1>6, <1>7 DEF Children

\* Whoever serves the socket in use is the only one who does.
LEMMA TheOneServes ==
  ASSUME SessionInv, sock # 0, NEW k \in Children, serves[k] = sock,
         UNCHANGED <<sock, serves>>
  PROVE  \/ k = 1 /\ Paired1
         \/ k = 2 /\ Paired2 /\ serves[1] # sock
  BY ServesSock1, ServesSock2 DEF SessionInv, NamesAreServedOnce, Children

-----------------------------------------------------------------------------
(* A session is one conversation after another. *)

\* rcopy reads from the child of its socket, or answers it.
LEMMA TalkIsCurrent ==
  ASSUME SessionInv, sock # 0, NEW k \in Children, serves[k] = sock,
         UNCHANGED <<sock, serves, childVars1, childVars2>>,
         k = 1 => \/ With1!ReadFilenameReply \/ With1!RecvData
                  \/ With1!AckAll \/ With1!RejectHole,
         k = 2 => \/ With2!ReadFilenameReply \/ With2!RecvData
                  \/ With2!AckAll \/ With2!RejectHole
  PROVE  Current!ClientNext
<1>1. CASE k = 1 /\ Paired1
  <2>1. Current!ClientStep
    BY <1>1, With1IsCurrent
  <2>2. UNCHANGED Current!serverVars
    BY <1>1 DEF Paired1, Current!serverVars, childVars1
  <2> QED
    BY <2>1, <2>2 DEF Current!ClientNext
<1>2. CASE k = 2 /\ Paired2
  <2>1. Current!ClientStep
    BY <1>2, With2IsCurrent
  <2>2. UNCHANGED Current!serverVars
    BY <1>2 DEF Paired2, Current!serverVars, childVars2
  <2> QED
    BY <2>1, <2>2 DEF Current!ClientNext
<1> QED
  BY <1>1, <1>2, TheOneServes

\* A child's step is one of the conversation if it serves the socket in use,
\* and not seen there otherwise.
LEMMA ChildIsCurrent ==
  ASSUME SessionInv, NEW k \in Children, ChildStep(k)
  PROVE  /\ UNCHANGED <<sock, clientVars>>
         /\ \/ sock # 0 /\ (Current!ServerNext \/ Current!ServerSelectExpires)
            \/ CurrentStays
<1>1. /\ serves[k] # 0
      /\ \/ /\ k = 1 /\ (Child1!ServerStep \/ Child1!ServerTimeout)
            /\ UNCHANGED <<childVars2, channels2>>
         \/ /\ k = 2 /\ (Child2!ServerStep \/ Child2!ServerTimeout)
            /\ UNCHANGED <<childVars1, channels1>>
      /\ UNCHANGED <<clientVars, sock, serves>>
  BY DEF ChildStep, ChildNext, ChildSelectExpires, ChildDoes, nameVars, mainVars
<1>2. CASE serves[k] = sock
  <2>1. \/ k = 1 /\ Paired1
        \/ k = 2 /\ Paired2
    BY <1>1, <1>2, TheOneServes
  <2>2. Current!ServerStep \/ Current!ServerTimeout
    BY <1>1, <2>1, Child1IsCurrent, Child2IsCurrent
  <2>3. UNCHANGED Current!clientVars
    BY <1>1 DEF clientVars, Current!clientVars
  <2> QED
    BY <1>1, <1>2, <2>2, <2>3
    DEF Current!ServerNext, Current!ServerSelectExpires
<1>3. CASE serves[k] # sock
  <2>1. CurrentStays
    BY <1>1, <1>3, StaysWithout
  <2> QED
    BY <1>1, <2>1
<1> QED
  BY <1>2, <1>3

LEMMA SessionIsConversation ==
  ASSUME SessionInv, [Next]_vars
  PROVE  \/ StartState
         \/ StartFails /\ CurrentStays /\ UNCHANGED sock
         \/ Current!Next /\ UNCHANGED sock /\ sock # 0
         \/ CurrentStays /\ UNCHANGED <<sock, clientVars>>
<1> USE DEF SessionInv, SessionInv1
<1>1. CASE StartFails
  <2>1. /\ UNCHANGED <<sock, serves>>
        /\ UNCHANGED <<childVars1, childVars2, channels1, channels2>>
    BY <1>1 DEF StartFails, nameVars, mainVars
  <2> QED
    BY <1>1, <2>1, StaysWithout
<1>2. ASSUME NEW k \in Children, ClientReads(k)
      PROVE  Current!Next /\ UNCHANGED sock /\ sock # 0
  <2>1. /\ serves[k] = sock /\ UNCHANGED <<sock, serves, childVars1, childVars2>>
        /\ \/ k = 1 /\ (With1!ReadFilenameReply \/ With1!RecvData)
           \/ k = 2 /\ (With2!ReadFilenameReply \/ With2!RecvData)
    BY <1>2 DEF ClientReads, mainVars
  <2>2. cstate \in {"FILENAME", "RECV_DATA"}
    BY <2>1 DEF With1!ReadFilenameReply, With1!RecvData,
                With2!ReadFilenameReply, With2!RecvData
  <2>3. sock # 0
    BY <2>2 DEF NamesAreOld
  <2>4. Current!ClientNext
    BY <2>1, <2>3, TalkIsCurrent
  <2> QED
    BY <2>1, <2>3, <2>4 DEF Current!Next
<1>3. CASE ClientAnswers
  <2>1. /\ cstate = "CHECK_BUFFER" /\ remote \in Children /\ serves[remote] = sock
        /\ \/ remote = 1 /\ (With1!AckAll \/ With1!RejectHole)
           \/ remote = 2 /\ (With2!AckAll \/ With2!RejectHole)
    BY <1>3, AnsweredChild
  <2>2. UNCHANGED <<sock, serves, childVars1, childVars2>>
    BY <1>3 DEF ClientAnswers, nameVars
  <2>3. sock # 0
    BY <2>1 DEF NamesAreOld
  <2>4. PICK k \in Children : k = remote
    BY <2>1
  <2>5. Current!ClientNext
    BY <2>1, <2>2, <2>3, <2>4, TalkIsCurrent
  <2> QED
    BY <2>2, <2>3, <2>5 DEF Current!Next
<1>4. CASE Silently(ClientAlone)
  <2>1. /\ UNCHANGED <<sock, serves>>
        /\ UNCHANGED <<childVars1, childVars2, channels1, channels2>>
        /\ ClientAlone /\ cstate \notin {"START_STATE", "DONE"}
    BY <1>4 DEF Silently, ClientAlone, nameVars, mainVars, channels1,
                With1!netVars, With1!FilenameGiveUp, With1!OpenOutput,
                With1!DrainOne, With1!FilenameTimeout, With1!ServerGone
  <2>2. sock # 0
    BY <2>1 DEF NamesAreOld
  <2>3. CurrentStays
    BY <2>1, StaysWithout
  <2> QED
    BY <2>1, <2>2, <2>3, AloneIsCurrent DEF Current!Next
<1>5. CASE ForkFails \/ DropCorrupted \/ MainSelectExpires \/ UNCHANGED vars
  <2>1. /\ UNCHANGED <<sock, serves, clientVars>>
        /\ UNCHANGED <<childVars1, childVars2, channels1, channels2>>
    BY <1>5 DEF ForkFails, DropCorrupted, MainSelectExpires, nameVars, vars, mainVars
  <2> QED
    BY <2>1, StaysWithout
<1>6. ASSUME NEW k \in Children, ChildStep(k)
      PROVE  \/ Current!Next /\ UNCHANGED sock /\ sock # 0
             \/ CurrentStays /\ UNCHANGED <<sock, clientVars>>
  BY <1>6, ChildIsCurrent DEF Current!Next
<1> QED
  BY <1>1, <1>2, <1>3, <1>4, <1>5, <1>6, ForkIsQuiet, SessionSteps

\* A new socket begins a conversation, with variables nobody has used.
LEMMA ConversationStarts ==
  ASSUME SessionInv, StartState
  PROVE  Current!IInv'
<1> USE DEF SessionInv, SessionInv1
<1>1. /\ cstate' = "FILENAME" /\ expSeqNum' = 1 /\ outcome' = "running"
      /\ cstate = "START_STATE" /\ sock' = sock + 1
      /\ UNCHANGED <<srejFg, cwindow, output, nameTries, serves>>
  BY DEF StartState
<1>2. serves'[1] # sock' /\ serves'[2] # sock'
  BY <1>1 DEF NamesAreOld, SessionTypes, Children
<1>3. /\ curState' = "FILENAME" /\ curWindow' = With1!createWindow /\ curLower' = 1
      /\ curSeqNum' = 1 /\ curFileOff' = 0
      /\ curRetry' = [s \in Child1!SelectStates |-> 0]
      /\ curToServer' = << >> /\ curToClient' = << >>
  BY <1>2 DEF current, curState, curWindow, curLower, curSeqNum, curFileOff,
              curRetry, curToServer, curToClient, With1!createWindow, With1!Slots,
              With1!EMPTY, Child1!SelectStates
<1>4. With1!createWindow = Current!createWindow
  BY DEF With1!createWindow, Current!createWindow, With1!Slots, Current!Slots,
         With1!EMPTY, Current!EMPTY
<1>5. Current!ServerInit'
  BY <1>3, <1>4 DEF Current!ServerInit, Child1!SelectStates, Current!SelectStates,
     Current!createWindow, Current!Slots, Current!EMPTY
<1>6. Current!ClientInit'
  BY <1>1, <1>4 DEF Current!ClientInit, AskingIsFresh, AskingStates,
     Current!createWindow, Current!Slots, Current!EMPTY
<1>7. faults' \in 0 .. MaxFaults
  <2>1. SessionInv1'
    BY StartStateKeeps
  <2> QED
    BY <2>1 DEF SessionTypes
<1> QED
  BY <1>3, <1>5, <1>6, <1>7, Current!InvAgain, ConversationAssumption

LEMMA ConversationStep ==
  ASSUME AckReorder = FALSE, NamesDouble = FALSE, SessionInv,
         sock # 0 => Current!IInv, [Next]_vars
  PROVE  sock' # 0 => Current!IInv'
<1>1. faults' \in 0 .. MaxFaults
  BY SessionStep1 DEF SessionInv, SessionInv1, SessionTypes
<1>2. CASE StartState
  BY <1>2, ConversationStarts
<1>3. CASE Current!Next /\ UNCHANGED sock /\ sock # 0
  BY <1>3, Current!InvStep, ConversationAssumption
<1>4. CASE \/ StartFails /\ CurrentStays /\ UNCHANGED sock
           \/ CurrentStays /\ UNCHANGED <<sock, clientVars>>
  <2>1. /\ UNCHANGED <<expSeqNum, srejFg, cwindow, output, nameTries, sock>>
        /\ \/ UNCHANGED <<cstate, outcome>>
           \/ cstate = "START_STATE" /\ cstate' = "DONE" /\ outcome' = "no_server"
    BY <1>4 DEF StartFails, clientVars
  <2>2. UNCHANGED <<Current!serverVars, curToServer, curToClient>>
    BY <1>4 DEF CurrentStays, Current!serverVars
  <2>3. \/ UNCHANGED <<cstate, outcome>>
        \/ cstate = "START_STATE" /\ Current!ClientLeaves("DONE", "no_server")
    BY <2>1 DEF Current!ClientLeaves
  <2> QED
    BY <1>1, <2>1, <2>2, <2>3, Current!InvOutside, ConversationAssumption
<1> QED
  BY <1>2, <1>3, <1>4, SessionIsConversation

\* An exit of the conversation is its last word.
LEMMA OutcomeIsLast ==
  ASSUME Current!IInv, Current!Next
  PROVE  outcome = "running" \/ UNCHANGED outcome
<1>1. ~ Current!ClientGone => outcome = "running"
  BY DEF Current!IInv, Current!Counters
<1>2. CASE Current!ServerNext \/ Current!ServerSelectExpires \/ Current!Finished
  BY <1>2 DEF Current!ServerNext, Current!ServerSelectExpires, Current!Finished,
              Current!clientVars, Current!vars
<1>3. CASE Current!ClientNext \/ Current!FilenameSelectExpires \/ Current!RecvSelectExpires
  <2>1. cstate \notin {"DONE", "START_STATE"}
    BY <1>3
    DEF Current!ClientNext, Current!FilenameSelectExpires, Current!RecvSelectExpires,
        Current!ClientStep, Current!ReadFilenameReply, Current!FilenameGiveUp,
        Current!FilenameTimeout, Current!OpenOutput, Current!RecvData,
        Current!DrainOne, Current!AckAll, Current!RejectHole, Current!ServerGone
  <2> QED
    BY <1>1, <2>1 DEF Current!ClientGone
<1> QED
  BY <1>2, <1>3 DEF Current!Next

\* What rcopy does to its output file, over all its conversations.
LEMMA SessionCopyStep ==
  ASSUME SessionInv, sock # 0 => Current!IInv, [Next]_vars
  PROVE  [Copy!Next]_(Copy!copyVars)
<1> SUFFICES Copy!Next \/ UNCHANGED <<output, CopyStatus>>
  BY DEF Copy!copyVars
<1> USE DEF SessionInv, SessionInv1
<1>1. CASE StartState
  <2>1. cstate = "START_STATE" /\ outcome' = "running" /\ UNCHANGED output
    BY <1>1 DEF StartState
  <2>2. outcome \in {"running", "restarted"}
    BY <2>1 DEF AskingIsFresh
  <2> QED
    BY <2>1, <2>2 DEF CopyStatus
<1>2. CASE StartFails
  <2>1. cstate = "START_STATE" /\ outcome' = "no_server" /\ UNCHANGED output
    BY <1>2 DEF StartFails
  <2>2. outcome \in {"running", "restarted"}
    BY <2>1 DEF AskingIsFresh
  <2> QED
    BY <2>1, <2>2 DEF CopyStatus, Copy!Next, Copy!Fail
<1>3. CASE UNCHANGED clientVars
  BY <1>3 DEF clientVars, CopyStatus
<1>4. CASE Current!Next /\ UNCHANGED sock /\ sock # 0
  <2>1. [Current!Copy!Next]_(Current!Copy!copyVars)
    BY <1>4, Current!CopyStep, ConversationAssumption
  <2>2. \/ Current!Copy!Grow \/ Current!Copy!Report \/ Current!Copy!Fail
        \/ UNCHANGED <<output, Current!CopyStatus>>
    BY <2>1 DEF Current!Copy!Next, Current!Copy!copyVars
  <2>3. outcome = "running" \/ UNCHANGED outcome
    BY <1>4, OutcomeIsLast
  <2>4. CASE Current!Copy!Grow
    <3>1. outcome = "running" /\ outcome' = "running"
      BY <2>4 DEF Current!Copy!Grow, Current!CopyStatus
    <3> QED
      BY <2>4, <3>1 DEF Current!Copy!Grow, Copy!Grow, Copy!Next, CopyStatus
  <2>5. CASE Current!Copy!Report
    <3>1. outcome = "running" /\ outcome' = "eof"
      BY <2>5 DEF Current!Copy!Report, Current!CopyStatus
    <3> QED
      BY <2>5, <3>1 DEF Current!Copy!Report, Copy!Report, Copy!Next, CopyStatus
  <2>6. CASE Current!Copy!Fail
    <3>1. outcome = "running" /\ outcome' \notin {"running", "eof"} /\ UNCHANGED output
      BY <2>6 DEF Current!Copy!Fail, Current!CopyStatus
    <3> QED
      BY <3>1 DEF Copy!Fail, Copy!Next, CopyStatus
  <2>7. CASE UNCHANGED <<output, Current!CopyStatus>>
    <3>1. UNCHANGED outcome
      BY <2>3, <2>7 DEF Current!CopyStatus
    <3> QED
      BY <2>7, <3>1 DEF CopyStatus
  <2> QED
    BY <2>2, <2>4, <2>5, <2>6, <2>7
<1> QED
  BY <1>1, <1>2, <1>3, <1>4, SessionIsConversation

\* However many sockets rcopy opens, it makes one copy of the file, in order,
\* and reports success only when it is whole.
THEOREM SessionCopyRefined ==
  ASSUME AckReorder = FALSE, NamesDouble = FALSE
  PROVE  Spec => ImplementsCopy
<1>1. Init => SessionInv /\ (sock # 0 => Current!IInv) /\ Copy!Init
  <2>1. Init => SessionInv
    BY SessionStart
  <2> QED
    BY <2>1 DEF Init, Copy!Init, CopyStatus
<1>2. SessionInv /\ (sock # 0 => Current!IInv) /\ [Next]_vars
        => SessionInv' /\ (sock # 0 => Current!IInv)'
  BY SessionStep1, ServedOnceStep, ConversationStep DEF SessionInv
<1>3. SessionInv /\ (sock # 0 => Current!IInv) /\ [Next]_vars
        => [Copy!Next]_(Copy!copyVars)
  BY SessionCopyStep
<1> QED
  BY <1>1, <1>2, <1>3, PTL DEF Spec, ImplementsCopy, Copy!Spec
=============================================================================

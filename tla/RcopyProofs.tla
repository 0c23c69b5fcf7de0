----------------------------- MODULE RcopyProofs -----------------------------
(***************************************************************************)
(* Type correctness of Rcopy, for every file, window and fault budget, with  *)
(* or without reordering.  Then, as long as acknowledgements stay in order,  *)
(* the inductive invariant IInv of RcopyInv, and from it the safety          *)
(* properties of Rcopy, for every window size, file length, fault budget and *)
(* retry limit, with data packets in any order; and the refinement of        *)
(* FileCopy.                                                                 *)
(***************************************************************************)
EXTENDS RcopyInv, DataLemmas

-----------------------------------------------------------------------------
(* What a send adds to a channel and a receive takes from it, and what a slot
   of the ring buffer is after each operation of buffer.c. *)

\* The slot of a sequence number is one of the ring's.
LEMMA IndexInSlots ==
  ASSUME NEW s \in Int
  PROVE  Index(s) \in Slots
  BY WindowSizeAssumption, ModRange DEF Index, Slots

\* Less than a window apart, two sequence numbers with one slot are equal.
LEMMA IndexInjective ==
  ASSUME NEW a \in Int, NEW b \in Int, Index(a) = Index(b),
         a - b < WindowSize, b - a < WindowSize
  PROVE  a = b
  BY WindowSizeAssumption, ModInjective DEF Index

\* A window's worth of sequence numbers takes every slot.
LEMMA IndexSurjective ==
  ASSUME NEW l \in Int, NEW i \in Slots
  PROVE  \E s \in l .. l + WindowSize - 1 : Index(s) = i
  BY WindowSizeAssumption, ModSurjective DEF Index, Slots

\* A bad checksum is a packet like any other to the channel.
LEMMA CorruptedType == Corrupted \in Packets
  BY DEF Corrupted, Packet, Packets, Flags, NoData

\* Packet() with members of the right sets is a packet.
LEMMA PacketType ==
  ASSUME NEW f \in Flags, NEW s \in Nat, NEW d \in Chunks \cup {NoData}
  PROVE  /\ Packet(f, s, d) \in Packets
         /\ Packet(f, s, d).flag = f
         /\ Packet(f, s, d).seq = s
         /\ Packet(f, s, d).data = d
  BY DEF Packet, Packets

\* One copy of a packet joins the end of the channel, or none does.
LEMMA EnqueueEffect ==
  ASSUME NEW ch \in Seq(Packets), NEW p \in Packets
  PROVE  /\ Enqueue(ch, p) \in Seq(Packets)
         /\ Len(Enqueue(ch, p)) >= Len(ch)
         /\ \A i \in 1 .. Len(ch) : Enqueue(ch, p)[i] = ch[i]
         /\ \A i \in Len(ch) + 1 .. Len(Enqueue(ch, p)) : Enqueue(ch, p)[i] = p
<1>1. CASE Enqueue(ch, p) = ch
  BY <1>1, LenProperties
<1>2. CASE Enqueue(ch, p) = Append(ch, p)
  BY <1>2, AppendProperties, LenProperties
<1> QED
  BY <1>1, <1>2 DEF Enqueue

\* A faulty transmission adds copies of the packet and flipped packets only.
LEMMA FaultyEffect ==
  ASSUME NEW ch \in Seq(Packets), NEW p \in Packets, NEW r \in Faulty(ch, p)
  PROVE  /\ r \in Seq(Packets)
         /\ Len(r) >= Len(ch)
         /\ \A i \in 1 .. Len(ch) : r[i] = ch[i]
         /\ \A i \in Len(ch) + 1 .. Len(r) : r[i] \in {p, Corrupted}
<1> DEFINE once  == Enqueue(ch, p)
           twice == Enqueue(once, p)
<1>1. CASE r = ch
  BY <1>1, LenProperties
<1>2. CASE r = Enqueue(ch, Corrupted)
  BY <1>2, EnqueueEffect, CorruptedType
<1>3. CASE r = twice
  <2>1. /\ once \in Seq(Packets)
        /\ Len(once) >= Len(ch) /\ Len(once) \in Nat /\ Len(ch) \in Nat
        /\ \A i \in 1 .. Len(ch) : once[i] = ch[i]
        /\ \A i \in Len(ch) + 1 .. Len(once) : once[i] = p
    BY EnqueueEffect, LenProperties
  <2>2. /\ twice \in Seq(Packets)
        /\ Len(twice) >= Len(once) /\ Len(twice) \in Nat
        /\ \A i \in 1 .. Len(once) : twice[i] = once[i]
        /\ \A i \in Len(once) + 1 .. Len(twice) : twice[i] = p
    <3> HIDE DEF once
    <3> QED BY <2>1, EnqueueEffect, LenProperties
  <2> HIDE DEF once, twice
  <2>3. \A i \in 1 .. Len(ch) : twice[i] = ch[i]
    BY <2>1, <2>2
  <2>4. \A i \in Len(ch) + 1 .. Len(twice) : twice[i] = p
    BY <2>1, <2>2
  <2> QED
    BY <2>1, <2>2, <2>3, <2>4, <1>3
<1> QED
  BY <1>1, <1>2, <1>3 DEF Faulty

\* What may be in the channel after sending p with or without a fault.
SentOn(before, after, p) ==
  /\ after \in Seq(Packets)
  /\ Len(after) >= Len(before)
  /\ \A i \in 1 .. Len(before) : after[i] = before[i]
  /\ \A i \in Len(before) + 1 .. Len(after) : after[i] \in {p, Corrupted}

\* SendToClient() adds the packet, a flipped packet, a copy, or nothing.
LEMMA SendToClientEffect ==
  ASSUME toClient \in Seq(Packets), faults \in 0 .. MaxFaults,
         NEW p \in Packets, SendToClient(p)
  PROVE  SentOn(toClient, toClient', p) /\ faults' \in 0 .. MaxFaults
<1>1. CASE toClient' = Enqueue(toClient, p) /\ UNCHANGED faults
  BY <1>1, EnqueueEffect DEF SentOn
<1>2. CASE /\ faults < MaxFaults /\ faults' = faults + 1
           /\ toClient' \in Faulty(toClient, p)
  <2>1. faults' \in 0 .. MaxFaults
    BY <1>2, NetAssumption
  <2> QED
    BY <1>2, <2>1, FaultyEffect DEF SentOn
<1> QED
  BY <1>1, <1>2 DEF SendToClient

\* SendToServer(), likewise.
LEMMA SendToServerEffect ==
  ASSUME toServer \in Seq(Packets), faults \in 0 .. MaxFaults,
         NEW p \in Packets, SendToServer(p)
  PROVE  SentOn(toServer, toServer', p) /\ faults' \in 0 .. MaxFaults
<1>1. CASE toServer' = Enqueue(toServer, p) /\ UNCHANGED faults
  BY <1>1, EnqueueEffect DEF SentOn
<1>2. CASE /\ faults < MaxFaults /\ faults' = faults + 1
           /\ toServer' \in Faulty(toServer, p)
  <2>1. faults' \in 0 .. MaxFaults
    BY <1>2, NetAssumption
  <2> QED
    BY <1>2, <2>1, FaultyEffect DEF SentOn
<1> QED
  BY <1>1, <1>2 DEF SendToServer

-----------------------------------------------------------------------------
(* Type correctness. *)

\* A packet read by the server, and what is left behind it.
LEMMA ReadByServer ==
  ASSUME toServer \in Seq(Packets), NEW i \in ToServerReadable
  PROVE  /\ i \in 1 .. Len(toServer)
         /\ toServer[i] \in Packets
         /\ RemoveAt(toServer, i) \in Seq(Packets)
         /\ AckReorder = FALSE => i = 1
<1>1. i \in 1 .. Len(toServer) /\ (AckReorder \/ i = 1)
  BY LenProperties DEF ToServerReadable, Readable
<1> QED
  BY <1>1, ElementOfSeq, RemoveEffect

\* A packet read by the client, and what is left behind it.
LEMMA ReadByClient ==
  ASSUME toClient \in Seq(Packets), NEW i \in ToClientReadable
  PROVE  /\ i \in 1 .. Len(toClient)
         /\ toClient[i] \in Packets
         /\ RemoveAt(toClient, i) \in Seq(Packets)
<1>1. i \in 1 .. Len(toClient)
  BY LenProperties DEF ToClientReadable, Readable
<1> QED
  BY <1>1, ElementOfSeq, RemoveEffect

\* resend() makes a DATA packet of its sequence number.
LEMMA ResentType ==
  ASSUME ServerTypeOK, NEW s \in Nat
  PROVE  /\ Resent(s) \in Packets
         /\ Resent(s).flag = "DATA"
         /\ Resent(s).seq = s
         /\ Resent(s).data = IF swindow[Index(s)] = EMPTY
                             THEN NoData ELSE swindow[Index(s)]
<1>1. swindow[Index(s)] \in Chunks \cup {NoData, EMPTY}
  BY IndexInSlots DEF ServerTypeOK
<1>2. (IF isEmptySpot(swindow, s) THEN NoData ELSE getElement(swindow, s))
         \in Chunks \cup {NoData}
  BY <1>1 DEF isEmptySpot, getElement
<1>3. "DATA" \in Flags
  BY DEF Flags
<1> QED
  BY <1>2, <1>3, PacketType DEF Resent, isEmptySpot, getElement

WindowType == [Slots -> Chunks \cup {NoData, EMPTY}]

\* createWindow() returns a window.
LEMMA CreateType == createWindow \in WindowType
  BY DEF createWindow, WindowType

\* addElement() returns a window.
LEMMA AddType ==
  ASSUME NEW w \in WindowType, NEW s \in Int, NEW d \in Chunks \cup {NoData}
  PROVE  addElement(w, s, d) \in WindowType
  BY IndexInSlots DEF addElement, WindowType

\* deleteElement() returns a window.
LEMMA DeleteType ==
  ASSUME NEW w \in WindowType, NEW s \in Int
  PROVE  deleteElement(w, s) \in WindowType
  BY IndexInSlots DEF deleteElement, WindowType

\* removeFromBuffer() and updateWPtr() keep the types.
LEMMA AcknowledgeType ==
  ASSUME swindow \in WindowType, NEW s \in Nat, Acknowledge(s)
  PROVE  swindow' \in WindowType /\ wptrL' \in Nat
  BY DEF Acknowledge, removeFromBuffer, WindowType

\* Every step of the server keeps the types.
LEMMA ServerTypes ==
  ASSUME TypeInv, ServerStep \/ ServerTimeout, UNCHANGED clientVars
  PROVE  TypeOK'
<1> USE DEF TypeInv, TypeOK, ServerTypeOK, ServerStates, netVars
<1>0. ClientTypeOK'
  BY DEF ClientTypeOK, clientVars
<1>1. CASE FilenameOk
  <2>1. Packet("FNAME_OK", 0, NoData) \in Packets
    BY PacketType DEF Flags
  <2> QED
    BY <1>0, <1>1, <2>1, SendToClientEffect, CreateType DEF FilenameOk, SentOn, WindowType
<1>2. CASE FilenameBad
  <2>1. Packet("FNAME_BAD", 0, NoData) \in Packets
    BY PacketType DEF Flags
  <2> QED
    BY <1>0, <1>2, <2>1, SendToClientEffect, CreateType DEF FilenameBad, SentOn, WindowType
<1>3. CASE WindowOpen
  BY <1>0, <1>3 DEF WindowOpen
<1>4. CASE WindowFullReady
  BY <1>0, <1>4, NetAssumption DEF WindowFullReady, SelectReady, SelectStates
<1>5. CASE WindowFullTimeout
  <2>1. Resent(wptrL) \in Packets
    BY ResentType
  <2> QED
    BY <1>0, <1>5, <2>1, SendToClientEffect, NetAssumption
    DEF WindowFullTimeout, SelectTimeout, resend, SentOn, SelectStates
<1>6. CASE \E s \in SelectStates : SelectGiveUp(s)
  <2>1. PICK s \in SelectStates : SelectGiveUp(s)
    BY <1>6
  <2>2. retryCount[s] + 1 \in 0 .. MaxTries + 1
    BY <2>1, NetAssumption DEF SelectGiveUp, Tries, SelectStates
  <2> QED
    BY <1>0, <2>1, <2>2 DEF SelectGiveUp
<1>7. CASE SendChunk
  <2>1. fileOff + 1 \in Chunks
    BY <1>7, NetAssumption DEF SendChunk, Chunks
  <2>2. Packet("DATA", seqNum, fileOff + 1) \in Packets
    BY <2>1, PacketType DEF Flags
  <2>3. swindow' \in [Slots -> Chunks \cup {NoData, EMPTY}]
    BY <1>7, <2>1, AddType DEF SendChunk, WindowType
  <2>4. toClient' \in Seq(Packets) /\ faults' \in 0 .. MaxFaults
    BY <1>7, <2>2, SendToClientEffect DEF SendChunk, SentOn
  <2> QED
    BY <1>0, <1>7, <2>1, <2>3, <2>4, NetAssumption DEF SendChunk, Chunks
<1>8. CASE ReachEof
  BY <1>0, <1>8 DEF ReachEof
<1>9. CASE ReadError
  BY <1>0, <1>9 DEF ReadError
<1>10. CASE NoAnswerYet
  BY <1>0, <1>10 DEF NoAnswerYet
<1>11. CASE ReadRrSrej
  <2>1. PICK i \in ToServerReadable :
          /\ toServer' = RemoveAt(toServer, i)
          /\ \/ resend(toServer[i].seq) /\ UNCHANGED <<swindow, wptrL>>
             \/ Acknowledge(toServer[i].seq) /\ UNCHANGED <<toClient, faults>>
             \/ UNCHANGED <<swindow, wptrL, toClient, faults>>
          /\ sstate' \in ServerStates
    BY <1>11 DEF ReadRrSrej
  <2>2. toServer[i] \in Packets /\ toServer' \in Seq(Packets)
    BY <2>1, ReadByServer
  <2>3. toServer[i].seq \in Nat
    BY <2>2 DEF Packets
  <2>4. /\ swindow' \in [Slots -> Chunks \cup {NoData, EMPTY}]
        /\ wptrL' \in Nat
        /\ toClient' \in Seq(Packets)
        /\ faults' \in 0 .. MaxFaults
    <3>1. CASE resend(toServer[i].seq) /\ UNCHANGED <<swindow, wptrL>>
      BY <3>1, <2>3, ResentType, SendToClientEffect DEF resend, SentOn
    <3>2. CASE Acknowledge(toServer[i].seq) /\ UNCHANGED <<toClient, faults>>
      BY <3>2, <2>3, AcknowledgeType DEF WindowType
    <3>3. CASE UNCHANGED <<swindow, wptrL, toClient, faults>>
      BY <3>3
    <3> QED
      BY <2>1, <3>1, <3>2, <3>3
  <2> QED
    BY <1>0, <1>11, <2>1, <2>2, <2>4 DEF ReadRrSrej
<1>12. CASE ReadLastRr
  <2>1. PICK i \in ToServerReadable :
          /\ toServer' = RemoveAt(toServer, i)
          /\ \/ resend(toServer[i].seq) /\ UNCHANGED <<swindow, wptrL>>
             \/ /\ SendToClient(Packet("END_OF_FILE", seqNum, NoData))
                /\ UNCHANGED <<swindow, wptrL>>
             \/ Acknowledge(toServer[i].seq) /\ UNCHANGED <<toClient, faults>>
             \/ UNCHANGED <<swindow, wptrL, toClient, faults>>
          /\ sstate' \in ServerStates
    BY <1>12 DEF ReadLastRr, SelectReady, expRR
  <2>2. toServer[i] \in Packets /\ toServer' \in Seq(Packets)
    BY <2>1, ReadByServer
  <2>3. toServer[i].seq \in Nat
    BY <2>2 DEF Packets
  <2>4. Packet("END_OF_FILE", seqNum, NoData) \in Packets
    BY PacketType DEF Flags
  <2>5. /\ swindow' \in [Slots -> Chunks \cup {NoData, EMPTY}]
        /\ wptrL' \in Nat
        /\ toClient' \in Seq(Packets)
        /\ faults' \in 0 .. MaxFaults
    <3>1. CASE resend(toServer[i].seq) /\ UNCHANGED <<swindow, wptrL>>
      BY <3>1, <2>3, ResentType, SendToClientEffect DEF resend, SentOn
    <3>2. CASE Acknowledge(toServer[i].seq) /\ UNCHANGED <<toClient, faults>>
      BY <3>2, <2>3, AcknowledgeType DEF WindowType
    <3>3. CASE UNCHANGED <<swindow, wptrL, toClient, faults>>
      BY <3>3
    <3>4. CASE /\ SendToClient(Packet("END_OF_FILE", seqNum, NoData))
               /\ UNCHANGED <<swindow, wptrL>>
      BY <3>4, <2>4, SendToClientEffect DEF SentOn
    <3> QED
      BY <2>1, <3>1, <3>2, <3>3, <3>4
  <2>6. retryCount' \in [SelectStates -> 0 .. MaxTries + 1]
    BY <1>12, NetAssumption DEF ReadLastRr, SelectReady, SelectStates
  <2> QED
    BY <1>0, <1>12, <2>1, <2>2, <2>5, <2>6 DEF ReadLastRr
<1>13. CASE LastRrTimeout
  <2>1. Resent(wptrL) \in Packets
    BY ResentType
  <2> QED
    BY <1>0, <1>13, <2>1, SendToClientEffect, NetAssumption
    DEF LastRrTimeout, SelectTimeout, resend, SentOn, SelectStates
<1>14. CASE ReadEofAck
  <2>1. PICK i \in ToServerReadable :
          /\ toServer' = RemoveAt(toServer, i)
          /\ sstate' \in ServerStates
    BY <1>14 DEF ReadEofAck, SelectReady
  <2>2. toServer' \in Seq(Packets)
    BY <2>1, ReadByServer
  <2> QED
    BY <1>0, <1>14, <2>1, <2>2, NetAssumption DEF ReadEofAck, SelectReady, SelectStates
<1>15. CASE EofAckTimeout
  <2>1. Packet("END_OF_FILE", seqNum, NoData) \in Packets
    BY PacketType DEF Flags
  <2> QED
    BY <1>0, <1>15, <2>1, SendToClientEffect, NetAssumption
    DEF EofAckTimeout, SelectTimeout, SentOn, SelectStates
<1> QED
  BY <1>1, <1>2, <1>3, <1>4, <1>5, <1>6, <1>7, <1>8, <1>9, <1>10, <1>11,
     <1>12, <1>13, <1>14, <1>15
  DEF ServerStep, ServerTimeout, WindowFullGiveUp, LastRrGiveUp, EofAckGiveUp,
      SelectStates

\* Every step of the client keeps the types.
LEMMA ClientTypes ==
  ASSUME TypeInv, ClientStep \/ FilenameTimeout \/ ServerGone, UNCHANGED serverVars
  PROVE  TypeOK'
<1> USE DEF TypeInv, TypeOK, ClientTypeOK, ClientStates, Outcomes, netVars,
            ClientLeaves
<1>0. ServerTypeOK'
  BY DEF ServerTypeOK, serverVars
<1>1. CASE ReadFilenameReply
  <2>1. PICK i \in ToClientReadable :
          /\ toClient' = RemoveAt(toClient, i)
          /\ cstate' \in ClientStates
          /\ outcome' \in Outcomes
    BY <1>1 DEF ReadFilenameReply
  <2>2. toClient' \in Seq(Packets)
    BY <2>1, ReadByClient
  <2> QED
    BY <1>0, <1>1, <2>1, <2>2, NetAssumption DEF ReadFilenameReply
<1>2. CASE FilenameTimeout
  BY <1>0, <1>2, NetAssumption DEF FilenameTimeout
<1>3. CASE FilenameGiveUp
  BY <1>0, <1>3, NetAssumption DEF FilenameGiveUp, Tries
<1>4. CASE OpenOutput
  BY <1>0, <1>4, EmptySeq DEF OpenOutput
<1>5. CASE ServerGone
  BY <1>0, <1>5 DEF ServerGone
<1>6. CASE RecvData
  <2>1. PICK i \in ToClientReadable :
          /\ toClient' = RemoveAt(toClient, i)
          /\ \/ RecvCorrupted(toClient[i])
             \/ RecvEof(toClient[i])
             \/ RecvOld(toClient[i])
             \/ RecvExpected(toClient[i])
             \/ RecvAhead(toClient[i])
    BY <1>6 DEF RecvData
  <2> DEFINE p == toClient[i]
  <2>2. p \in Packets /\ toClient' \in Seq(Packets)
    BY <2>1, ReadByClient
  <2>3. p.seq \in Nat /\ p.data \in Chunks \cup {NoData}
    BY <2>2 DEF Packets
  <2>4. nameTries' = nameTries
    BY <1>6 DEF RecvData
  <2>5. /\ Packet("EOF_ACK", expSeqNum + 1, NoData) \in Packets
        /\ Packet("ACK", expSeqNum, NoData) \in Packets
        /\ Packet("FSREJ", expSeqNum, NoData) \in Packets
    BY PacketType DEF Flags
  <2> HIDE DEF p
  <2>6. CASE RecvCorrupted(p)
    BY <1>0, <2>2, <2>4, <2>6 DEF RecvCorrupted
  <2>7. CASE RecvEof(p)
    BY <1>0, <2>2, <2>4, <2>5, <2>7, SendToServerEffect DEF RecvEof, SentOn
  <2>8. CASE RecvOld(p)
    BY <1>0, <2>2, <2>4, <2>5, <2>8, SendToServerEffect DEF RecvOld, SentOn
  <2>9. CASE RecvExpected(p)
    <3>1. output' \in Seq(Chunks)
      BY <2>3, <2>9, AppendProperties DEF RecvExpected, Written
    <3>2. srejFg' \in BOOLEAN
      BY <2>9, Zenon DEF RecvExpected
    <3>3. expSeqNum' \in Nat \ {0}
      BY <2>9 DEF RecvExpected
    <3> QED
      BY <1>0, <2>2, <2>4, <2>9, <3>1, <3>2, <3>3 DEF RecvExpected
  <2>10. CASE RecvAhead(p)
    <3>1. cwindow' \in [Slots -> Chunks \cup {NoData, EMPTY}]
      BY <2>3, <2>10, AddType DEF RecvAhead, WindowType
    <3>2. toServer' \in Seq(Packets) /\ faults' \in 0 .. MaxFaults /\ srejFg' \in BOOLEAN
      BY <2>5, <2>10, SendToServerEffect DEF RecvAhead, SentOn
    <3> QED
      BY <1>0, <2>2, <2>4, <2>10, <3>1, <3>2 DEF RecvAhead
  <2> QED
    BY <2>1, <2>6, <2>7, <2>8, <2>9, <2>10 DEF p
<1>7. CASE AckAll
  <2>1. Packet("ACK", expSeqNum, NoData) \in Packets
    BY PacketType DEF Flags
  <2> QED
    BY <1>0, <1>7, <2>1, SendToServerEffect DEF AckAll, SentOn
<1>8. CASE RejectHole
  <2>1. Packet("FSREJ", expSeqNum, NoData) \in Packets
    BY PacketType DEF Flags
  <2> QED
    BY <1>0, <1>8, <2>1, SendToServerEffect DEF RejectHole, SentOn
<1>9. CASE DrainOne
  <2>1. getElement(cwindow, expSeqNum) \in Chunks \cup {NoData}
    BY <1>9, IndexInSlots DEF DrainOne, isEmptySpot, getElement
  <2>2. output' \in Seq(Chunks)
    BY <1>9, <2>1, AppendProperties DEF DrainOne, Written
  <2>3. cwindow' \in [Slots -> Chunks \cup {NoData, EMPTY}]
    BY <1>9, DeleteType DEF DrainOne, WindowType
  <2> QED
    BY <1>0, <1>9, <2>2, <2>3 DEF DrainOne
<1> QED
  BY <1>1, <1>2, <1>3, <1>4, <1>5, <1>6, <1>7, <1>8, <1>9 DEF ClientStep

\* A retry counter is at most MaxTries until the call that gives up.
LEMMA TriesStep ==
  ASSUME TypeInv, [Next]_vars
  PROVE  Tries'
<1> USE DEF TypeInv, TypeOK, ServerTypeOK, ClientTypeOK, Tries, netVars,
            ServerStates, SelectStates, ClientLeaves
<1>1. CASE ServerStep /\ UNCHANGED clientVars
  <2>1. cstate' = cstate /\ nameTries' = nameTries
    BY <1>1 DEF clientVars
  <2>2. CASE retryCount' = retryCount
    <3>1. sstate # "DONE"
      BY <1>1, <2>2
      DEF ServerStep, FilenameOk, FilenameBad, WindowOpen, WindowFullReady,
          WindowFullGiveUp, SendChunk, ReachEof, ReadError, NoAnswerYet,
          ReadRrSrej, ReadLastRr, LastRrGiveUp, ReadEofAck, EofAckGiveUp,
          SelectReady, SelectGiveUp
    <3> QED
      BY <2>1, <2>2, <3>1
  <2>3. CASE \E s \in SelectStates : SelectReady(s)
    BY <2>1, <2>3, NetAssumption DEF SelectReady
  <2>4. CASE \E s \in SelectStates : SelectGiveUp(s)
    BY <2>1, <2>4 DEF SelectGiveUp
  <2> QED
    BY <1>1, <2>2, <2>3, <2>4
    DEF ServerStep, FilenameOk, FilenameBad, WindowOpen, WindowFullReady,
        WindowFullGiveUp, SendChunk, ReachEof, ReadError, NoAnswerYet,
        ReadRrSrej, ReadLastRr, LastRrGiveUp, ReadEofAck, EofAckGiveUp
<1>2. CASE ServerTimeout /\ UNCHANGED clientVars
  <2>1. PICK s \in SelectStates : SelectTimeout(s)
    BY <1>2 DEF ServerTimeout, WindowFullTimeout, LastRrTimeout, EofAckTimeout
  <2>2. /\ retryCount[s] < MaxTries
        /\ retryCount' = [retryCount EXCEPT ![s] = @ + 1]
    BY <2>1 DEF SelectTimeout
  <2>3. \A t \in SelectStates : retryCount'[t] <= MaxTries
    <3>1. sstate # "DONE"
      BY <2>1 DEF SelectTimeout
    <3> QED
      BY <2>2, <3>1, NetAssumption
  <2>4. cstate' = cstate /\ nameTries' = nameTries
    BY <1>2 DEF clientVars
  <2> QED
    BY <2>3, <2>4
<1>3. CASE (ClientStep \/ FilenameTimeout \/ ServerGone) /\ UNCHANGED serverVars
  <2>1. sstate' = sstate /\ retryCount' = retryCount
    BY <1>3 DEF serverVars
  <2>2. cstate' = "FILENAME" => FALSE
    BY <1>3
    DEF ClientStep, FilenameTimeout, ServerGone, ReadFilenameReply,
        FilenameGiveUp, OpenOutput, RecvData, AckAll, RejectHole, DrainOne,
        RecvCorrupted, RecvEof, RecvOld, RecvExpected, RecvAhead
  <2> QED
    BY <2>1, <2>2
<1>4. CASE UNCHANGED vars
  BY <1>4 DEF vars, serverVars, clientVars
<1> QED
  BY <1>1, <1>2, <1>3, <1>4
  DEF Next, ServerNext, ServerSelectExpires, ClientNext, FilenameSelectExpires,
      RecvSelectExpires, Finished

\* The types hold at the start.
LEMMA TypeInit == Init => TypeInv
<1> SUFFICES ASSUME Init PROVE TypeInv
  OBVIOUS
<1>1. createWindow \in [Slots -> Chunks \cup {NoData, EMPTY}]
  BY CreateType DEF WindowType
<1>2. << >> \in Seq(Packets) /\ << >> \in Seq(Chunks)
  BY EmptySeq
<1>3. srejFg \in BOOLEAN
  BY Zenon DEF Init, ClientInit
<1> QED
  BY <1>1, <1>2, <1>3, NetAssumption
  DEF Init, NetInit, ServerInit, ClientInit, TypeInv, TypeOK, ServerTypeOK,
      ClientTypeOK, Tries, ServerStates, SelectStates, ClientStates, Outcomes

\* Every step keeps the types.
LEMMA TypeStep == TypeInv /\ [Next]_vars => TypeInv'
<1> SUFFICES ASSUME TypeInv, [Next]_vars PROVE TypeInv'
  OBVIOUS
<1>1. CASE (ServerStep \/ ServerTimeout) /\ UNCHANGED clientVars
  BY <1>1, ServerTypes, TriesStep DEF TypeInv
<1>2. CASE (ClientStep \/ FilenameTimeout \/ ServerGone) /\ UNCHANGED serverVars
  BY <1>2, ClientTypes, TriesStep DEF TypeInv
<1>3. CASE UNCHANGED vars
  BY <1>3, TriesStep
  DEF vars, serverVars, clientVars, netVars, TypeInv, TypeOK, ServerTypeOK,
      ClientTypeOK
<1> QED
  BY <1>1, <1>2, <1>3
  DEF Next, ServerNext, ServerSelectExpires, ClientNext, FilenameSelectExpires,
      RecvSelectExpires, Finished

\* Type correctness of the transfer, for every value of the constants.
THEOREM TypeCorrect == Spec => []TypeOK
<1>1. Spec => []TypeInv
  BY TypeInit, TypeStep, PTL DEF Spec
<1>2. TypeInv => TypeOK
  BY DEF TypeInv
<1> QED
  BY <1>1, <1>2, PTL

-----------------------------------------------------------------------------
(* The channels. *)

\* The counters only grow, seq_num not after the whole file was sent, and the
\* server does not come back from the end of the conversation.
Advance ==
  /\ wptrL <= wptrL'
  /\ expSeqNum <= expSeqNum'
  /\ seqNum <= seqNum'
  /\ FileSent => seqNum' = seqNum
  /\ sstate \in {"WAIT_ON_EOF_ACK", "DONE"} =>
        sstate' \in {"WAIT_ON_EOF_ACK", "DONE"}

\* A packet on its way to the client stays what it may be.
LEMMA ToClientStays ==
  ASSUME TypeOK, TypeOK', Advance, NEW p \in Packets, GoodToClient(p)
  PROVE  GoodToClient(p)'
<1>1. /\ p.seq \in Nat /\ wptrL \in Nat /\ wptrL' \in Nat
      /\ seqNum \in Nat /\ seqNum' \in Nat
      /\ expSeqNum \in Nat /\ expSeqNum' \in Nat
  BY DEF TypeOK, ServerTypeOK, ClientTypeOK, Packets
<1> QED
  BY <1>1, WindowSizeAssumption, NetAssumption
  DEF Advance, GoodToClient, FileSent

\* A step that sends nothing to the client: what is left there was there.
LEMMA ToClientKept ==
  ASSUME TypeOK, TypeOK', Advance, ToClientGood,
         \A j \in 1 .. Len(toClient') :
            \E k \in 1 .. Len(toClient) : toClient'[j] = toClient[k]
  PROVE  ToClientGood'
<1> SUFFICES ASSUME NEW j \in 1 .. Len(toClient')
             PROVE  GoodToClient(toClient[j])'
  BY DEF ToClientGood
<1>1. PICK k \in 1 .. Len(toClient) : toClient'[j] = toClient[k]
  OBVIOUS
<1>2. toClient[k] \in Packets /\ GoodToClient(toClient[k])
  BY ElementOfSeq DEF TypeOK, ToClientGood
<1> DEFINE p == toClient[k]
<1>3. \A q \in Packets : GoodToClient(q) => GoodToClient(q)'
  BY ToClientStays
<1> QED
  BY <1>1, <1>2, <1>3 DEF GoodToClient

\* A step that sends p to the client.
LEMMA ToClientSent ==
  ASSUME TypeOK, TypeOK', Advance, ToClientGood,
         NEW p \in Packets, GoodToClient(p)', SentOn(toClient, toClient', p)
  PROVE  ToClientGood'
<1> SUFFICES ASSUME NEW j \in 1 .. Len(toClient')
             PROVE  GoodToClient(toClient[j])'
  BY DEF ToClientGood
<1>1. Len(toClient) \in Nat /\ Len(toClient') \in Nat
  BY LenProperties DEF TypeOK
<1>2. CASE j \in 1 .. Len(toClient)
  <2>1. toClient'[j] = toClient[j]
    BY <1>2 DEF SentOn
  <2>2. toClient[j] \in Packets /\ GoodToClient(toClient[j])
    BY <1>2, ElementOfSeq DEF TypeOK, ToClientGood
  <2>3. \A q \in Packets : GoodToClient(q) => GoodToClient(q)'
    BY ToClientStays
  <2> QED
    BY <2>1, <2>2, <2>3 DEF GoodToClient
<1>3. CASE j \notin 1 .. Len(toClient)
  <2>1. toClient'[j] \in {p, Corrupted}
    BY <1>1, <1>3 DEF SentOn
  <2> QED
    BY <2>1 DEF GoodToClient, Corrupted, Packet
<1> QED
  BY <1>2, <1>3

\* A packet on its way to the server stays what it may be, while the lower
\* bound stays below it.
LEMMA ToServerStays ==
  ASSUME TypeOK, TypeOK', Advance, NEW p \in Packets, GoodToServer(p),
         p.flag \in AckFlags => wptrL' <= p.seq
  PROVE  GoodToServer(p)'
<1>1. /\ p.seq \in Nat /\ wptrL \in Nat /\ wptrL' \in Nat
      /\ seqNum \in Nat /\ seqNum' \in Nat
      /\ expSeqNum \in Nat /\ expSeqNum' \in Nat
  BY DEF TypeOK, ServerTypeOK, ClientTypeOK, Packets
<1> QED
  BY <1>1 DEF Advance, GoodToServer, AckFlags

\* A step that neither reads from nor sends to the server's socket.
LEMMA ToServerKept ==
  ASSUME TypeOK, TypeOK', Advance, ToServerGood, AcksInOrder,
         UNCHANGED <<toServer, wptrL>>
  PROVE  ToServerGood' /\ AcksInOrder'
<1>1. AcksInOrder'
  BY DEF AcksInOrder
<1>2. ASSUME NEW j \in 1 .. Len(toServer')
      PROVE  GoodToServer(toServer[j])'
  <2>1. toServer[j] \in Packets /\ GoodToServer(toServer[j])
    BY ElementOfSeq DEF TypeOK, ToServerGood
  <2>2. toServer[j].flag \in AckFlags => wptrL' <= toServer[j].seq
    BY <2>1 DEF GoodToServer, AckFlags
  <2>3. \A q \in Packets :
           GoodToServer(q) /\ (q.flag \in AckFlags => wptrL' <= q.seq)
              => GoodToServer(q)'
    BY ToServerStays
  <2> QED
    BY <2>1, <2>2, <2>3 DEF GoodToServer
<1> QED
  BY <1>1, <1>2 DEF ToServerGood

\* In order, the packet the server reads is the first, and no acknowledgement
\* behind it is older.
LEMMA FirstIsOldest ==
  ASSUME TypeOK, ToServerGood, AcksInOrder, AckReorder = FALSE,
         NEW i \in ToServerReadable, toServer' = RemoveAt(toServer, i)
  PROVE  /\ toServer[i] \in Packets
         /\ GoodToServer(toServer[i])
         /\ AcksInOrder'
         /\ \A j \in 1 .. Len(toServer') :
               /\ toServer'[j] \in Packets
               /\ GoodToServer(toServer'[j])
               /\ /\ toServer[i].flag \in AckFlags
                  /\ toServer'[j].flag \in AckFlags
                  => toServer[i].seq <= toServer'[j].seq
<1>1. i = 1 /\ 1 \in 1 .. Len(toServer) /\ toServer[1] \in Packets
  BY ReadByServer DEF TypeOK
<1>2. GoodToServer(toServer[1])
  BY <1>1 DEF ToServerGood
<1>3. /\ Len(toServer) \in Nat
      /\ Len(toServer') = Len(toServer) - 1
      /\ \A j \in 1 .. Len(toServer) - 1 : toServer'[j] = toServer[j + 1]
  <2>1. /\ Len(toServer') = Len(toServer) - 1
        /\ \A j \in 1 .. Len(toServer) - 1 :
              toServer'[j] = IF j < 1 THEN toServer[j] ELSE toServer[j + 1]
    BY <1>1, RemoveEffect DEF TypeOK
  <2> QED
    BY <2>1, LenProperties DEF TypeOK
<1>4. AcksInOrder'
  <2> SUFFICES ASSUME NEW j \in 1 .. Len(toServer'), NEW k \in 1 .. Len(toServer'),
                      j < k, toServer'[j].flag \in AckFlags,
                      toServer'[k].flag \in AckFlags
               PROVE  toServer'[j].seq <= toServer'[k].seq
    BY DEF AcksInOrder, AckFlags
  <2>1. /\ j + 1 \in 1 .. Len(toServer) /\ k + 1 \in 1 .. Len(toServer)
        /\ j + 1 < k + 1
        /\ toServer'[j] = toServer[j + 1] /\ toServer'[k] = toServer[k + 1]
    BY <1>3
  <2> QED
    BY <2>1 DEF AcksInOrder
<1>5. ASSUME NEW j \in 1 .. Len(toServer')
      PROVE  /\ toServer'[j] \in Packets
             /\ GoodToServer(toServer'[j])
             /\ /\ toServer[1].flag \in AckFlags
                /\ toServer'[j].flag \in AckFlags
                => toServer[1].seq <= toServer'[j].seq
  <2>1. j + 1 \in 1 .. Len(toServer) /\ toServer'[j] = toServer[j + 1] /\ 1 < j + 1
    BY <1>3
  <2> QED
    BY <1>1, <2>1, ElementOfSeq DEF TypeOK, ToServerGood, AcksInOrder
<1> QED
  BY <1>1, <1>2, <1>4, <1>5

\* A step that takes a packet from the server's socket and, if it is an
\* acknowledgement, moves the lower bound at most up to it.
LEMMA ToServerRead ==
  ASSUME TypeOK, TypeOK', Advance, ToServerGood, AcksInOrder,
         AckReorder = FALSE,
         NEW i \in ToServerReadable, toServer' = RemoveAt(toServer, i),
         \/ wptrL' = wptrL
         \/ toServer[i].flag \in AckFlags /\ wptrL' = toServer[i].seq
  PROVE  ToServerGood' /\ AcksInOrder'
<1>1. AcksInOrder'
  BY FirstIsOldest
<1>2. ASSUME NEW j \in 1 .. Len(toServer')
      PROVE  GoodToServer(toServer[j])'
  <2>1. toServer'[j] \in Packets /\ GoodToServer(toServer'[j])
    BY FirstIsOldest
  <2>2. toServer'[j].flag \in AckFlags => wptrL' <= toServer'[j].seq
    <3>1. CASE wptrL' = wptrL
      BY <2>1, <3>1 DEF GoodToServer, AckFlags
    <3>2. CASE toServer[i].flag \in AckFlags /\ wptrL' = toServer[i].seq
      BY <3>2, FirstIsOldest
    <3> QED
      BY <3>1, <3>2
  <2>3. \A q \in Packets :
           GoodToServer(q) /\ (q.flag \in AckFlags => wptrL' <= q.seq)
              => GoodToServer(q)'
    BY ToServerStays
  <2> QED
    BY <2>1, <2>2, <2>3 DEF GoodToServer
<1> QED
  BY <1>1, <1>2 DEF ToServerGood

\* A step that sends p to the server: an acknowledgement is not older than
\* expSeqNum, hence not older than those in flight.
LEMMA ToServerSent ==
  ASSUME TypeOK, TypeOK', Advance, ToServerGood, AcksInOrder,
         UNCHANGED wptrL,
         NEW p \in Packets, GoodToServer(p)', SentOn(toServer, toServer', p),
         p.flag \in AckFlags => expSeqNum <= p.seq
  PROVE  ToServerGood' /\ AcksInOrder'
<1>0. Len(toServer) \in Nat /\ Len(toServer') \in Nat
  BY LenProperties DEF TypeOK
<1>1. \A j \in 1 .. Len(toServer') :
         \/ /\ j \in 1 .. Len(toServer) /\ toServer'[j] = toServer[j]
            /\ toServer[j] \in Packets /\ GoodToServer(toServer[j])
         \/ j > Len(toServer) /\ toServer'[j] \in {p, Corrupted}
  <2> TAKE j \in 1 .. Len(toServer')
  <2>1. CASE j \in 1 .. Len(toServer)
    BY <2>1, ElementOfSeq DEF SentOn, TypeOK, ToServerGood
  <2>2. CASE j \notin 1 .. Len(toServer)
    BY <1>0, <2>2 DEF SentOn
  <2> QED
    BY <2>1, <2>2
<1>2. ASSUME NEW j \in 1 .. Len(toServer')
      PROVE  GoodToServer(toServer[j])'
  <2>1. CASE /\ toServer'[j] = toServer[j]
             /\ toServer[j] \in Packets /\ GoodToServer(toServer[j])
    <3>1. toServer[j].flag \in AckFlags => wptrL' <= toServer[j].seq
      BY <2>1 DEF GoodToServer, AckFlags
    <3>2. \A q \in Packets :
             GoodToServer(q) /\ (q.flag \in AckFlags => wptrL' <= q.seq)
                => GoodToServer(q)'
      BY ToServerStays
    <3> QED
      BY <2>1, <3>1, <3>2 DEF GoodToServer
  <2>2. CASE toServer'[j] \in {p, Corrupted}
    BY <2>2 DEF GoodToServer, Corrupted, Packet
  <2> QED
    BY <1>1, <2>1, <2>2
<1>3. AcksInOrder'
  <2> SUFFICES ASSUME NEW j \in 1 .. Len(toServer'), NEW k \in 1 .. Len(toServer'),
                      j < k, toServer'[j].flag \in AckFlags,
                      toServer'[k].flag \in AckFlags
               PROVE  toServer'[j].seq <= toServer'[k].seq
    BY DEF AcksInOrder, AckFlags
  <2>1. Corrupted.flag \notin AckFlags
    BY DEF Corrupted, Packet, AckFlags
  <2>2. CASE k \in 1 .. Len(toServer)
    <3>1. j \in 1 .. Len(toServer)
      BY <1>0, <2>2
    <3>2. toServer'[j] = toServer[j] /\ toServer'[k] = toServer[k]
      BY <2>2, <3>1 DEF SentOn
    <3> QED
      BY <2>2, <3>1, <3>2 DEF AcksInOrder
  <2>3. CASE k \notin 1 .. Len(toServer)
    <3>1. toServer'[k] = p
      BY <1>1, <2>1, <2>3
    <3>2. CASE toServer'[j] = p
      BY <3>1, <3>2 DEF Packets
    <3>3. CASE toServer'[j] = toServer[j] /\ GoodToServer(toServer[j])
               /\ toServer[j] \in Packets
      <4>1. /\ toServer[j].seq <= expSeqNum /\ expSeqNum <= p.seq
            /\ toServer[j].seq \in Nat /\ p.seq \in Nat /\ expSeqNum \in Nat
        BY <3>1, <3>3 DEF GoodToServer, AckFlags, TypeOK, ClientTypeOK, Packets
      <4> QED
        BY <3>1, <3>3, <4>1
    <3> QED
      BY <1>1, <2>1, <3>2, <3>3
  <2> QED
    BY <2>2, <2>3
<1> QED
  BY <1>2, <1>3 DEF ToServerGood

-----------------------------------------------------------------------------
(* Facts that several steps need. *)

\* The numbers of IInv are numbers, and the client is ahead of the server
\* only when the whole file has been sent.
LEMMA Numbers ==
  ASSUME TypeOK, Counters
  PROVE  /\ wptrL \in Nat /\ seqNum \in Nat /\ expSeqNum \in Nat
         /\ fileOff \in Nat /\ NumChunks \in Nat /\ WindowSize \in Nat
         /\ WindowSize >= 1 /\ seqNum >= 1 /\ expSeqNum >= 1
         /\ fileOff = seqNum - 1 /\ seqNum <= NumChunks + 1
         /\ seqNum <= NumChunks => expSeqNum <= seqNum
         /\ wptrL <= expSeqNum /\ seqNum - wptrL <= WindowSize
         /\ expSeqNum > NumChunks => seqNum = NumChunks + 1
  BY WindowSizeAssumption, NetAssumption
  DEF TypeOK, ServerTypeOK, ClientTypeOK, Counters, FileSent

\* A window with a free slot has room for one more sequence number.
LEMMA RoomForOne ==
  ASSUME TypeOK, Counters, SenderRing, ~ isWindowFull(swindow)
  PROVE  seqNum - wptrL < WindowSize
<1>1. PICK i \in Slots : swindow[i] = EMPTY
  BY DEF isWindowFull
<1>2. PICK s \in wptrL .. wptrL + WindowSize - 1 : Index(s) = i
  BY Numbers, IndexSurjective
<1>3. s \notin wptrL .. seqNum - 1
  <2>1. SUFFICES ASSUME s \in wptrL .. seqNum - 1 PROVE FALSE
    OBVIOUS
  <2>2. swindow[i] = s /\ s \in Nat
    BY <1>2, <2>1, Numbers DEF SenderRing
  <2> QED
    BY <1>1, <2>2 DEF EMPTY
<1> QED
  BY <1>2, <1>3, Numbers

\* In a full window the lower bound has been sent and is in its slot.
LEMMA FullHasLower ==
  ASSUME TypeOK, Counters, SenderRing, isWindowFull(swindow)
  PROVE  wptrL < seqNum
<1>1. 0 \in Slots
  BY Numbers DEF Slots
<1>2. swindow[0] \in wptrL .. seqNum - 1
  BY <1>1 DEF isWindowFull, SenderRing
<1> QED
  BY <1>2, Numbers

\* Resending a number in the window sends its chunk.
LEMMA ResendGood ==
  ASSUME TypeOK, Counters, SenderRing, NEW s \in Nat, wptrL <= s, s < seqNum
  PROVE  Resent(s) \in Packets /\ GoodToClient(Resent(s))
<1>1. swindow[Index(s)] = s
  BY Numbers DEF SenderRing
<1>2. /\ Resent(s) \in Packets
      /\ Resent(s).flag = "DATA" /\ Resent(s).seq = s
      /\ Resent(s).data = s
  BY <1>1, ResentType DEF TypeOK, EMPTY
<1> QED
  BY <1>2, Numbers DEF GoodToClient

\* Resending the lower bound when nothing is left to acknowledge sends an
\* empty packet past the end of the file.
LEMMA ResendPastEof ==
  ASSUME TypeOK, Counters, SenderRing, FileSent, seqNum <= wptrL
  PROVE  Resent(wptrL) \in Packets /\ GoodToClient(Resent(wptrL))
<1>1. Index(wptrL) \in Slots
  BY Numbers, IndexInSlots
<1>2. swindow[Index(wptrL)] = EMPTY
  BY <1>1, Numbers DEF SenderRing
<1>3. /\ Resent(wptrL) \in Packets
      /\ Resent(wptrL).flag = "DATA" /\ Resent(wptrL).seq = wptrL
      /\ Resent(wptrL).data = NoData
  BY <1>2, ResentType, Numbers DEF TypeOK
<1> QED
  BY <1>3, Numbers DEF GoodToClient

\* An acknowledgement between the lower bound and the client's number frees
\* the slots below it and no other.
LEMMA AcknowledgeRing ==
  ASSUME TypeOK, Counters, SenderRing, NEW s \in Nat,
         wptrL <= s, Acknowledge(s), seqNum' = seqNum
  PROVE  SenderRing'
<1>0. wptrL' = s
  BY DEF Acknowledge
<1>1. \A i \in Slots :
         swindow'[i] = IF \E l \in wptrL .. s - 1 : Index(l) = i
                       THEN EMPTY ELSE swindow[i]
  BY DEF Acknowledge, removeFromBuffer
<1>2. ASSUME NEW i \in Slots, swindow'[i] # EMPTY
      PROVE  swindow'[i] \in s .. seqNum - 1 /\ Index(swindow'[i]) = i
  <2>1. /\ swindow'[i] = swindow[i]
        /\ ~ \E l \in wptrL .. s - 1 : Index(l) = i
    BY <1>1, <1>2
  <2>2. swindow[i] \in wptrL .. seqNum - 1 /\ Index(swindow[i]) = i
    BY <1>2, <2>1 DEF SenderRing
  <2> QED
    BY <2>1, <2>2, Numbers
<1>3. ASSUME NEW t \in s .. seqNum - 1
      PROVE  swindow'[Index(t)] = t
  <2>1. Index(t) \in Slots /\ swindow[Index(t)] = t
    BY Numbers, IndexInSlots DEF SenderRing
  <2>2. ~ \E l \in wptrL .. s - 1 : Index(l) = Index(t)
    <3>1. SUFFICES ASSUME NEW l \in wptrL .. s - 1, Index(l) = Index(t)
                   PROVE  FALSE
      OBVIOUS
    <3>2. l \in Int /\ t \in Int /\ l - t < WindowSize /\ t - l < WindowSize /\ l # t
      BY Numbers
    <3> QED
      BY <3>1, <3>2, IndexInjective
  <2> QED
    BY <1>1, <2>1, <2>2
<1> QED
  BY <1>0, <1>2, <1>3 DEF SenderRing

\* Sending the next chunk puts it in a free slot.
LEMMA AddRing ==
  ASSUME TypeOK, Counters, SenderRing,
         seqNum - wptrL < WindowSize, wptrL <= seqNum,
         swindow' = addElement(swindow, seqNum, seqNum),
         seqNum' = seqNum + 1, wptrL' = wptrL
  PROVE  SenderRing'
<1>1. \A i \in Slots :
         swindow'[i] = IF i = Index(seqNum) THEN seqNum ELSE swindow[i]
  BY DEF addElement, TypeOK, ServerTypeOK
<1>2. ASSUME NEW i \in Slots, swindow'[i] # EMPTY
      PROVE  swindow'[i] \in wptrL .. seqNum /\ Index(swindow'[i]) = i
  <2>1. CASE i = Index(seqNum)
    BY <1>1, <2>1, Numbers
  <2>2. CASE i # Index(seqNum)
    BY <1>1, <1>2, <2>2, Numbers DEF SenderRing
  <2> QED
    BY <2>1, <2>2
<1>3. ASSUME NEW s \in wptrL .. seqNum
      PROVE  swindow'[Index(s)] = s
  <2>1. Index(s) \in Slots
    BY Numbers, IndexInSlots
  <2>2. CASE s = seqNum
    BY <1>1, <2>1, <2>2
  <2>3. CASE s # seqNum
    <3>1. s \in Int /\ seqNum \in Int /\ s - seqNum < WindowSize /\ seqNum - s < WindowSize
      BY Numbers
    <3>2. Index(s) # Index(seqNum)
      BY <2>3, <3>1, IndexInjective
    <3>3. swindow[Index(s)] = s
      BY <2>3, Numbers DEF SenderRing
    <3> QED
      BY <1>1, <2>1, <3>2, <3>3
  <2> QED
    BY <2>2, <2>3
<1>4. seqNum' - 1 = seqNum
  BY Numbers
<1> QED
  BY <1>2, <1>3, <1>4 DEF SenderRing

-----------------------------------------------------------------------------
(* The server's steps. *)

\* A server step that moves none of its numbers leaves both rings and the
\* output as they are.
LEMMA ServerFrame ==
  ASSUME IInv, UNCHANGED <<clientVars, swindow, wptrL, seqNum, fileOff>>
  PROVE  SenderRing' /\ ReceiverRing' /\ OutputSoFar'
  BY DEF IInv, SenderRing, ReceiverRing, OutputSoFar, clientVars

\* Numbers that do not move advance.
LEMMA StillAdvance ==
  ASSUME TypeOK, UNCHANGED <<wptrL, seqNum, expSeqNum>>,
         sstate \in {"WAIT_ON_EOF_ACK", "DONE"} =>
            sstate' \in {"WAIT_ON_EOF_ACK", "DONE"}
  PROVE  Advance
  BY DEF Advance, TypeOK, ServerTypeOK, ClientTypeOK

\* Steps that touch no channel.
LEMMA ServerQuiet ==
  ASSUME IInv, TypeInv', UNCHANGED clientVars,
         \/ WindowOpen \/ WindowFullReady \/ ReachEof \/ ReadError
         \/ NoAnswerYet \/ \E s \in SelectStates : SelectGiveUp(s)
  PROVE  IInv' /\ Advance
<1> USE DEF IInv, TypeInv, netVars
<1>1. /\ UNCHANGED <<swindow, wptrL, seqNum, fileOff, toClient, toServer>>
      /\ sstate \notin {"FILENAME", "DONE"}
      /\ sstate = "WAIT_ON_EOF_ACK" => sstate' = "DONE"
  BY DEF WindowOpen, WindowFullReady, ReachEof, ReadError, NoAnswerYet,
         SelectGiveUp, SelectReady, SelectStates
<1>2. expSeqNum' = expSeqNum /\ cstate' = cstate /\ outcome' = outcome
  BY DEF clientVars
<1>3. Advance
  BY <1>1, <1>2, StillAdvance
<1>4. Counters'
  <2>1. CASE WindowOpen
    <3>1. seqNum - wptrL < WindowSize
      BY <2>1, RoomForOne DEF WindowOpen
    <3> QED
      BY <1>1, <1>2, <2>1, <3>1 DEF WindowOpen, Counters, FileSent, ClientGone
  <2>2. CASE ReachEof
    <3>1. FileSent
      BY <2>2, Numbers DEF ReachEof, FileSent
    <3> QED
      BY <1>1, <1>2, <2>2, <3>1 DEF ReachEof, Counters, FileSent, ClientGone
  <2>3. CASE \/ WindowFullReady \/ ReadError \/ NoAnswerYet
             \/ \E s \in SelectStates : SelectGiveUp(s)
    <3>1. sstate' \in {"CHECK_RR_SREJ", "CHECK_WINDOW", "DONE"}
      BY <2>3 DEF WindowFullReady, ReadError, NoAnswerYet, SelectGiveUp
    <3> QED
      BY <1>1, <1>2, <3>1 DEF Counters, FileSent, ClientGone
  <2> QED
    BY <2>1, <2>2, <2>3
<1>5. ToClientGood'
  BY <1>1, <1>3, ToClientKept
<1>6. ToServerGood' /\ AcksInOrder'
  BY <1>1, <1>3, ToServerKept
<1> QED
  BY <1>1, <1>3, <1>4, <1>5, <1>6, ServerFrame

\* filename()
LEMMA ServerFilename ==
  ASSUME IInv, TypeInv', UNCHANGED clientVars, FilenameOk \/ FilenameBad
  PROVE  IInv' /\ Advance
<1> USE DEF IInv, TypeInv
<1>1. PICK f \in {"FNAME_OK", "FNAME_BAD"} :
        /\ sstate = "FILENAME"
        /\ sstate' \in {"CHECK_WINDOW", "DONE"}
        /\ swindow' = createWindow
        /\ SendToClient(Packet(f, 0, NoData))
        /\ UNCHANGED <<toServer, wptrL, seqNum, fileOff, retryCount>>
  BY DEF FilenameOk, FilenameBad
<1>2. expSeqNum' = expSeqNum /\ cstate' = cstate /\ outcome' = outcome
      /\ cwindow' = cwindow /\ output' = output
  BY DEF clientVars
<1>3. Advance
  BY <1>1, <1>2, StillAdvance
<1>4. Counters'
  BY <1>1, <1>2 DEF Counters, FileSent, ClientGone
<1>5. SenderRing'
  BY <1>1, Numbers DEF SenderRing, Counters, createWindow
<1>6. ReceiverRing' /\ OutputSoFar'
  BY <1>1, <1>2 DEF ReceiverRing, OutputSoFar
<1>7. PICK p \in Packets : p = Packet(f, 0, NoData)
  BY PacketType DEF Flags
<1>8. p.flag = f /\ p.seq = 0
  BY <1>7 DEF Packet
<1>9. GoodToClient(p)'
  BY <1>8 DEF GoodToClient
<1>10. ToClientGood'
  BY <1>1, <1>3, <1>7, <1>9, SendToClientEffect, ToClientSent DEF TypeOK
<1>11. ToServerGood' /\ AcksInOrder'
  BY <1>1, <1>3, ToServerKept
<1> QED
  BY <1>3, <1>4, <1>5, <1>6, <1>10, <1>11

\* send_data() with a chunk to send.
LEMMA ServerSendChunk ==
  ASSUME IInv, TypeInv', UNCHANGED clientVars, SendChunk
  PROVE  IInv' /\ Advance
<1> USE DEF IInv, TypeInv
<1>1. /\ sstate = "SEND_DATA" /\ sstate' = "CHECK_RR_SREJ"
      /\ fileOff < NumChunks /\ fileOff' = fileOff + 1
      /\ fileOff + 1 = seqNum /\ seqNum' = seqNum + 1
      /\ UNCHANGED <<wptrL, retryCount, toServer>>
      /\ swindow' = addElement(swindow, seqNum, seqNum)
      /\ SendToClient(Packet("DATA", seqNum, seqNum))
  BY Numbers DEF SendChunk
<1>2. expSeqNum' = expSeqNum /\ cstate' = cstate /\ outcome' = outcome
      /\ cwindow' = cwindow /\ output' = output
  BY DEF clientVars
<1>3. /\ seqNum <= NumChunks /\ expSeqNum <= seqNum /\ wptrL <= seqNum
      /\ seqNum - wptrL < WindowSize
  BY <1>1, Numbers DEF Counters
<1>4. Advance
  BY <1>1, <1>2, <1>3, Numbers DEF Advance, FileSent
<1>5. Counters'
  BY <1>1, <1>2, <1>3, Numbers DEF Counters, FileSent, ClientGone
<1>6. SenderRing'
  BY <1>1, <1>3, AddRing
<1>7. ReceiverRing' /\ OutputSoFar'
  <2>1. ReceiverRing'
    BY <1>1, <1>2, Numbers DEF ReceiverRing
  <2>2. OutputSoFar'
    BY <1>2 DEF OutputSoFar
  <2> QED
    BY <2>1, <2>2
<1>8. PICK p \in Packets : p = Packet("DATA", seqNum, seqNum)
  <2>1. seqNum \in Chunks
    BY <1>3, Numbers DEF Chunks
  <2> QED
    BY <2>1, PacketType, Numbers DEF Flags
<1>9. p.flag = "DATA" /\ p.seq = seqNum /\ p.data = seqNum
  BY <1>8 DEF Packet
<1>10. GoodToClient(p)'
  BY <1>1, <1>3, <1>9, Numbers DEF GoodToClient
<1>11. ToClientGood'
  BY <1>1, <1>4, <1>8, <1>10, SendToClientEffect, ToClientSent DEF TypeOK
<1>12. ToServerGood' /\ AcksInOrder'
  BY <1>1, <1>4, ToServerKept
<1> QED
  BY <1>4, <1>5, <1>6, <1>7, <1>11, <1>12

\* The three timeouts that retransmit.
LEMMA ServerRetransmit ==
  ASSUME IInv, TypeInv', UNCHANGED clientVars, ServerTimeout
  PROVE  IInv' /\ Advance
<1> USE DEF IInv, TypeInv
<1>1. /\ UNCHANGED <<sstate, swindow, wptrL, seqNum, fileOff, toServer>>
      /\ sstate \in SelectStates
  BY DEF ServerTimeout, WindowFullTimeout, LastRrTimeout, EofAckTimeout,
         SelectTimeout, SelectStates
<1>2. expSeqNum' = expSeqNum /\ cstate' = cstate /\ outcome' = outcome
  BY DEF clientVars
<1>3. Advance
  BY <1>1, <1>2, StillAdvance
<1>4. Counters'
  BY <1>1, <1>2 DEF Counters, FileSent, ClientGone
<1>5. PICK p \in Packets : GoodToClient(p) /\ SendToClient(p)
  <2>1. CASE WindowFullTimeout
    <3>1. wptrL < seqNum
      BY <2>1, FullHasLower DEF WindowFullTimeout
    <3>2. Resent(wptrL) \in Packets /\ GoodToClient(Resent(wptrL))
      BY <3>1, ResendGood, Numbers
    <3> QED
      BY <2>1, <3>2 DEF WindowFullTimeout, resend
  <2>2. CASE LastRrTimeout
    <3>1. FileSent
      BY <2>2 DEF LastRrTimeout, SelectTimeout, Counters
    <3>2. Resent(wptrL) \in Packets /\ GoodToClient(Resent(wptrL))
      BY <3>1, ResendGood, ResendPastEof, Numbers
    <3> QED
      BY <2>2, <3>2 DEF LastRrTimeout, resend
  <2>3. CASE EofAckTimeout
    <3>1. sstate = "WAIT_ON_EOF_ACK" /\ expSeqNum > NumChunks
      BY <2>3 DEF EofAckTimeout, SelectTimeout, Counters
    <3>2. PICK p \in Packets : /\ p = Packet("END_OF_FILE", seqNum, NoData)
                               /\ p.flag = "END_OF_FILE"
      BY PacketType, Numbers DEF Flags
    <3>3. GoodToClient(p)
      BY <3>1, <3>2 DEF GoodToClient
    <3> QED
      BY <2>3, <3>2, <3>3 DEF EofAckTimeout
  <2> QED
    BY <2>1, <2>2, <2>3 DEF ServerTimeout
<1>6. GoodToClient(p)'
  BY <1>3, <1>5, ToClientStays
<1>7. ToClientGood'
  BY <1>3, <1>5, <1>6, SendToClientEffect, ToClientSent DEF TypeOK
<1>8. ToServerGood' /\ AcksInOrder'
  BY <1>1, <1>3, ToServerKept
<1> QED
  BY <1>1, <1>3, <1>4, <1>7, <1>8, ServerFrame

\* check_rr_srej(), wait_last_rr() and wait_on_eof_ack() with a packet.
LEMMA ServerRead ==
  ASSUME IInv, TypeInv', UNCHANGED clientVars, AckReorder = FALSE,
         ReadRrSrej \/ ReadLastRr \/ ReadEofAck
  PROVE  IInv' /\ Advance
<1> USE DEF IInv, TypeInv
<1>1. expSeqNum' = expSeqNum /\ cstate' = cstate /\ outcome' = outcome
      /\ cwindow' = cwindow /\ output' = output
  BY DEF clientVars
<1>2. PICK i \in ToServerReadable :
        /\ toServer' = RemoveAt(toServer, i)
        /\ \/ /\ toServer[i].flag = "FSREJ"
              /\ resend(toServer[i].seq)
              /\ UNCHANGED <<swindow, wptrL>>
              /\ sstate' \in {"CHECK_WINDOW", "WAIT_LAST_RR"}
           \/ /\ toServer[i].flag = "ACK" /\ toServer[i].seq = seqNum
              /\ sstate = "WAIT_LAST_RR" /\ sstate' = "WAIT_ON_EOF_ACK"
              /\ SendToClient(Packet("END_OF_FILE", seqNum, NoData))
              /\ UNCHANGED <<swindow, wptrL>>
           \/ /\ toServer[i].flag = "ACK"
              /\ Acknowledge(toServer[i].seq)
              /\ UNCHANGED <<toClient, faults>>
              /\ sstate' \in {"CHECK_WINDOW", "WAIT_LAST_RR"}
           \/ /\ UNCHANGED <<swindow, wptrL, toClient, faults>>
              /\ sstate' \in {sstate, "DONE"}
        /\ sstate \in {"CHECK_RR_SREJ", "WAIT_LAST_RR", "WAIT_ON_EOF_ACK"}
        /\ sstate' = "WAIT_LAST_RR" => sstate = "WAIT_LAST_RR"
        /\ sstate = "WAIT_ON_EOF_ACK" => sstate' \in {"WAIT_ON_EOF_ACK", "DONE"}
        /\ UNCHANGED <<seqNum, fileOff>>
  <2>1. CASE ReadRrSrej
    BY <2>1 DEF ReadRrSrej
  <2>2. CASE ReadLastRr
    BY <2>2 DEF ReadLastRr, SelectReady, expRR
  <2>3. CASE ReadEofAck
    BY <2>3 DEF ReadEofAck, SelectReady
  <2> QED
    BY <2>1, <2>2, <2>3
<1>3. /\ toServer[i] \in Packets /\ GoodToServer(toServer[i])
      /\ toServer[i].seq \in Nat
  BY <1>2, FirstIsOldest DEF Packets
<1>4. Counters' /\ Advance /\ SenderRing' /\ ReceiverRing' /\ OutputSoFar'
  <2>1. CASE UNCHANGED <<swindow, wptrL>> /\ sstate' # "WAIT_ON_EOF_ACK"
    <3>1. Counters'
      BY <1>1, <1>2, <2>1 DEF Counters, FileSent, ClientGone
    <3>2. SenderRing' /\ ReceiverRing' /\ OutputSoFar'
      BY <1>2, <2>1, ServerFrame
    <3> QED
      BY <1>1, <1>2, <2>1, <3>1, <3>2, StillAdvance
  <2>2. CASE UNCHANGED <<swindow, wptrL>> /\ sstate' = "WAIT_ON_EOF_ACK"
    <3>1. FileSent /\ expSeqNum > NumChunks
      <4>1. CASE sstate = "WAIT_ON_EOF_ACK"
        BY <4>1 DEF Counters
      <4>2. CASE sstate # "WAIT_ON_EOF_ACK"
        <5>1. /\ toServer[i].flag = "ACK" /\ toServer[i].seq = seqNum
              /\ sstate = "WAIT_LAST_RR"
          BY <1>2, <2>2, <4>2
        <5>2. seqNum <= expSeqNum
          BY <1>3, <5>1 DEF GoodToServer
        <5> QED
          BY <5>1, <5>2, Numbers DEF Counters, FileSent
      <4> QED
        BY <4>1, <4>2
    <3>2. Counters'
      BY <1>1, <1>2, <2>2, <3>1 DEF Counters, FileSent, ClientGone
    <3>3. SenderRing' /\ ReceiverRing' /\ OutputSoFar'
      BY <1>2, <2>2, ServerFrame
    <3> QED
      BY <1>1, <1>2, <2>2, <3>2, <3>3, StillAdvance
  <2>3. CASE toServer[i].flag = "ACK" /\ Acknowledge(toServer[i].seq)
             /\ sstate' \in {"CHECK_WINDOW", "WAIT_LAST_RR"}
    <3>1. wptrL <= toServer[i].seq /\ toServer[i].seq <= expSeqNum
      BY <1>3, <2>3 DEF GoodToServer
    <3>2. wptrL' = toServer[i].seq
      BY <2>3 DEF Acknowledge
    <3>3. SenderRing'
      BY <1>2, <1>3, <2>3, <3>1, AcknowledgeRing
    <3>4. Counters'
      BY <1>1, <1>2, <1>3, <2>3, <3>1, <3>2, Numbers
      DEF Counters, FileSent, ClientGone
    <3>5. ReceiverRing' /\ OutputSoFar'
      BY <1>1, <1>2, <2>3 DEF ReceiverRing, OutputSoFar
    <3>6. Advance
      BY <1>1, <1>2, <1>3, <2>3, <3>1, <3>2, Numbers DEF Advance, FileSent
    <3> QED
      BY <3>3, <3>4, <3>5, <3>6
  <2> QED
    BY <1>2, <2>1, <2>2, <2>3
<1>5. ToServerGood' /\ AcksInOrder'
  <2>1. \/ wptrL' = wptrL
        \/ toServer[i].flag \in AckFlags /\ wptrL' = toServer[i].seq
    BY <1>2 DEF Acknowledge, AckFlags
  <2> QED
    BY <1>2, <1>4, <2>1, ToServerRead
<1>6. ToClientGood'
  <2>1. CASE toServer[i].flag = "FSREJ" /\ resend(toServer[i].seq)
    <3>1. PICK p \in Packets : GoodToClient(p) /\ SendToClient(p)
      <4>1. wptrL <= toServer[i].seq /\ toServer[i].seq < seqNum
        BY <1>3, <2>1 DEF GoodToServer
      <4>2. /\ Resent(toServer[i].seq) \in Packets
            /\ GoodToClient(Resent(toServer[i].seq))
        BY <1>3, <4>1, ResendGood
      <4> QED
        BY <2>1, <4>2 DEF resend
    <3>2. GoodToClient(p)'
      BY <1>4, <3>1, ToClientStays
    <3> QED
      BY <1>4, <3>1, <3>2, SendToClientEffect, ToClientSent DEF TypeOK
  <2>2. CASE SendToClient(Packet("END_OF_FILE", seqNum, NoData))
             /\ sstate' = "WAIT_ON_EOF_ACK"
    <3>1. PICK p \in Packets : /\ p = Packet("END_OF_FILE", seqNum, NoData)
                               /\ p.flag = "END_OF_FILE"
      BY PacketType, Numbers DEF Flags
    <3>2. GoodToClient(p)'
      BY <1>4, <2>2, <3>1 DEF GoodToClient, Counters
    <3> QED
      BY <1>4, <2>2, <3>1, <3>2, SendToClientEffect, ToClientSent DEF TypeOK
  <2>3. CASE UNCHANGED toClient
    BY <1>4, <2>3, ToClientKept
  <2> QED
    BY <1>2, <2>1, <2>2, <2>3
<1> QED
  BY <1>4, <1>5, <1>6

-----------------------------------------------------------------------------
(* The client's steps. *)

\* A received packet leaves only packets that were there before.
LEMMA RemoveKeeps ==
  ASSUME NEW ch \in Seq(Packets), NEW i \in 1 .. Len(ch)
  PROVE  \A j \in 1 .. Len(RemoveAt(ch, i)) :
            \E k \in 1 .. Len(ch) : RemoveAt(ch, i)[j] = ch[k]
<1> SUFFICES ASSUME NEW j \in 1 .. Len(RemoveAt(ch, i))
             PROVE  \E k \in 1 .. Len(ch) : RemoveAt(ch, i)[j] = ch[k]
  OBVIOUS
<1> DEFINE k == IF j < i THEN j ELSE j + 1
<1>1. j \in 1 .. Len(ch) - 1 /\ Len(ch) \in Nat
  BY RemoveEffect, LenProperties
<1>2. k \in 1 .. Len(ch)
  BY <1>1
<1>3. RemoveAt(ch, i)[j] = ch[k]
  BY <1>1, RemoveEffect
<1> QED
  BY <1>2, <1>3

\* A client step that sends nothing and moves none of its numbers.
LEMMA ClientQuiet ==
  ASSUME IInv, TypeInv', UNCHANGED serverVars, UNCHANGED toServer,
         \/ ReadFilenameReply \/ FilenameTimeout \/ FilenameGiveUp
         \/ OpenOutput \/ ServerGone
  PROVE  IInv' /\ Advance
<1> USE DEF IInv, TypeInv
<1>1. UNCHANGED <<sstate, swindow, wptrL, seqNum, fileOff>>
  BY DEF serverVars
<1>2. /\ UNCHANGED <<expSeqNum, cwindow, toServer>>
      /\ cstate \in {"FILENAME", "FILE_OK", "RECV_DATA"}
      /\ cstate' = "FILE_OK" => cstate = "FILENAME"
      /\ cstate' \notin {"FILENAME", "CHECK_BUFFER"}
      /\ outcome' # "eof"
      /\ cstate' \notin {"DONE", "START_STATE"} => outcome' = outcome
      /\ \/ UNCHANGED output
         \/ output' = << >> /\ cstate = "FILE_OK"
  BY DEF ReadFilenameReply, FilenameTimeout, FilenameGiveUp, OpenOutput,
         ServerGone, ClientLeaves, Counters, ClientGone, netVars
<1>3. Advance
  BY <1>1, <1>2, StillAdvance
<1>4. Counters'
  BY <1>1, <1>2 DEF Counters, FileSent, ClientGone
<1>5. SenderRing' /\ ReceiverRing'
  BY <1>1, <1>2 DEF SenderRing, ReceiverRing
<1>6. OutputSoFar'
  <2>1. CASE UNCHANGED output
    BY <1>2, <2>1 DEF OutputSoFar
  <2>2. CASE output' = << >> /\ cstate = "FILE_OK"
    <3>1. expSeqNum = 1
      BY <2>2 DEF Counters
    <3>2. Len(output') = 0
      BY <2>2
    <3> QED
      BY <1>2, <3>1, <3>2, NetAssumption DEF OutputSoFar
  <2> QED
    BY <1>2, <2>1, <2>2
<1>7. \A j \in 1 .. Len(toClient') :
         \E k \in 1 .. Len(toClient) : toClient'[j] = toClient[k]
  <2>1. CASE UNCHANGED toClient
    BY <2>1
  <2>2. CASE \E i \in ToClientReadable : toClient' = RemoveAt(toClient, i)
    <3>1. PICK i \in 1 .. Len(toClient) : toClient' = RemoveAt(toClient, i)
      BY <2>2, ReadByClient DEF TypeOK
    <3> QED
      BY <3>1, RemoveKeeps DEF TypeOK
  <2> QED
    BY <2>1, <2>2 DEF ReadFilenameReply, FilenameTimeout, FilenameGiveUp,
                      OpenOutput, ServerGone, netVars
<1>8. ToClientGood'
  BY <1>3, <1>7, ToClientKept
<1>9. ToServerGood' /\ AcksInOrder'
  BY <1>1, <1>2, <1>3, ToServerKept
<1> QED
  BY <1>3, <1>4, <1>5, <1>6, <1>8, <1>9

\* A received packet leaves the others where they were.
LEMMA ClientReads ==
  ASSUME TypeOK, ToClientGood, NEW i \in ToClientReadable,
         toClient' = RemoveAt(toClient, i)
  PROVE  /\ toClient[i] \in Packets /\ GoodToClient(toClient[i])
         /\ toClient[i].seq \in Nat
         /\ \A j \in 1 .. Len(toClient') :
               \E k \in 1 .. Len(toClient) : toClient'[j] = toClient[k]
<1>1. i \in 1 .. Len(toClient) /\ toClient[i] \in Packets
  BY ReadByClient DEF TypeOK
<1>2. \A j \in 1 .. Len(toClient') :
         \E k \in 1 .. Len(toClient) : toClient'[j] = toClient[k]
  BY <1>1, RemoveKeeps DEF TypeOK
<1> QED
  BY <1>1, <1>2 DEF ToClientGood, Packets

\* A number that steps up by one, to one the server has sent or past the end
\* of the file.
LEMMA StepUpAdvance ==
  ASSUME TypeOK, UNCHANGED serverVars, expSeqNum' \in {expSeqNum, expSeqNum + 1}
  PROVE  Advance
  BY DEF Advance, serverVars, TypeOK, ServerTypeOK, ClientTypeOK

\* recv_data(): a corrupted packet or one already received.
LEMMA ClientRecvOld ==
  ASSUME IInv, TypeInv', UNCHANGED serverVars, cstate = "RECV_DATA",
         NEW i \in ToClientReadable, toClient' = RemoveAt(toClient, i),
         RecvCorrupted(toClient[i]) \/ RecvOld(toClient[i])
  PROVE  IInv' /\ Advance
<1> USE DEF IInv, TypeInv
<1>1. UNCHANGED <<sstate, swindow, wptrL, seqNum, fileOff>>
  BY DEF serverVars
<1>2. UNCHANGED <<cstate, expSeqNum, cwindow, output, outcome>>
  BY DEF RecvCorrupted, RecvOld
<1>3. Advance
  BY <1>2, StepUpAdvance
<1>4. Counters' /\ SenderRing' /\ ReceiverRing' /\ OutputSoFar'
  BY <1>1, <1>2
  DEF Counters, FileSent, ClientGone, SenderRing, ReceiverRing, OutputSoFar
<1>5. ToClientGood'
  BY <1>3, ClientReads, ToClientKept
<1>6. ToServerGood' /\ AcksInOrder'
  <2>1. CASE RecvCorrupted(toClient[i])
    BY <1>1, <1>3, <2>1, ToServerKept DEF RecvCorrupted
  <2>2. CASE RecvOld(toClient[i])
    <3>1. PICK p \in Packets : /\ p = Packet("ACK", expSeqNum, NoData)
                               /\ p.flag = "ACK" /\ p.seq = expSeqNum
      BY PacketType, Numbers DEF Flags
    <3>2. GoodToServer(p)'
      BY <1>1, <1>2, <3>1, Numbers DEF GoodToServer
    <3>3. SentOn(toServer, toServer', p)
      BY <2>2, <3>1, SendToServerEffect DEF RecvOld, TypeOK
    <3> QED
      BY <1>1, <1>3, <3>1, <3>2, <3>3, Numbers, ToServerSent
  <2> QED
    BY <2>1, <2>2
<1> QED
  BY <1>3, <1>4, <1>5, <1>6

\* recv_data(): END_OF_FILE.
LEMMA ClientRecvEof ==
  ASSUME IInv, TypeInv', UNCHANGED serverVars, cstate = "RECV_DATA",
         NEW i \in ToClientReadable, toClient' = RemoveAt(toClient, i),
         RecvEof(toClient[i])
  PROVE  IInv' /\ Advance
<1> USE DEF IInv, TypeInv
<1>1. UNCHANGED <<sstate, swindow, wptrL, seqNum, fileOff>>
  BY DEF serverVars
<1>2. /\ expSeqNum' = expSeqNum + 1 /\ cstate' = "DONE" /\ outcome' = "eof"
      /\ UNCHANGED <<cwindow, output>>
      /\ SendToServer(Packet("EOF_ACK", expSeqNum + 1, NoData))
  BY DEF RecvEof, ClientLeaves
<1>3. expSeqNum > NumChunks /\ sstate \in {"WAIT_ON_EOF_ACK", "DONE"}
  BY ClientReads DEF RecvEof, GoodToClient
<1>4. Advance
  BY <1>2, StepUpAdvance
<1>5. Counters'
  BY <1>1, <1>2, <1>3, Numbers DEF Counters, FileSent, ClientGone
<1>6. SenderRing'
  BY <1>1 DEF SenderRing
<1>7. ReceiverRing' /\ OutputSoFar'
  BY <1>1, <1>2, <1>3, Numbers DEF ReceiverRing, OutputSoFar
<1>8. ToClientGood'
  BY <1>4, ClientReads, ToClientKept
<1>9. ToServerGood' /\ AcksInOrder'
  <2>1. PICK p \in Packets : /\ p = Packet("EOF_ACK", expSeqNum + 1, NoData)
                             /\ p.flag = "EOF_ACK"
    BY PacketType, Numbers DEF Flags
  <2>2. GoodToServer(p)'
    BY <1>1, <1>3, <2>1 DEF GoodToServer
  <2>3. SentOn(toServer, toServer', p)
    BY <1>2, <2>1, SendToServerEffect DEF TypeOK
  <2> QED
    BY <1>1, <1>4, <2>1, <2>2, <2>3, ToServerSent DEF AckFlags
<1> QED
  BY <1>4, <1>5, <1>6, <1>7, <1>8, <1>9

\* A write() of the chunk expected.
LEMMA WriteNext ==
  ASSUME TypeOK, Counters, OutputSoFar, expSeqNum < seqNum,
         expSeqNum' = expSeqNum + 1, output' = Append(output, expSeqNum)
  PROVE  OutputSoFar'
<1>1. output \in Seq(Chunks) /\ Len(output) \in Nat
  BY LenProperties DEF TypeOK, ClientTypeOK
<1>2. expSeqNum \in Chunks /\ expSeqNum <= NumChunks
  BY Numbers DEF Chunks
<1>3. Len(output) = expSeqNum - 1
  BY <1>2 DEF OutputSoFar
<1>4. /\ Len(output') = expSeqNum
      /\ \A k \in 1 .. Len(output) : output'[k] = output[k]
      /\ output'[Len(output) + 1] = expSeqNum
  BY <1>1, <1>2, <1>3, AppendProperties, Numbers
<1>5. \A k \in 1 .. Len(output') : output'[k] = k
  BY <1>1, <1>3, <1>4, Numbers DEF OutputSoFar
<1>6. Len(output') = IF expSeqNum' <= NumChunks THEN expSeqNum' - 1 ELSE NumChunks
  BY <1>2, <1>4, Numbers
<1> QED
  BY <1>5, <1>6 DEF OutputSoFar

\* The packet expected carries the next chunk, or nothing when the file is
\* over.
LEMMA ExpectedData ==
  ASSUME IInv, NEW i \in ToClientReadable, toClient' = RemoveAt(toClient, i),
         RecvExpected(toClient[i])
  PROVE  \/ expSeqNum < seqNum /\ toClient[i].data = expSeqNum
         \/ FileSent /\ seqNum <= expSeqNum /\ toClient[i].data = NoData
<1> USE DEF IInv, TypeInv
<1>1. toClient[i].seq = expSeqNum /\ GoodToClient(toClient[i])
  BY ClientReads DEF RecvExpected
<1>2. toClient[i].flag = "DATA"
  BY <1>1, Numbers DEF GoodToClient, RecvExpected
<1> QED
  BY <1>1, <1>2, Numbers DEF GoodToClient

\* recv_data(): the packet expected.
LEMMA ClientRecvExpected ==
  ASSUME IInv, TypeInv', UNCHANGED serverVars, cstate = "RECV_DATA",
         NEW i \in ToClientReadable, toClient' = RemoveAt(toClient, i),
         RecvExpected(toClient[i])
  PROVE  IInv' /\ Advance
<1> USE DEF IInv, TypeInv
<1>1. UNCHANGED <<sstate, swindow, wptrL, seqNum, fileOff>>
  BY DEF serverVars
<1>2. /\ expSeqNum' = expSeqNum + 1 /\ cstate' = "CHECK_BUFFER"
      /\ UNCHANGED <<cwindow, outcome, toServer>>
      /\ output' = Written(toClient[i].data)
      /\ toClient[i].seq = expSeqNum
  BY DEF RecvExpected
<1>3. \/ expSeqNum < seqNum /\ toClient[i].data = expSeqNum
      \/ FileSent /\ seqNum <= expSeqNum /\ toClient[i].data = NoData
  BY ExpectedData
<1>4. Advance
  BY <1>2, StepUpAdvance
<1>5. Counters'
  BY <1>1, <1>2, <1>3, Numbers DEF Counters, FileSent, ClientGone
<1>6. SenderRing'
  BY <1>1 DEF SenderRing
<1>7. ReceiverRing'
  BY <1>1, <1>2, Numbers DEF ReceiverRing
<1>8. OutputSoFar'
  <2>2. CASE expSeqNum < seqNum /\ toClient[i].data = expSeqNum
    <3>1. expSeqNum # NoData
      BY Numbers DEF NoData
    <3>2. output' = Append(output, expSeqNum)
      BY <1>2, <2>2, <3>1 DEF Written
    <3> QED
      BY <1>2, <2>2, <3>2, WriteNext
  <2>3. CASE FileSent /\ seqNum <= expSeqNum /\ toClient[i].data = NoData
    <3>1. output' = output
      BY <1>2, <2>3 DEF Written
    <3> QED
      BY <1>2, <2>3, <3>1, Numbers DEF OutputSoFar, FileSent
  <2> QED
    BY <1>3, <2>2, <2>3
<1>9. ToClientGood'
  BY <1>4, ClientReads, ToClientKept
<1>10. ToServerGood' /\ AcksInOrder'
  BY <1>1, <1>2, <1>4, ToServerKept
<1> QED
  BY <1>4, <1>5, <1>6, <1>7, <1>8, <1>9, <1>10

\* recv_data(): a packet ahead of the one expected.
LEMMA ClientRecvAhead ==
  ASSUME IInv, TypeInv', UNCHANGED serverVars, cstate = "RECV_DATA",
         NEW i \in ToClientReadable, toClient' = RemoveAt(toClient, i),
         RecvAhead(toClient[i])
  PROVE  IInv' /\ Advance
<1> USE DEF IInv, TypeInv
<1> DEFINE s == toClient[i].seq
<1>1. UNCHANGED <<sstate, swindow, wptrL, seqNum, fileOff>>
  BY DEF serverVars
<1>2. /\ UNCHANGED <<cstate, expSeqNum, output, outcome>>
      /\ cwindow' = addElement(cwindow, s, toClient[i].data)
      /\ s > expSeqNum
  BY DEF RecvAhead
<1>3. s \in Nat /\ s < seqNum /\ s < expSeqNum + WindowSize /\ toClient[i].data = s
  <2>1. /\ toClient[i] \in Packets /\ GoodToClient(toClient[i])
        /\ toClient[i].flag \notin {"CRC_ERROR", "END_OF_FILE"}
        /\ s \in Nat
    BY ClientReads DEF RecvAhead
  <2>2. toClient[i].flag = "DATA"
    BY <1>2, <2>1, Numbers DEF GoodToClient
  <2>3. ~ (FileSent /\ seqNum <= s /\ s <= wptrL)
    BY <1>2, <2>1, Numbers DEF Counters
  <2>4. s < wptrL + WindowSize /\ s < seqNum /\ toClient[i].data = s
    BY <2>1, <2>2, <2>3 DEF GoodToClient
  <2> QED
    BY <2>1, <2>4, Numbers DEF Counters
<1> HIDE DEF s
<1>4. Advance
  BY <1>2, StepUpAdvance
<1>5. Counters' /\ SenderRing' /\ OutputSoFar'
  BY <1>1, <1>2 DEF Counters, FileSent, ClientGone, SenderRing, OutputSoFar
<1>6. ReceiverRing'
  <2>1. \A k \in Slots : cwindow'[k] = IF k = Index(s) THEN s ELSE cwindow[k]
    BY <1>2, <1>3 DEF addElement, TypeOK, ClientTypeOK
  <2>2. s \in expSeqNum .. seqNum - 1 /\ s # expSeqNum
    BY <1>2, <1>3, Numbers
  <2> QED
    BY <1>1, <1>2, <1>3, <2>1, <2>2 DEF ReceiverRing
<1>7. ToClientGood'
  BY <1>4, ClientReads, ToClientKept
<1>8. ToServerGood' /\ AcksInOrder'
  <2>1. CASE UNCHANGED toServer
    BY <1>1, <1>4, <2>1, ToServerKept
  <2>2. CASE SendToServer(Packet("FSREJ", expSeqNum, NoData))
    <3>1. PICK p \in Packets : /\ p = Packet("FSREJ", expSeqNum, NoData)
                               /\ p.flag = "FSREJ" /\ p.seq = expSeqNum
      BY PacketType, Numbers DEF Flags
    <3>2. GoodToServer(p)'
      BY <1>1, <1>2, <1>3, <3>1, Numbers DEF GoodToServer
    <3>3. SentOn(toServer, toServer', p)
      BY <2>2, <3>1, SendToServerEffect DEF TypeOK
    <3> QED
      BY <1>1, <1>4, <3>1, <3>2, <3>3, Numbers, ToServerSent
  <2> QED
    BY <2>1, <2>2 DEF RecvAhead
<1> QED
  BY <1>4, <1>5, <1>6, <1>7, <1>8

\* check_buffer(): the answer, ACK or FSREJ.
LEMMA ClientAnswer ==
  ASSUME IInv, TypeInv', UNCHANGED serverVars, AckAll \/ RejectHole
  PROVE  IInv' /\ Advance
<1> USE DEF IInv, TypeInv
<1>1. UNCHANGED <<sstate, swindow, wptrL, seqNum, fileOff>>
  BY DEF serverVars
<1>2. /\ UNCHANGED <<expSeqNum, cwindow, output, outcome, toClient>>
      /\ cstate = "CHECK_BUFFER" /\ cstate' = "RECV_DATA"
  BY DEF AckAll, RejectHole
<1>3. Advance
  BY <1>2, StepUpAdvance
<1>4. Counters' /\ SenderRing' /\ OutputSoFar'
  BY <1>1, <1>2 DEF Counters, FileSent, ClientGone, SenderRing, OutputSoFar
<1>5. ReceiverRing'
  <2>1. \A k \in Slots : cwindow[k] # EMPTY => cwindow[k] # expSeqNum
    <3>1. CASE AckAll
      BY <3>1 DEF AckAll, isWindowEmpty
    <3>2. CASE RejectHole
      BY <3>2 DEF RejectHole, isEmptySpot, ReceiverRing
    <3> QED
      BY <3>1, <3>2
  <2> QED
    BY <1>1, <1>2, <2>1 DEF ReceiverRing
<1>6. ToClientGood'
  BY <1>2, <1>3, ToClientKept
<1>7. ToServerGood' /\ AcksInOrder'
  <2>1. PICK f \in {"ACK", "FSREJ"} :
          /\ SendToServer(Packet(f, expSeqNum, NoData))
          /\ f = "FSREJ" => RejectHole
    BY DEF AckAll, RejectHole
  <2>2. f = "FSREJ" => expSeqNum < seqNum
    <3>1. SUFFICES ASSUME RejectHole PROVE expSeqNum < seqNum
      BY <2>1
    <3>2. PICK k \in Slots : cwindow[k] # EMPTY
      BY <3>1 DEF RejectHole, isWindowEmpty
    <3> QED
      BY <3>2, Numbers DEF ReceiverRing
  <2>3. PICK p \in Packets : /\ p = Packet(f, expSeqNum, NoData)
                             /\ p.flag = f /\ p.seq = expSeqNum
    BY PacketType, Numbers DEF Flags
  <2>4. GoodToServer(p)'
    BY <1>1, <1>2, <2>2, <2>3, Numbers DEF GoodToServer
  <2>5. SentOn(toServer, toServer', p)
    BY <2>1, <2>3, SendToServerEffect DEF TypeOK
  <2> QED
    BY <1>1, <1>3, <2>3, <2>4, <2>5, Numbers, ToServerSent
<1> QED
  BY <1>3, <1>4, <1>5, <1>6, <1>7

\* What check_buffer() finds in the slot of the packet expected is its chunk.
LEMMA DrainedData ==
  ASSUME IInv, cwindow[Index(expSeqNum)] # EMPTY
  PROVE  cwindow[Index(expSeqNum)] = expSeqNum /\ expSeqNum < seqNum
<1> USE DEF IInv, TypeInv
<1> DEFINE v == cwindow[Index(expSeqNum)]
<1>1. Index(expSeqNum) \in Slots
  BY Numbers, IndexInSlots
<1>2. /\ v \in expSeqNum .. seqNum - 1 /\ v < expSeqNum + WindowSize
      /\ Index(v) = Index(expSeqNum)
  BY <1>1 DEF ReceiverRing
<1> HIDE DEF v
<1>3. /\ v \in Int /\ expSeqNum \in Int
      /\ v - expSeqNum < WindowSize /\ expSeqNum - v < WindowSize
  BY <1>2, Numbers
<1>4. v = expSeqNum
  BY <1>2, <1>3, IndexInjective
<1> QED
  BY <1>2, <1>4, Numbers DEF v

\* check_buffer(): one chunk out of the ring.
LEMMA ClientDrain ==
  ASSUME IInv, TypeInv', UNCHANGED serverVars, DrainOne
  PROVE  IInv' /\ Advance
<1> USE DEF IInv, TypeInv
<1>1. UNCHANGED <<sstate, swindow, wptrL, seqNum, fileOff>>
  BY DEF serverVars
<1>2. /\ UNCHANGED <<cstate, outcome, toClient, toServer>>
      /\ cstate = "CHECK_BUFFER"
      /\ expSeqNum' = expSeqNum + 1
      /\ output' = Written(cwindow[Index(expSeqNum)])
      /\ cwindow' = deleteElement(cwindow, expSeqNum)
      /\ cwindow[Index(expSeqNum)] # EMPTY
  BY DEF DrainOne, getElement, isEmptySpot, netVars
<1>3. cwindow[Index(expSeqNum)] = expSeqNum /\ expSeqNum < seqNum
  BY <1>2, DrainedData
<1>4. Advance
  BY <1>2, StepUpAdvance
<1>5. Counters'
  BY <1>1, <1>2, <1>3, Numbers DEF Counters, FileSent, ClientGone
<1>6. SenderRing'
  BY <1>1 DEF SenderRing
<1>7. ReceiverRing'
  <2>1. \A k \in Slots :
           cwindow'[k] = IF k = Index(expSeqNum) THEN EMPTY ELSE cwindow[k]
    BY <1>2 DEF deleteElement, TypeOK, ClientTypeOK
  <2> SUFFICES ASSUME NEW k \in Slots, cwindow'[k] # EMPTY
               PROVE  /\ cwindow'[k] \in expSeqNum + 1 .. seqNum - 1
                      /\ cwindow'[k] < expSeqNum + 1 + WindowSize
                      /\ Index(cwindow'[k]) = k
    BY <1>1, <1>2 DEF ReceiverRing
  <2>2. k # Index(expSeqNum) /\ cwindow'[k] = cwindow[k]
    BY <2>1
  <2> QED
    BY <2>2, Numbers DEF ReceiverRing
<1>8. OutputSoFar'
  <2>1. expSeqNum # NoData
    BY Numbers DEF NoData
  <2>2. output' = Append(output, expSeqNum)
    BY <1>2, <1>3, <2>1 DEF Written
  <2> QED
    BY <1>2, <1>3, <2>2, WriteNext
<1>9. ToClientGood'
  BY <1>2, <1>4, ToClientKept
<1>10. ToServerGood' /\ AcksInOrder'
  BY <1>1, <1>2, <1>4, ToServerKept
<1> QED
  BY <1>4, <1>5, <1>6, <1>7, <1>8, <1>9, <1>10

-----------------------------------------------------------------------------
(* The theorems. *)

\* The invariant holds at the start.
LEMMA InvInit == Init => IInv
<1> SUFFICES ASSUME Init PROVE IInv
  OBVIOUS
<1>1. TypeInv
  BY TypeInit
<1>2. Counters
  BY WindowSizeAssumption, NetAssumption
  DEF Init, ServerInit, ClientInit, Counters, FileSent, ClientGone
<1>3. SenderRing
  BY DEF Init, ServerInit, SenderRing, createWindow
<1>4. ReceiverRing
  BY DEF Init, ClientInit, ReceiverRing, createWindow
<1>5. OutputSoFar
  BY NetAssumption DEF Init, ClientInit, OutputSoFar
<1>6. ToClientGood /\ ToServerGood /\ AcksInOrder
  BY DEF Init, NetInit, ToClientGood, ToServerGood, AcksInOrder
<1> QED
  BY <1>1, <1>2, <1>3, <1>4, <1>5, <1>6 DEF IInv

\* Every step keeps the invariant, and every number only grows.
LEMMA InvStep ==
  ASSUME AckReorder = FALSE, IInv, [Next]_vars
  PROVE  IInv' /\ Advance
<1>1. TypeInv'
  BY TypeStep DEF IInv
<1>2. CASE ServerStep /\ UNCHANGED clientVars
  BY <1>1, <1>2, ServerQuiet, ServerFilename, ServerSendChunk, ServerRead
  DEF ServerStep, WindowFullGiveUp, LastRrGiveUp, EofAckGiveUp, SelectStates
<1>3. CASE ServerTimeout /\ UNCHANGED clientVars
  BY <1>1, <1>3, ServerRetransmit
<1>4. CASE (ClientStep \/ FilenameTimeout \/ ServerGone) /\ UNCHANGED serverVars
  <2>1. CASE RecvData
    <3>1. cstate = "RECV_DATA"
      BY <2>1 DEF RecvData
    <3>2. PICK i \in ToClientReadable :
            /\ toClient' = RemoveAt(toClient, i)
            /\ \/ RecvCorrupted(toClient[i])
               \/ RecvEof(toClient[i])
               \/ RecvOld(toClient[i])
               \/ RecvExpected(toClient[i])
               \/ RecvAhead(toClient[i])
      BY <2>1 DEF RecvData
    <3> QED
      BY <1>1, <1>4, <3>1, <3>2, ClientRecvOld, ClientRecvEof,
         ClientRecvExpected, ClientRecvAhead
  <2>2. CASE \/ ReadFilenameReply \/ FilenameTimeout \/ FilenameGiveUp
             \/ OpenOutput \/ ServerGone
    <3>1. UNCHANGED toServer
      BY <2>2 DEF ReadFilenameReply, FilenameTimeout, FilenameGiveUp,
                  OpenOutput, ServerGone, netVars
    <3> QED
      BY <1>1, <1>4, <2>2, <3>1, ClientQuiet
  <2>3. CASE AckAll \/ RejectHole
    BY <1>1, <1>4, <2>3, ClientAnswer
  <2>4. CASE DrainOne
    BY <1>1, <1>4, <2>4, ClientDrain
  <2> QED
    BY <1>4, <2>1, <2>2, <2>3, <2>4 DEF ClientStep
<1>5. CASE UNCHANGED vars
  <2> USE DEF IInv, TypeInv
  <2>1. /\ UNCHANGED <<clientVars, swindow, wptrL, seqNum, fileOff, sstate>>
        /\ UNCHANGED <<expSeqNum, toClient, toServer, cstate, outcome>>
    BY <1>5 DEF vars, serverVars, clientVars, netVars
  <2>2. Advance
    BY <2>1, StillAdvance
  <2>3. Counters'
    BY <2>1 DEF Counters, FileSent, ClientGone
  <2> QED
    BY <1>1, <2>1, <2>2, <2>3, ServerFrame, ToClientKept, ToServerKept
<1> QED
  BY <1>2, <1>3, <1>4, <1>5
  DEF Next, ServerNext, ServerSelectExpires, ClientNext, FilenameSelectExpires,
      RecvSelectExpires, Finished

\* What others than the two processes of a conversation may do to it: use up
\* faults, and make rcopy give up before it starts another.
LEMMA InvOutside ==
  ASSUME IInv, faults' \in 0 .. MaxFaults,
         UNCHANGED <<serverVars, toServer, toClient>>,
         UNCHANGED <<expSeqNum, srejFg, cwindow, output, nameTries>>,
         \/ UNCHANGED <<cstate, outcome>>
         \/ cstate = "START_STATE" /\ ClientLeaves("DONE", "no_server")
  PROVE  IInv'
<1> USE DEF IInv, TypeInv, serverVars
<1>1. TypeInv'
  BY DEF TypeOK, ServerTypeOK, ClientTypeOK, ClientStates, Outcomes, Tries,
         ClientLeaves
<1>2. Counters'
  BY DEF Counters, FileSent, ClientGone, ClientLeaves
<1>3. SenderRing' /\ OutputSoFar'
  BY DEF SenderRing, OutputSoFar
<1>4. ReceiverRing'
  BY DEF ReceiverRing, ClientLeaves
<1>5. Advance
  BY StillAdvance
<1>6. ToClientGood'
  BY <1>1, <1>5, ToClientKept
<1>7. ToServerGood' /\ AcksInOrder'
  BY <1>1, <1>5, ToServerKept
<1> QED
  BY <1>1, <1>2, <1>3, <1>4, <1>6, <1>7

\* A new conversation may begin at any time, whatever faults there were.
LEMMA InvAgain ==
  ASSUME ServerInit', ClientInit', faults' \in 0 .. MaxFaults,
         toServer' = << >>, toClient' = << >>
  PROVE  IInv'
<1>1. TypeInv'
  <2>1. createWindow \in [Slots -> Chunks \cup {NoData, EMPTY}]
    BY CreateType DEF WindowType
  <2>2. << >> \in Seq(Packets) /\ << >> \in Seq(Chunks)
    BY EmptySeq
  <2>3. srejFg' \in BOOLEAN
    BY Zenon DEF ClientInit
  <2> QED
    BY <2>1, <2>2, <2>3, NetAssumption
    DEF ServerInit, ClientInit, TypeInv, TypeOK, ServerTypeOK, ClientTypeOK,
        Tries, ServerStates, SelectStates, ClientStates, Outcomes
<1>2. Counters'
  BY WindowSizeAssumption, NetAssumption
  DEF ServerInit, ClientInit, Counters, FileSent, ClientGone
<1>3. SenderRing'
  BY DEF ServerInit, SenderRing, createWindow
<1>4. ReceiverRing'
  BY DEF ClientInit, ReceiverRing, createWindow
<1>5. OutputSoFar'
  BY NetAssumption DEF ClientInit, OutputSoFar
<1>6. ToClientGood' /\ ToServerGood' /\ AcksInOrder'
  BY DEF ToClientGood, ToServerGood, AcksInOrder
<1> QED
  BY <1>1, <1>2, <1>3, <1>4, <1>5, <1>6 DEF IInv

\* What the invariant says of the file.
LEMMA InvImpliesSafety ==
  ASSUME IInv
  PROVE  /\ OutputIsPrefix
         /\ EofMeansComplete
         /\ FreedIsWritten
         /\ WindowHoldsUnacked
         /\ BufferedIsAhead
         /\ DataMatchesSeq
         /\ NoUnexpectedFlag
<1> USE DEF IInv, TypeInv
<1>1. DOMAIN output = 1 .. Len(output) /\ Len(output) \in Nat
  BY LenProperties DEF TypeOK, ClientTypeOK
<1>2. DOMAIN toClient = 1 .. Len(toClient) /\ DOMAIN toServer = 1 .. Len(toServer)
  BY LenProperties DEF TypeOK
<1>3. OutputIsPrefix
  BY <1>1 DEF OutputIsPrefix, OutputSoFar
<1>4. EofMeansComplete
  BY Numbers DEF EofMeansComplete, OutputSoFar, Counters
<1>5. FreedIsWritten
  BY <1>1, Numbers DEF FreedIsWritten, OutputSoFar, SenderRing, getElement
<1>6. WindowHoldsUnacked
  BY Numbers DEF WindowHoldsUnacked, SenderRing, getElement
<1>7. BufferedIsAhead
  <2> SUFFICES ASSUME NEW i \in Slots, ~ isEmptySpot(cwindow, i)
               PROVE  /\ cwindow[i] \in Chunks
                      /\ Index(cwindow[i]) = i
                      /\ cwindow[i] > Len(output)
                      /\ cwindow[i] < expSeqNum + WindowSize
    BY DEF BufferedIsAhead
  <2>1. Index(i) \in Slots /\ i \in Int /\ Index(i) = i
    <3>1. i \in Int /\ Index(i) \in Slots
      BY Numbers, IndexInSlots DEF Slots
    <3>2. PICK s \in i .. i + WindowSize - 1 : Index(s) = i
      BY <3>1, IndexSurjective
    <3>3. i < WindowSize /\ 0 <= i
      BY Numbers DEF Slots
    <3>4. i % WindowSize = i
      BY <3>1, <3>3, WindowSizeAssumption, Z3
    <3> QED
      BY <3>1, <3>4 DEF Index
  <2>2. cwindow[i] # EMPTY
    BY <2>1 DEF isEmptySpot
  <2>3. /\ cwindow[i] \in expSeqNum .. seqNum - 1
        /\ cwindow[i] < expSeqNum + WindowSize
        /\ Index(cwindow[i]) = i
    BY <2>2 DEF ReceiverRing
  <2>4. cwindow[i] \in Chunks
    BY <2>3, Numbers DEF Chunks
  <2>5. cwindow[i] > Len(output)
    BY <1>1, <2>3, Numbers DEF OutputSoFar
  <2> QED
    BY <2>3, <2>4, <2>5
<1>8. DataMatchesSeq
  <2> SUFFICES ASSUME NEW i \in 1 .. Len(toClient), toClient[i].flag = "DATA",
                      toClient[i].seq <= NumChunks
               PROVE  toClient[i].data = toClient[i].seq
    BY <1>2, LenProperties DEF DataMatchesSeq, TypeOK
  <2>1. toClient[i].seq \in Nat /\ GoodToClient(toClient[i])
    <3>1. toClient \in Seq(Packets)
      BY DEF TypeOK
    <3>2. toClient[i] \in Packets
      BY <3>1, ElementOfSeq
    <3> QED
      BY <3>2 DEF ToClientGood, Packets
  <2>2. ~ (FileSent /\ seqNum <= toClient[i].seq)
    BY <2>1, Numbers DEF FileSent
  <2> QED
    BY <2>1, <2>2 DEF GoodToClient
<1>9. NoUnexpectedFlag
  BY <1>2 DEF NoUnexpectedFlag, ToServerGood, GoodToServer
<1> QED
  BY <1>3, <1>4, <1>5, <1>6, <1>7, <1>8, <1>9

\* The invariant is one, for every window, file and fault budget.
THEOREM Invariance ==
  ASSUME AckReorder = FALSE
  PROVE  Spec => []IInv
<1>1. Init => IInv
  BY InvInit
<1>2. IInv /\ [Next]_vars => IInv'
  BY InvStep
<1> QED
  BY <1>1, <1>2, PTL DEF Spec

\* The copy is at all times a prefix of the file, and whole once rcopy leaves
\* through END_OF_FILE.
THEOREM CopyCorrect ==
  ASSUME AckReorder = FALSE
  PROVE  Spec => [](OutputIsPrefix /\ EofMeansComplete)
<1>1. IInv => OutputIsPrefix /\ EofMeansComplete
  BY InvImpliesSafety
<1> QED
  BY <1>1, Invariance, PTL

\* A slot of the sender's ring is never reused before its chunk is
\* acknowledged.
THEOREM SenderRingCorrect ==
  ASSUME AckReorder = FALSE
  PROVE  Spec => []WindowHoldsUnacked
<1>1. IInv => WindowHoldsUnacked
  BY InvImpliesSafety
<1> QED
  BY <1>1, Invariance, PTL

\* No slot is freed before rcopy has written its chunk: what the server can no
\* longer send again is in the file.
THEOREM FreedWasWritten ==
  ASSUME AckReorder = FALSE
  PROVE  Spec => []FreedIsWritten
<1>1. IInv => FreedIsWritten
  BY InvImpliesSafety
<1> QED
  BY <1>1, Invariance, PTL

\* The receiver's ring never mixes the chunks of two laps.
THEOREM ReceiverRingCorrect ==
  ASSUME AckReorder = FALSE
  PROVE  Spec => []BufferedIsAhead
<1>1. IInv => BufferedIsAhead
  BY InvImpliesSafety
<1> QED
  BY <1>1, Invariance, PTL

\* Every DATA packet carries the chunk of its number, and no packet comes in
\* a state that "should never" see it.
THEOREM PacketsCorrect ==
  ASSUME AckReorder = FALSE
  PROVE  Spec => [](DataMatchesSeq /\ NoUnexpectedFlag)
<1>1. IInv => DataMatchesSeq /\ NoUnexpectedFlag
  BY InvImpliesSafety
<1> QED
  BY <1>1, Invariance, PTL

\* The server's lower bound never goes back.
THEOREM LowerBoundNeverBack ==
  ASSUME AckReorder = FALSE
  PROVE  Spec => LowerBoundAdvances
<1>1. IInv /\ [Next]_vars => [wptrL' >= wptrL]_wptrL
  <2> SUFFICES ASSUME IInv, [Next]_vars PROVE wptrL' >= wptrL
    OBVIOUS
  <2>1. Advance /\ IInv'
    BY InvStep
  <2> QED
    BY <2>1 DEF Advance, IInv, TypeInv, TypeOK, ServerTypeOK
<1> QED
  BY <1>1, Invariance, PTL DEF Spec, LowerBoundAdvances

-----------------------------------------------------------------------------
(* The transfer implements FileCopy: what happens to the output file and to  *)
(* the exit status of rcopy is a behaviour of the abstract specification.    *)
(* Only four steps of the code are visible there: the two write() calls,     *)
(* recv_data() on END_OF_FILE, and the exits that print an error.            *)

\* What a write() does to the output file.
LEMMA WriteGrows ==
  ASSUME IInv, cstate \in {"RECV_DATA", "CHECK_BUFFER"}, UNCHANGED outcome,
         NEW chunk, output' = Written(chunk),
         \/ chunk = expSeqNum /\ expSeqNum < seqNum
         \/ chunk = NoData
  PROVE  Copy!Grow \/ UNCHANGED <<output, CopyStatus>>
<1> USE DEF IInv, TypeInv
<1>1. UNCHANGED CopyStatus
  BY DEF CopyStatus
<1>2. CASE chunk = NoData
  BY <1>1, <1>2 DEF Written
<1>3. CASE chunk = expSeqNum /\ expSeqNum < seqNum
  <2>1. outcome = "running"
    BY DEF Counters, ClientGone
  <2>2. CopyStatus = "copying"
    BY <2>1 DEF CopyStatus
  <2>3. expSeqNum <= NumChunks /\ expSeqNum # NoData
    BY <1>3, Numbers DEF NoData
  <2>4. Len(output) = expSeqNum - 1
    BY <2>3 DEF OutputSoFar
  <2>5. output' = Append(output, Len(output) + 1) /\ Len(output) < NumChunks
    BY <1>3, <2>3, <2>4, Numbers DEF Written
  <2> QED
    BY <1>1, <2>2, <2>5 DEF Copy!Grow
<1> QED
  BY <1>2, <1>3

\* The exits that report a failure, and the steps that only open the file.
LEMMA LeaveFails ==
  ASSUME IInv, ~ ClientGone, UNCHANGED output,
         outcome' \in Outcomes \ {"running", "eof"}
  PROVE  Copy!Fail
<1>1. outcome = "running"
  BY DEF IInv, Counters
<1>2. CopyStatus = "copying" /\ CopyStatus' = "failed"
  BY <1>1 DEF CopyStatus, Outcomes
<1> QED
  BY <1>2 DEF Copy!Fail

\* END_OF_FILE is believed only when the file is whole.
LEMMA EofReports ==
  ASSUME IInv, cstate = "RECV_DATA",
         NEW i \in ToClientReadable, toClient' = RemoveAt(toClient, i),
         RecvEof(toClient[i])
  PROVE  Copy!Report
<1> USE DEF IInv, TypeInv
<1>1. outcome = "running" /\ outcome' = "eof" /\ UNCHANGED output
  BY DEF Counters, ClientGone, RecvEof, ClientLeaves
<1>2. CopyStatus = "copying" /\ CopyStatus' = "done"
  BY <1>1 DEF CopyStatus
<1>3. expSeqNum > NumChunks
  BY ClientReads DEF RecvEof, GoodToClient
<1>4. Len(output) = NumChunks
  BY <1>3, Numbers DEF OutputSoFar
<1> QED
  BY <1>1, <1>2, <1>4 DEF Copy!Report

\* O_TRUNC finds the output file empty: nothing was written before.
LEMMA OpenIsQuiet ==
  ASSUME IInv, OpenOutput
  PROVE  Copy!Fail \/ UNCHANGED <<output, CopyStatus>>
<1> USE DEF IInv, TypeInv
<1>1. cstate = "FILE_OK" /\ ~ ClientGone
  BY DEF OpenOutput, ClientGone
<1>2. CASE outcome' = "open_error" /\ UNCHANGED output
  BY <1>1, <1>2, LeaveFails DEF Outcomes
<1>3. CASE output' = << >> /\ UNCHANGED outcome
  <2>1. expSeqNum = 1
    BY <1>1 DEF Counters
  <2>2. Len(output) = 0
    BY <2>1, Numbers DEF OutputSoFar
  <2>3. output = << >>
    BY <2>2, EmptySeq DEF TypeOK, ClientTypeOK
  <2> QED
    BY <1>3, <2>3 DEF CopyStatus
<1> QED
  BY <1>2, <1>3 DEF OpenOutput, ClientLeaves

\* Every step is a step of the copy, or leaves file and status alone.
LEMMA CopyStep ==
  ASSUME IInv, [Next]_vars
  PROVE  [Copy!Next]_(Copy!copyVars)
<1> SUFFICES Copy!Next \/ UNCHANGED <<output, CopyStatus>>
  BY DEF Copy!copyVars
<1>1. CASE UNCHANGED <<output, outcome>>
  BY <1>1 DEF CopyStatus
<1>2. CASE RecvData
  <2>1. cstate = "RECV_DATA"
    BY <1>2 DEF RecvData
  <2>2. PICK i \in ToClientReadable :
          /\ toClient' = RemoveAt(toClient, i)
          /\ \/ RecvCorrupted(toClient[i])
             \/ RecvEof(toClient[i])
             \/ RecvOld(toClient[i])
             \/ RecvExpected(toClient[i])
             \/ RecvAhead(toClient[i])
    BY <1>2 DEF RecvData
  <2>3. CASE RecvEof(toClient[i])
    BY <2>1, <2>2, <2>3, EofReports DEF Copy!Next
  <2>4. CASE RecvExpected(toClient[i])
    <3>1. output' = Written(toClient[i].data) /\ UNCHANGED outcome
      BY <2>4 DEF RecvExpected
    <3>2. \/ toClient[i].data = expSeqNum /\ expSeqNum < seqNum
          \/ toClient[i].data = NoData
      BY <2>2, <2>4, ExpectedData
    <3> QED
      BY <2>1, <3>1, <3>2, WriteGrows DEF Copy!Next
  <2>5. CASE RecvCorrupted(toClient[i]) \/ RecvOld(toClient[i]) \/ RecvAhead(toClient[i])
    BY <1>1, <2>5 DEF RecvCorrupted, RecvOld, RecvAhead
  <2> QED
    BY <2>2, <2>3, <2>4, <2>5
<1>3. CASE DrainOne
  <2> DEFINE chunk == cwindow[Index(expSeqNum)]
  <2>1. /\ cstate = "CHECK_BUFFER" /\ UNCHANGED outcome
        /\ output' = Written(chunk)
        /\ chunk # EMPTY
    BY <1>3 DEF DrainOne, getElement, isEmptySpot
  <2>2. chunk = expSeqNum /\ expSeqNum < seqNum
    BY <2>1, DrainedData
  <2> HIDE DEF chunk
  <2> QED
    BY <2>1, <2>2, WriteGrows DEF Copy!Next
<1>4. CASE ReadFilenameReply
  <2>1. ~ ClientGone /\ UNCHANGED output
    BY <1>4 DEF ReadFilenameReply, ClientGone
  <2>2. \/ UNCHANGED outcome
        \/ outcome' \in Outcomes \ {"running", "eof"}
    BY <1>4 DEF ReadFilenameReply, ClientLeaves, Outcomes
  <2> QED
    BY <1>1, <2>1, <2>2, LeaveFails DEF Copy!Next
<1>5. CASE FilenameTimeout \/ FilenameGiveUp \/ ServerGone
  <2>1. /\ ~ ClientGone /\ UNCHANGED output
        /\ outcome' \in Outcomes \ {"running", "eof"}
    BY <1>5 DEF FilenameTimeout, FilenameGiveUp, ServerGone, ClientGone,
                ClientLeaves, Outcomes
  <2> QED
    BY <2>1, LeaveFails DEF Copy!Next
<1>6. CASE OpenOutput
  BY <1>6, OpenIsQuiet DEF Copy!Next
<1>7. CASE AckAll \/ RejectHole \/ UNCHANGED clientVars
  BY <1>1, <1>7 DEF AckAll, RejectHole, clientVars
<1> QED
  BY <1>2, <1>3, <1>4, <1>5, <1>6, <1>7
  DEF Next, ServerNext, ServerSelectExpires, ClientNext, FilenameSelectExpires,
      RecvSelectExpires, Finished, ClientStep, vars

\* A transfer is a file copy: the output file only ever grows by the next
\* chunk of the input, and success is reported only when it is whole.
THEOREM CopyRefined ==
  ASSUME AckReorder = FALSE
  PROVE  Spec => ImplementsCopy
<1>1. Init => Copy!Init
  BY DEF Init, ClientInit, CopyStatus, Copy!Init
<1>2. IInv /\ [Next]_vars => [Copy!Next]_(Copy!copyVars)
  BY CopyStep
<1> QED
  BY <1>1, <1>2, Invariance, PTL DEF Spec, ImplementsCopy, Copy!Spec
=============================================================================

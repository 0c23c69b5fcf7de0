------------------------------- MODULE RcopyInv -------------------------------
(***************************************************************************)
(* The inductive invariant of Rcopy when acknowledgements stay in order.     *)
(*                                                                           *)
(* The safety properties of Rcopy speak of one process or of one channel;    *)
(* none is preserved by a step on its own.  What makes them true together is *)
(* an order on four numbers,                                                 *)
(*                                                                           *)
(*   wptrL <= (every ACK and FSREJ in flight) <= expSeqNum <= seqNum,        *)
(*                                                                           *)
(* the last inequality only until the whole file is sent: a timeout of       *)
(* wait_last_rr with everything acknowledged resends an empty slot, and the  *)
(* client then counts past the end of the file.                              *)
(***************************************************************************)
EXTENDS Rcopy

\* A counter passes MaxTries only in the call that gives up.
Tries ==
  /\ sstate # "DONE" => \A s \in SelectStates : retryCount[s] <= MaxTries
  /\ cstate = "FILENAME" => nameTries <= MaxTries

\* TypeOK made inductive.
TypeInv == TypeOK /\ Tries

FileSent == seqNum = NumChunks + 1

\* read() and seq_num advance together; past the end of the file the client
\* may be ahead, but only once the file has been sent.
Counters ==
  /\ fileOff = seqNum - 1
  /\ wptrL <= expSeqNum
  /\ expSeqNum > seqNum => FileSent
  /\ seqNum - wptrL <= WindowSize
  /\ sstate = "SEND_DATA" => seqNum - wptrL < WindowSize
  /\ sstate \in {"WAIT_LAST_RR", "WAIT_ON_EOF_ACK"} => FileSent
  /\ sstate = "FILENAME" => seqNum = 1 /\ wptrL = 1
  /\ cstate \in {"FILENAME", "FILE_OK"} => expSeqNum = 1
  /\ sstate = "WAIT_ON_EOF_ACK" => expSeqNum > NumChunks
  /\ outcome = "eof" => expSeqNum > NumChunks
  /\ ~ ClientGone => outcome = "running"

\* The sender's slots: exactly the chunks wptrL .. seqNum - 1.
SenderRing ==
  /\ \A i \in Slots : swindow[i] # EMPTY =>
        /\ swindow[i] \in wptrL .. seqNum - 1
        /\ Index(swindow[i]) = i
  /\ \A s \in wptrL .. seqNum - 1 : swindow[Index(s)] = s

\* The receiver's slots: chunks sent, within a window of the one expected.
\* Only while check_buffer drains can the expected one be among them.
ReceiverRing ==
  \A i \in Slots : cwindow[i] # EMPTY =>
     /\ cwindow[i] \in expSeqNum .. seqNum - 1
     /\ cwindow[i] < expSeqNum + WindowSize
     /\ Index(cwindow[i]) = i
     /\ cwindow[i] = expSeqNum => cstate = "CHECK_BUFFER"

OutputSoFar ==
  /\ \A k \in 1 .. Len(output) : output[k] = k
  /\ Len(output) = IF expSeqNum <= NumChunks THEN expSeqNum - 1 ELSE NumChunks

\* What a packet on its way to the client may be.
GoodToClient(p) ==
  /\ p.flag \in {"FNAME_OK", "FNAME_BAD", "DATA", "END_OF_FILE", "CRC_ERROR"}
  /\ p.flag \in {"FNAME_OK", "FNAME_BAD"} => p.seq = 0
  /\ p.flag = "DATA" =>
       /\ p.seq < wptrL + WindowSize
       /\ \/ p.seq < seqNum /\ p.data = p.seq
          \/ FileSent /\ seqNum <= p.seq /\ p.seq <= wptrL /\ p.data = NoData
  /\ p.flag = "END_OF_FILE" =>
       /\ expSeqNum > NumChunks
       /\ sstate \in {"WAIT_ON_EOF_ACK", "DONE"}

\* What a packet on its way to the server may be.
GoodToServer(p) ==
  /\ p.flag \in {"ACK", "FSREJ", "EOF_ACK", "CRC_ERROR"}
  /\ p.flag \in {"ACK", "FSREJ"} => wptrL <= p.seq /\ p.seq <= expSeqNum
  /\ p.flag = "FSREJ" => p.seq < seqNum
  /\ p.flag = "EOF_ACK" => sstate \in {"WAIT_ON_EOF_ACK", "DONE"}

AckFlags == {"ACK", "FSREJ"}

\* Acknowledgements are sent in order and, with AckReorder FALSE, stay so.
AcksInOrder ==
  \A i, j \in 1 .. Len(toServer) :
     /\ i < j
     /\ toServer[i].flag \in AckFlags
     /\ toServer[j].flag \in AckFlags
     => toServer[i].seq <= toServer[j].seq

ToClientGood == \A i \in 1 .. Len(toClient) : GoodToClient(toClient[i])

ToServerGood == \A i \in 1 .. Len(toServer) : GoodToServer(toServer[i])

\* The inductive invariant.
IInv ==
  /\ TypeInv
  /\ Counters
  /\ SenderRing
  /\ ReceiverRing
  /\ OutputSoFar
  /\ ToClientGood
  /\ ToServerGood
  /\ AcksInOrder
=============================================================================

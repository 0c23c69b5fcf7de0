----------------------------- MODULE RcopyServer -----------------------------
(***************************************************************************)
(* The child process the server forks for one client: process_client() of   *)
(* 3A:Rcopy/server.c, from the FILENAME state on.  One action per outcome of *)
(* each state's handler; an action makes every call the handler makes.       *)
(*                                                                           *)
(* wptr.c always equals seq_num and is never read, nor is wptr.u: neither is *)
(* kept.  wait_last_rr and wait_on_eof_ack are called with seq_num.           *)
(***************************************************************************)
EXTENDS SrejNet

VARIABLES
  sstate,        \* the variable state of process_client
  swindow,       \* window
  wptrL,         \* wptr.l, the lowest sequence number not acknowledged
  seqNum,        \* seq_num, the next sequence number
  fileOff,       \* chunks read() has returned from data_file
  retryCount     \* the static retryCount of each function that has one

serverVars == <<sstate, swindow, wptrL, seqNum, fileOff, retryCount>>

ServerStates == {"FILENAME", "CHECK_WINDOW", "SEND_DATA", "CHECK_RR_SREJ",
                 "WAIT_LAST_RR", "WAIT_ON_EOF_ACK", "DONE"}

SelectStates == {"CHECK_WINDOW", "WAIT_LAST_RR", "WAIT_ON_EOF_ACK"}

ServerTypeOK ==
  /\ sstate \in ServerStates
  /\ swindow \in [Slots -> Chunks \cup {NoData, EMPTY}]
  /\ wptrL \in Nat
  /\ seqNum \in Nat \ {0}
  /\ fileOff \in 0 .. NumChunks
  /\ retryCount \in [SelectStates -> 0 .. MaxTries + 1]

ServerInit ==
  /\ sstate = "FILENAME"
  /\ swindow = createWindow
  /\ wptrL = 1
  /\ seqNum = 1
  /\ fileOff = 0
  /\ retryCount = [s \in SelectStates |-> 0]

-----------------------------------------------------------------------------
\* processSelect(), one operator per return value.  The counter is advanced
\* first: after MaxTries timeouts in a row the next call gives up without
\* looking at the socket.  Data that is ready resets it, a bad checksum too.

SelectReady(s) ==
  /\ sstate = s
  /\ retryCount[s] < MaxTries
  /\ toServer # << >>
  /\ retryCount' = [retryCount EXCEPT ![s] = 0]

\* Mutant of SelectTimeout: the counter is not compared with MAX_TRIES.
SelectTimeoutUnlimited(s) ==
  /\ sstate = s
  /\ retryCount' = [retryCount EXCEPT ![s] = @ + 1]

\* Mutant of SelectTimeout: the counter is not advanced.
SelectTimeoutUncounted(s) ==
  /\ sstate = s
  /\ retryCount[s] < MaxTries
  /\ UNCHANGED retryCount

SelectTimeout(s) ==
  /\ sstate = s
  /\ retryCount[s] < MaxTries
  /\ retryCount' = [retryCount EXCEPT ![s] = @ + 1]

SelectGiveUp(s) ==
  /\ sstate = s
  /\ retryCount[s] >= MaxTries
  /\ retryCount' = [retryCount EXCEPT ![s] = @ + 1]
  /\ sstate' = "DONE"
  /\ UNCHANGED <<swindow, wptrL, seqNum, fileOff, netVars>>

\* resend(): whatever the slot of seq holds goes out as DATA seq, a
\* zero-length payload when the slot is empty.
Resent(seq) ==
  Packet("DATA", seq, IF isEmptySpot(swindow, seq)
                      THEN NoData
                      ELSE getElement(swindow, seq))

resend(seq) == SendToClient(Resent(seq))

\* removeFromBuffer() and updateWPtr(), always called together.
Acknowledge(seq) ==
  /\ swindow' = removeFromBuffer(swindow, wptrL, seq)
  /\ wptrL' = seq

-----------------------------------------------------------------------------
\* filename()

FilenameOk ==
  /\ sstate = "FILENAME"
  /\ sstate' = "CHECK_WINDOW"
  /\ swindow' = createWindow
  /\ SendToClient(Packet("FNAME_OK", 0, NoData))
  /\ UNCHANGED <<toServer, wptrL, seqNum, fileOff, retryCount>>

FilenameBad ==
  /\ sstate = "FILENAME"
  /\ sstate' = "DONE"
  /\ swindow' = createWindow
  /\ SendToClient(Packet("FNAME_BAD", 0, NoData))
  /\ UNCHANGED <<toServer, wptrL, seqNum, fileOff, retryCount>>

-----------------------------------------------------------------------------
\* check_window(): select() is called only when every slot is taken.

\* Mutant of WindowOpen: isWindowFull() is not asked.
WindowOpenUnasked ==
  /\ sstate = "CHECK_WINDOW"
  /\ sstate' = "SEND_DATA"
  /\ UNCHANGED <<swindow, wptrL, seqNum, fileOff, retryCount, netVars>>

WindowOpen ==
  /\ sstate = "CHECK_WINDOW"
  /\ ~ isWindowFull(swindow)
  /\ sstate' = "SEND_DATA"
  /\ UNCHANGED <<swindow, wptrL, seqNum, fileOff, retryCount, netVars>>

WindowFullReady ==
  /\ isWindowFull(swindow)
  /\ SelectReady("CHECK_WINDOW")
  /\ sstate' = "CHECK_RR_SREJ"
  /\ UNCHANGED <<swindow, wptrL, seqNum, fileOff, netVars>>

WindowFullTimeout ==
  /\ isWindowFull(swindow)
  /\ SelectTimeout("CHECK_WINDOW")
  /\ resend(wptrL)
  /\ UNCHANGED <<sstate, swindow, wptrL, seqNum, fileOff, toServer>>

WindowFullGiveUp ==
  /\ isWindowFull(swindow)
  /\ SelectGiveUp("CHECK_WINDOW")

-----------------------------------------------------------------------------
\* send_data(): the next read() of the file.

SendChunk ==
  /\ sstate = "SEND_DATA"
  /\ fileOff < NumChunks
  /\ fileOff' = fileOff + 1
  /\ SendToClient(Packet("DATA", seqNum, fileOff + 1))
  /\ swindow' = addElement(swindow, seqNum, fileOff + 1)
  /\ seqNum' = seqNum + 1
  /\ sstate' = "CHECK_RR_SREJ"
  /\ UNCHANGED <<wptrL, retryCount, toServer>>

ReachEof ==
  /\ sstate = "SEND_DATA"
  /\ fileOff = NumChunks
  /\ sstate' = "WAIT_LAST_RR"
  /\ UNCHANGED <<swindow, wptrL, seqNum, fileOff, retryCount, netVars>>

ReadError ==
  /\ sstate = "SEND_DATA"
  /\ ReadMayFail
  /\ sstate' = "DONE"
  /\ UNCHANGED <<swindow, wptrL, seqNum, fileOff, retryCount, netVars>>

-----------------------------------------------------------------------------
\* check_rr_srej(): a poll, select() with a zero timeout.  A packet on the
\* wire that the poll misses is the same, to the server, as one its peer has
\* not sent yet.

NoAnswerYet ==
  /\ sstate = "CHECK_RR_SREJ"
  /\ toServer = << >>
  /\ sstate' = "CHECK_WINDOW"
  /\ UNCHANGED <<swindow, wptrL, seqNum, fileOff, retryCount, netVars>>

ReadRrSrej ==
  /\ sstate = "CHECK_RR_SREJ"
  /\ \E i \in ToServerReadable :
       LET p == toServer[i] IN
       /\ toServer' = RemoveAt(toServer, i)
       /\ \/ /\ p.flag = "FSREJ"
             /\ resend(p.seq)
             /\ sstate' = "CHECK_WINDOW"
             /\ UNCHANGED <<swindow, wptrL>>
          \/ /\ p.flag = "ACK"
             /\ Acknowledge(p.seq)
             /\ sstate' = "CHECK_WINDOW"
             /\ UNCHANGED <<toClient, faults>>
          \/ /\ p.flag \notin {"FSREJ", "ACK"}
             /\ sstate' = IF p.flag = "CRC_ERROR" THEN "CHECK_RR_SREJ" ELSE "DONE"
             /\ UNCHANGED <<swindow, wptrL, toClient, faults>>
  /\ UNCHANGED <<seqNum, fileOff, retryCount>>

-----------------------------------------------------------------------------
\* wait_last_rr(): every chunk has been read and sent.

\* Mutant of expRR: the number of the last chunk, not the one after it.
expRRLastChunk == seqNum - 1

expRR == seqNum

ReadLastRr ==
  /\ SelectReady("WAIT_LAST_RR")
  /\ \E i \in ToServerReadable :
       LET p == toServer[i] IN
       /\ toServer' = RemoveAt(toServer, i)
       /\ \/ /\ p.flag = "FSREJ"
             /\ resend(p.seq)
             /\ UNCHANGED <<sstate, swindow, wptrL>>
          \/ /\ p.flag = "ACK" /\ p.seq = expRR
             /\ SendToClient(Packet("END_OF_FILE", expRR, NoData))
             /\ sstate' = "WAIT_ON_EOF_ACK"
             /\ UNCHANGED <<swindow, wptrL>>
          \/ /\ p.flag = "ACK" /\ p.seq # expRR
             /\ Acknowledge(p.seq)
             /\ UNCHANGED <<sstate, toClient, faults>>
          \/ /\ p.flag \notin {"FSREJ", "ACK"}
             /\ sstate' = IF p.flag = "CRC_ERROR" THEN "WAIT_LAST_RR" ELSE "DONE"
             /\ UNCHANGED <<swindow, wptrL, toClient, faults>>
  /\ UNCHANGED <<seqNum, fileOff>>

\* Mutant of LastRrTimeout: the timeout only counts.
LastRrTimeoutSilent ==
  /\ SelectTimeout("WAIT_LAST_RR")
  /\ UNCHANGED <<sstate, swindow, wptrL, seqNum, fileOff, netVars>>

LastRrTimeout ==
  /\ SelectTimeout("WAIT_LAST_RR")
  /\ resend(wptrL)
  /\ UNCHANGED <<sstate, swindow, wptrL, seqNum, fileOff, toServer>>

LastRrGiveUp == SelectGiveUp("WAIT_LAST_RR")

-----------------------------------------------------------------------------
\* wait_on_eof_ack()

ReadEofAck ==
  /\ SelectReady("WAIT_ON_EOF_ACK")
  /\ \E i \in ToServerReadable :
       /\ toServer' = RemoveAt(toServer, i)
       /\ sstate' = IF toServer[i].flag = "EOF_ACK" THEN "DONE"
                                                    ELSE "WAIT_ON_EOF_ACK"
  /\ UNCHANGED <<swindow, wptrL, seqNum, fileOff, toClient, faults>>

\* Mutant of EofAckTimeout: END_OF_FILE is sent once.
EofAckTimeoutSilent ==
  /\ SelectTimeout("WAIT_ON_EOF_ACK")
  /\ UNCHANGED <<sstate, swindow, wptrL, seqNum, fileOff, netVars>>

\* Mutant of EofAckTimeout: it returns to the state before.
EofAckTimeoutGoesBack ==
  /\ SelectTimeout("WAIT_ON_EOF_ACK")
  /\ SendToClient(Packet("END_OF_FILE", seqNum, NoData))
  /\ sstate' = "WAIT_LAST_RR"
  /\ UNCHANGED <<swindow, wptrL, seqNum, fileOff, toServer>>

EofAckTimeout ==
  /\ SelectTimeout("WAIT_ON_EOF_ACK")
  /\ SendToClient(Packet("END_OF_FILE", seqNum, NoData))
  /\ UNCHANGED <<sstate, swindow, wptrL, seqNum, fileOff, toServer>>

EofAckGiveUp == SelectGiveUp("WAIT_ON_EOF_ACK")

-----------------------------------------------------------------------------
ServerStep ==
  \/ FilenameOk \/ FilenameBad
  \/ WindowOpen \/ WindowFullReady \/ WindowFullGiveUp
  \/ SendChunk \/ ReachEof \/ ReadError
  \/ NoAnswerYet \/ ReadRrSrej
  \/ ReadLastRr \/ LastRrGiveUp
  \/ ReadEofAck \/ EofAckGiveUp

ServerTimeout == WindowFullTimeout \/ LastRrTimeout \/ EofAckTimeout

\* The server sits in select() with nothing to read, or has exited.
ServerWaiting ==
  \/ sstate = "DONE"
  \/ /\ toServer = << >>
     /\ sstate \in SelectStates
     /\ sstate = "CHECK_WINDOW" => isWindowFull(swindow)
=============================================================================

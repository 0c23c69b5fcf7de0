----------------------------- MODULE RcopyClient -----------------------------
(***************************************************************************)
(* The rcopy process: stateMachine() of 3A:Rcopy/rcopy.c, during one         *)
(* conversation with one server child.  One action per outcome of each       *)
(* state's handler.                                                          *)
(*                                                                           *)
(* The conversation starts when start_state() has sent FNAME from a new      *)
(* socket, and is over for good when filename() returns START_STATE: rcopy   *)
(* then opens another socket and never reads this one again.  nameTries is   *)
(* filename()'s static retryCount, so a conversation may start at any value  *)
(* earlier ones left.                                                        *)
(***************************************************************************)
EXTENDS SrejNet

VARIABLES
  cstate,        \* the variable state of stateMachine
  expSeqNum,     \* sv.expSeqNum
  srejFg,        \* sv.srej_fg = 1
  cwindow,       \* window
  output,        \* chunks written to sv.output_file
  nameTries,     \* the static retryCount of filename()
  outcome        \* which exit was taken (the message rcopy prints)

clientVars == <<cstate, expSeqNum, srejFg, cwindow, output, nameTries, outcome>>

ClientStates == {"FILENAME", "FILE_OK", "RECV_DATA", "CHECK_BUFFER",
                 "DONE", "START_STATE"}

Outcomes == {"running", "eof", "timeout", "bad_name", "no_server",
             "open_error", "restarted"}

ClientTypeOK ==
  /\ cstate \in ClientStates
  /\ expSeqNum \in Nat \ {0}
  /\ srejFg \in BOOLEAN
  /\ cwindow \in [Slots -> Chunks \cup {NoData, EMPTY}]
  /\ output \in Seq(Chunks)
  /\ nameTries \in 0 .. MaxTries + 1
  /\ outcome \in Outcomes

ClientInit ==
  /\ cstate = "FILENAME"
  /\ expSeqNum = 1
  /\ srejFg = FALSE
  /\ cwindow = createWindow
  /\ output = << >>
  /\ nameTries \in 0 .. MaxTries
  /\ outcome = "running"

ClientLeaves(state, how) == cstate' = state /\ outcome' = how

ClientGone == cstate \in {"DONE", "START_STATE"}

\* write(sv->output_file, data, len) at the end of the output file.
Written(chunk) == IF chunk = NoData THEN output ELSE Append(output, chunk)

-----------------------------------------------------------------------------
\* filename(): processSelect() with SHORT_TIME, then one packet.  Anything
\* but a bad checksum or FNAME_BAD opens the output file, and is consumed.

ReadFilenameReply ==
  /\ cstate = "FILENAME"
  /\ nameTries < MaxTries
  /\ nameTries' = 0
  /\ \E i \in ToClientReadable :
       /\ toClient' = RemoveAt(toClient, i)
       /\ \/ /\ toClient[i].flag = "CRC_ERROR"
             /\ ClientLeaves("START_STATE", "restarted")
          \/ /\ toClient[i].flag = "FNAME_BAD"
             /\ ClientLeaves("DONE", "bad_name")
          \/ /\ toClient[i].flag \notin {"CRC_ERROR", "FNAME_BAD"}
             /\ cstate' = "FILE_OK"
             /\ UNCHANGED outcome
  /\ UNCHANGED <<expSeqNum, srejFg, cwindow, output, toServer, faults>>

FilenameTimeout ==
  /\ cstate = "FILENAME"
  /\ nameTries < MaxTries
  /\ nameTries' = nameTries + 1
  /\ ClientLeaves("START_STATE", "restarted")
  /\ UNCHANGED <<expSeqNum, srejFg, cwindow, output, netVars>>

FilenameGiveUp ==
  /\ cstate = "FILENAME"
  /\ nameTries >= MaxTries
  /\ nameTries' = nameTries + 1
  /\ ClientLeaves("DONE", "no_server")
  /\ UNCHANGED <<expSeqNum, srejFg, cwindow, output, netVars>>

-----------------------------------------------------------------------------
\* file_ok(): O_TRUNC empties the file.

OpenOutput ==
  /\ cstate = "FILE_OK"
  /\ \/ /\ cstate' = "RECV_DATA"
        /\ output' = << >>
        /\ UNCHANGED outcome
     \/ /\ ClientLeaves("DONE", "open_error")
        /\ UNCHANGED output
  /\ UNCHANGED <<expSeqNum, srejFg, cwindow, nameTries, netVars>>

-----------------------------------------------------------------------------
\* recv_data(): select() with LONG_TIME, then one packet.  The flag is only
\* compared with END_OF_FILE; the END_OF_FILE's sequence number is ignored.

\* Mutant of ServerGone: the time-out goes back to recv_data().
ServerGoneStays ==
  /\ cstate = "RECV_DATA"
  /\ UNCHANGED clientVars
  /\ UNCHANGED netVars

\* Mutant of ServerGone: the time-out exits as END_OF_FILE does.
ServerGoneAsEof ==
  /\ cstate = "RECV_DATA"
  /\ ClientLeaves("DONE", "eof")
  /\ UNCHANGED <<expSeqNum, srejFg, cwindow, output, nameTries, netVars>>

ServerGone ==
  /\ cstate = "RECV_DATA"
  /\ ClientLeaves("DONE", "timeout")
  /\ UNCHANGED <<expSeqNum, srejFg, cwindow, output, nameTries, netVars>>

RecvCorrupted(p) ==
  /\ p.flag = "CRC_ERROR"
  /\ UNCHANGED <<cstate, expSeqNum, srejFg, cwindow, output, outcome, toServer, faults>>

RecvEof(p) ==
  /\ p.flag = "END_OF_FILE"
  /\ expSeqNum' = expSeqNum + 1
  /\ SendToServer(Packet("EOF_ACK", expSeqNum + 1, NoData))
  /\ ClientLeaves("DONE", "eof")
  /\ UNCHANGED <<srejFg, cwindow, output>>

\* Mutant of RecvOld: the old packet's successor is acknowledged, not the
\* number expected.
RecvOldAcksIt(p) ==
  /\ p.flag \notin {"CRC_ERROR", "END_OF_FILE"}
  /\ p.seq < expSeqNum
  /\ SendToServer(Packet("ACK", p.seq + 1, NoData))
  /\ UNCHANGED <<cstate, expSeqNum, srejFg, cwindow, output, outcome>>

RecvOld(p) ==
  /\ p.flag \notin {"CRC_ERROR", "END_OF_FILE"}
  /\ p.seq < expSeqNum
  /\ SendToServer(Packet("ACK", expSeqNum, NoData))
  /\ UNCHANGED <<cstate, expSeqNum, srejFg, cwindow, output, outcome>>

\* Mutant of RecvExpected: any packet that is not old is taken for the next.
RecvExpectedAny(p) ==
  /\ p.flag \notin {"CRC_ERROR", "END_OF_FILE"}
  /\ p.seq >= expSeqNum
  /\ expSeqNum' = expSeqNum + 1
  /\ srejFg' = FALSE
  /\ output' = Written(p.data)
  /\ cstate' = "CHECK_BUFFER"
  /\ UNCHANGED <<cwindow, outcome, toServer, faults>>

RecvExpected(p) ==
  /\ p.flag \notin {"CRC_ERROR", "END_OF_FILE"}
  /\ p.seq = expSeqNum
  /\ expSeqNum' = expSeqNum + 1
  /\ srejFg' = FALSE
  /\ output' = Written(p.data)
  /\ cstate' = "CHECK_BUFFER"
  /\ UNCHANGED <<cwindow, outcome, toServer, faults>>

\* Mutant of RecvAhead: > became >=.
RecvAheadOrExpected(p) ==
  /\ p.flag \notin {"CRC_ERROR", "END_OF_FILE"}
  /\ p.seq >= expSeqNum
  /\ cwindow' = addElement(cwindow, p.seq, p.data)
  /\ \/ srejFg /\ UNCHANGED <<srejFg, toServer, faults>>
     \/ /\ ~ srejFg
        /\ SendToServer(Packet("FSREJ", expSeqNum, NoData))
        /\ srejFg' = TRUE
  /\ UNCHANGED <<cstate, expSeqNum, output, outcome>>

RecvAhead(p) ==
  /\ p.flag \notin {"CRC_ERROR", "END_OF_FILE"}
  /\ p.seq > expSeqNum
  /\ cwindow' = addElement(cwindow, p.seq, p.data)
  /\ \/ srejFg /\ UNCHANGED <<srejFg, toServer, faults>>
     \/ /\ ~ srejFg
        /\ SendToServer(Packet("FSREJ", expSeqNum, NoData))
        /\ srejFg' = TRUE
  /\ UNCHANGED <<cstate, expSeqNum, output, outcome>>

RecvData ==
  /\ cstate = "RECV_DATA"
  /\ \E i \in ToClientReadable :
       LET p == toClient[i] IN
       /\ toClient' = RemoveAt(toClient, i)
       /\ \/ RecvCorrupted(p)
          \/ RecvEof(p)
          \/ RecvOld(p)
          \/ RecvExpected(p)
          \/ RecvAhead(p)
  /\ UNCHANGED nameTries

-----------------------------------------------------------------------------
\* check_buffer()

AckAll ==
  /\ cstate = "CHECK_BUFFER"
  /\ isWindowEmpty(cwindow)
  /\ SendToServer(Packet("ACK", expSeqNum, NoData))
  /\ cstate' = "RECV_DATA"
  /\ UNCHANGED <<expSeqNum, srejFg, cwindow, output, nameTries, outcome, toClient>>

RejectHole ==
  /\ cstate = "CHECK_BUFFER"
  /\ ~ isWindowEmpty(cwindow)
  /\ isEmptySpot(cwindow, expSeqNum)
  /\ SendToServer(Packet("FSREJ", expSeqNum, NoData))
  /\ cstate' = "RECV_DATA"
  /\ UNCHANGED <<expSeqNum, srejFg, cwindow, output, nameTries, outcome, toClient>>

DrainOne ==
  /\ cstate = "CHECK_BUFFER"
  /\ ~ isEmptySpot(cwindow, expSeqNum)
  /\ output' = Written(getElement(cwindow, expSeqNum))
  /\ cwindow' = deleteElement(cwindow, expSeqNum)
  /\ expSeqNum' = expSeqNum + 1
  /\ UNCHANGED <<cstate, srejFg, nameTries, outcome, netVars>>

-----------------------------------------------------------------------------
ClientStep ==
  \/ ReadFilenameReply \/ FilenameGiveUp
  \/ OpenOutput
  \/ RecvData
  \/ AckAll \/ RejectHole \/ DrainOne

\* rcopy sits in select() with nothing to read, or has left.
ClientWaiting ==
  \/ ClientGone
  \/ toClient = << >> /\ cstate \in {"FILENAME", "RECV_DATA"}
=============================================================================

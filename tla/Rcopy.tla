-------------------------------- MODULE Rcopy --------------------------------
(***************************************************************************)
(* One rcopy file transfer: a server child and an rcopy process joined by    *)
(* the two channels of SrejNet.                                              *)
(***************************************************************************)
EXTENDS RcopyServer, RcopyClient

vars == <<serverVars, clientVars, netVars>>

TypeOK ==
  /\ toServer \in Seq(Packets)
  /\ toClient \in Seq(Packets)
  /\ faults \in 0 .. MaxFaults
  /\ ServerTypeOK
  /\ ClientTypeOK

Init == NetInit /\ ServerInit /\ ClientInit

\* A one-second select() expires.  With arbitrary delays it may at any time;
\* when delays are far below a second, only if its peer has nothing to do.
ServerSelectExpires ==
  /\ ServerTimeout
  /\ Timely => ServerWaiting /\ ClientWaiting
  /\ UNCHANGED clientVars

FilenameSelectExpires ==
  /\ FilenameTimeout
  /\ Timely => ServerWaiting /\ ClientWaiting
  /\ UNCHANGED serverVars

\* The ten seconds of recv_data() are MAX_TRIES times the server's one
\* second: when delays are short they run out only if the server has left, or
\* has used up its tries.
RecvSelectExpires ==
  /\ ServerGone
  /\ Timely => /\ ServerWaiting /\ ClientWaiting
               /\ sstate # "DONE" => retryCount[sstate] >= MaxTries
  /\ UNCHANGED serverVars

\* Both processes have left this conversation.
Finished ==
  /\ sstate = "DONE" /\ ClientGone
  /\ UNCHANGED vars

ServerNext == ServerStep /\ UNCHANGED clientVars

ClientNext == ClientStep /\ UNCHANGED serverVars

Next ==
  \/ ServerNext \/ ServerSelectExpires
  \/ ClientNext \/ FilenameSelectExpires \/ RecvSelectExpires
  \/ Finished

Spec == Init /\ [][Next]_vars

\* The scheduler runs both processes, and select() returns when its time is
\* over.
FairSpec ==
  /\ Spec
  /\ WF_vars(ServerNext) /\ WF_vars(ServerSelectExpires)
  /\ WF_vars(ClientNext)
  /\ WF_vars(FilenameSelectExpires) /\ WF_vars(RecvSelectExpires)

-----------------------------------------------------------------------------
(***************************************************************************)
(* Safety.                                                                   *)
(***************************************************************************)

\* The copy never has a gap, a repetition or a chunk out of place, whatever is
\* lost, corrupted, doubled or late (write() in recv_data and check_buffer).
OutputIsPrefix == \A k \in DOMAIN output : output[k] = k

\* rcopy leaves through END_OF_FILE only with the whole file written: the
\* server sends it only after the client has acknowledged every chunk, and
\* recv_data() does not compare its sequence number.
EofMeansComplete == outcome = "eof" => Len(output) = NumChunks

\* A chunk leaves the server's window only when the client has written it: an
\* acknowledgement that is late or repeated never frees a slot still needed.
FreedIsWritten ==
  \A k \in 1 .. fileOff :
     k <= Len(output) \/ getElement(swindow, k) = k

\* The sender's ring never overwrites an unacknowledged chunk: the slots of
\* wptrL .. seqNum - 1 are distinct, and each holds its own chunk.
WindowHoldsUnacked ==
  /\ seqNum - wptrL <= WindowSize
  /\ \A s \in wptrL .. seqNum - 1 : getElement(swindow, s) = s

\* The receiver's ring never mixes two laps: an occupied slot holds the chunk
\* of the one sequence number that maps to it and is not yet written.
BufferedIsAhead ==
  \A i \in Slots :
     ~ isEmptySpot(cwindow, i) =>
        /\ cwindow[i] \in Chunks
        /\ Index(cwindow[i]) = i
        /\ cwindow[i] > Len(output)
        /\ cwindow[i] < expSeqNum + WindowSize

\* A DATA packet carries the chunk of its sequence number.  resend() looks a
\* slot up by sequence number modulo the window: an FSREJ or a timeout for a
\* number whose slot has been freed or reused would send something else.
DataMatchesSeq ==
  \A i \in DOMAIN toClient :
     toClient[i].flag = "DATA" /\ toClient[i].seq <= NumChunks =>
        toClient[i].data = toClient[i].seq

\* server.c:229 and server.c:325: "this should never happen".  While the
\* server is in check_rr_srej or wait_last_rr only ACK and FSREJ can come.
NoUnexpectedFlag ==
  sstate \in {"CHECK_RR_SREJ", "WAIT_LAST_RR"} =>
     \A i \in DOMAIN toServer :
        toServer[i].flag \in {"ACK", "FSREJ", "CRC_ERROR"}

\* updateWPtr() assigns whatever an ACK says; the lower bound must not go
\* back, or removeFromBuffer() and resend() would work on freed slots.
LowerBoundAdvances == [][wptrL' >= wptrL]_wptrL

-----------------------------------------------------------------------------
(***************************************************************************)
(* The transfer implements the abstract copy.                                *)
(***************************************************************************)
CopyStatus == CASE outcome = "running" -> "copying"
                [] outcome = "eof"     -> "done"
                [] OTHER               -> "failed"

Copy == INSTANCE FileCopy WITH FileLength <- NumChunks,
                               copied <- output,
                               status <- CopyStatus

\* What rcopy does to the output file, and the way it exits, is a behaviour
\* of FileCopy.
ImplementsCopy == Copy!Spec

-----------------------------------------------------------------------------
(***************************************************************************)
(* Liveness.                                                                 *)
(***************************************************************************)

\* Short delays: a chunk that has been read is written, unless rcopy gave up
\* on the name exchange or could not open its file.  Each loss is repaired by
\* an FSREJ or by the timeout on a full window or at the end of the file.
ChunkGetsThrough ==
  \A k \in Chunks :
     fileOff >= k ~> \/ Len(output) >= k
                     \/ outcome \in {"restarted", "no_server", "open_error"}

\* Short delays: once the server has sent END_OF_FILE, rcopy exits through it.
EofGetsThrough == sstate = "WAIT_ON_EOF_ACK" ~> outcome = "eof"

-----------------------------------------------------------------------------
(***************************************************************************)
(* What the repository says and the code does not do.                        *)
(***************************************************************************)

\* server.c:331 "Resend the lowest RR": what wait_last_rr resends is a chunk
\* it has sent before.
OnlySentDataIsResent ==
  \A i \in DOMAIN toClient : toClient[i].flag = "DATA" => toClient[i].seq < seqNum
=============================================================================

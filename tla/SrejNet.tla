------------------------------- MODULE SrejNet -------------------------------
(***************************************************************************)
(* The two directions of the UDP conversation between one server child and  *)
(* one rcopy process, seen through send_buf() and recv_buf() of srej.c and   *)
(* the error injection of libcpe464 (sendtoErr), which drops a packet or     *)
(* flips one byte of it.                                                     *)
(*                                                                           *)
(* A channel is the sequence of packets sent and not yet received: what is   *)
(* on the wire and what waits in the socket buffer.  recv_buf() tests the    *)
(* Internet checksum before it looks at anything else, and that checksum     *)
(* detects every change of a single byte; so a flipped packet is the packet  *)
(* Corrupted, of which the receiver only learns that its checksum is wrong.  *)
(***************************************************************************)
EXTENDS SlidingWindow, Sequences, SequencesExt

CONSTANTS
  NumChunks,     \* read()s the file gives before the one that returns 0
  MaxTries,      \* MAX_TRIES of srej.h
  SockBuf,       \* packets a socket buffer holds; more are dropped
  MaxSeq,        \* bound: a packet with a larger sequence number is lost
  MaxFaults,     \* bound: packets dropped, flipped or duplicated
  DataReorder,   \* may packets to the client overtake each other?
  AckReorder,    \* may packets to the server overtake each other?
  Timely,        \* is every delay far shorter than SHORT_TIME?
  ReadMayFail    \* may read() on the server's file return -1?

ASSUME NetAssumption ==
  /\ NumChunks \in Nat
  /\ MaxTries \in Nat \ {0}
  /\ SockBuf \in Nat \ {0}
  /\ MaxSeq \in Nat
  /\ MaxFaults \in Nat
  /\ DataReorder \in BOOLEAN
  /\ AckReorder \in BOOLEAN
  /\ Timely \in BOOLEAN
  /\ ReadMayFail \in BOOLEAN

VARIABLES
  toServer,      \* packets on their way to the child's socket
  toClient,      \* packets on their way to rcopy's socket
  faults         \* faults injected so far

netVars == <<toServer, toClient, faults>>

Chunks == 1 .. NumChunks

Flags == {"DATA", "ACK", "FSREJ", "FNAME_OK", "FNAME_BAD",
          "END_OF_FILE", "EOF_ACK", "CRC_ERROR"}

Packets == [flag : Flags, seq : Nat, data : Chunks \cup {NoData}]

Packet(flag, seq, data) == [flag |-> flag, seq |-> seq, data |-> data]

Corrupted == Packet("CRC_ERROR", 0, NoData)

\* sendto() never fails on these sockets; a full socket buffer drops.
Enqueue(channel, p) ==
  IF Len(channel) < SockBuf /\ p.seq <= MaxSeq
  THEN Append(channel, p)
  ELSE channel

\* What one faulty transmission leaves: a drop, a flip, or (UDP only, the
\* library does not do it) a second copy.
Faulty(channel, p) ==
  {channel, Enqueue(channel, Corrupted), Enqueue(Enqueue(channel, p), p)}

SendToClient(p) ==
  \/ toClient' = Enqueue(toClient, p) /\ UNCHANGED faults
  \/ /\ faults < MaxFaults
     /\ faults' = faults + 1
     /\ toClient' \in Faulty(toClient, p)

SendToServer(p) ==
  \/ toServer' = Enqueue(toServer, p) /\ UNCHANGED faults
  \/ /\ faults < MaxFaults
     /\ faults' = faults + 1
     /\ toServer' \in Faulty(toServer, p)

\* The places a recvfrom() may take its packet from.
Readable(channel, reorder) == {i \in DOMAIN channel : reorder \/ i = 1}

ToServerReadable == Readable(toServer, AckReorder)
ToClientReadable == Readable(toClient, DataReorder)

NetInit == toServer = << >> /\ toClient = << >> /\ faults = 0
=============================================================================

-------------------------------- MODULE Trace --------------------------------
(***************************************************************************)
(* The packet trace printer, main() and printAllHeaders() of 1A:Trace/trace.c,  *)
(* over a capture file that is opened, read packet by packet by libpcap and     *)
(* may break off in the middle of one.  A packet of the capture was damaged     *)
(* on its way or not: damage is a byte that has changed.                        *)
(***************************************************************************)
EXTENDS TraceHeaders, TraceFrames

CONSTANTS
  Packets,       \* packets a capture may hold, with the damage done to them
  MaxPackets     \* bound: packets of a capture

\* What is under way: fields within their widths, options in whole words, and
\* an IP packet whose length fits the field for it.
Words16 == 0 .. 65535
BytesOf(n) == {b \in Seq(Bytes) : Len(b) = n}

ArpHeaders == [opcode : DOMAIN OpcodeWord, senderMac : BytesOf(6),
               senderIP : BytesOf(4), targetMac : BytesOf(6), targetIP : BytesOf(4)]
TcpHeaders == [src : Words16, dst : Words16, sqNum : Words16 \X Words16,
               ackNum : Words16 \X Words16, winSize : Words16,
               flags : SUBSET {1, 2, 4, 8, 16, 32, 64, 128}]
UdpHeaders == [src : Words16, dst : Words16]
IcmpHeaders == [type : Bytes]
NextLen == [TCP |-> 20, UDP |-> 8, ICMP |-> 4, Unknown |-> 0]

IsIpPacket(ip) ==
  /\ ip.tos \in Bytes /\ ip.ttl \in Bytes /\ ip.protocol \in DOMAIN ProtocolByte
  /\ ip.senderIP \in BytesOf(4) /\ ip.destIP \in BytesOf(4)
  /\ ip.options \in Seq(Bytes) /\ ip.payload \in Seq(Bytes)
  /\ Len(ip.options) % 4 = 0 /\ Len(ip.options) <= 40
  /\ ip.protocol = "TCP" => ip.next \in TcpHeaders
  /\ ip.protocol = "UDP" => ip.next \in UdpHeaders
  /\ ip.protocol = "ICMP" => ip.next \in IcmpHeaders
  /\ 20 + Len(ip.options) + NextLen[ip.protocol] + Len(ip.payload) \in Words16

IsFrame(p) ==
  /\ p.dst \in BytesOf(6) /\ p.src \in BytesOf(6) /\ p.padding \in Seq(Bytes)
  /\ p.type \in DOMAIN EthernetType
  /\ p.type = "ARP" => p.next \in ArpHeaders
  /\ p.type = "IP" => IsIpPacket(p.next)

\* A packet and what happened to it: byte "at" has another value; nothing when
\* it is 0.
IsPacket(p) ==
  /\ IsFrame(p.sent)
  /\ p.at \in 0 .. Len(frameOf(p.sent))
  /\ p.at # 0 => p.value \in Bytes \ {frameOf(p.sent)[p.at]}

ASSUME TraceAssumption ==
  MaxPackets \in Nat /\ \A p \in Packets : IsPacket(p)

VARIABLES
  ret,           \* pcap_next_ret; 0 before pcap_open_offline()
  captured,      \* packets libpcap has returned
  shown,         \* reports printed
  exit           \* how the program ended

vars == <<ret, captured, shown, exit>>

Init == ret = 0 /\ captured = << >> /\ shown = << >> /\ exit = "no"

\* The bytes of a packet as they arrived
Arrived(p) ==
  IF p.at = 0 THEN frameOf(p.sent) ELSE [frameOf(p.sent) EXCEPT ![p.at] = p.value]

\* i is one more than the reports before.
Shows(p) ==
  shown' = Append(shown, printHeader(Arrived(p), Len(Arrived(p)), Len(shown) + 1))

\* A report of bytes nobody knows
Garbage == << >>

-----------------------------------------------------------------------------
OpenFails ==
  /\ ret = 0 /\ exit = "no"
  /\ exit' = "failure"
  /\ UNCHANGED <<ret, captured, shown>>

OpenCapture ==
  /\ ret = 0 /\ exit = "no"
  /\ ret' = 1
  /\ UNCHANGED <<captured, shown, exit>>

PrintNext ==
  /\ ret = 1 /\ Len(captured) < MaxPackets
  /\ \E p \in Packets :
       /\ captured' = Append(captured, p)
       /\ Shows(p)
  /\ UNCHANGED <<ret, exit>>

\* Mutant of EndOfCapture: the result is tested at the head of the loop only.
EndOfCapturePrints ==
  /\ ret = 1 /\ captured # << >>
  /\ ret' = -2
  /\ exit' = "success"
  /\ Shows(Last(captured))
  /\ UNCHANGED captured

EndOfCapture ==
  /\ ret = 1
  /\ ret' = -2
  /\ exit' = "success"
  /\ UNCHANGED <<captured, shown>>

\* The capture breaks off.  Only -2 is tested before the packet is printed: one
\* more report is made, with the length of the packet before, of what the
\* buffer of libpcap then holds.  If it breaks off in the first packet pkt_data
\* has no value: what can be read there is printed, or the program crashes.
BrokenCapture ==
  /\ ret = 1
  /\ \/ exit' = "success" /\ shown' = Append(shown, Garbage)
     \/ exit' = "crash" /\ captured = << >> /\ UNCHANGED shown
  /\ ret' = -1
  /\ UNCHANGED captured

Next ==
  \/ OpenFails \/ OpenCapture
  \/ PrintNext \/ EndOfCapture \/ BrokenCapture

Spec == Init /\ [][Next]_vars

-----------------------------------------------------------------------------
(***************************************************************************)
(* Safety.                                                                   *)
(***************************************************************************)

\* The report of a packet as it was sent.  Three things are printed otherwise
\* than one would expect: the bytes of the IP checksum exchanged (the expected
\* outputs of the tests have them so), 109 for a type of ICMP that is no ping
\* (the one such packet of the tests has that type), and an acknowledgement of
\* 0 as not valid.
EthReport(p, number) ==
  [number |-> number, len |-> Len(frameOf(p)), dst |-> p.dst, src |-> p.src, type |-> p.type]

IpReport(ip) ==
  [headerLen |-> 20 + Len(ip.options), tos |-> ip.tos,
   pduLen |-> 20 + Len(ip.options) + Len(segmentOf(ip)),
   ttl |-> ip.ttl, protocol |-> ip.protocol,
   checksum |-> swap(ipChecksum(ip)), checksum_flg |-> "Correct",
   senderIP |-> ip.senderIP, destIP |-> ip.destIP]

TcpReport(t, ip) ==
  [header |-> "TCP", src |-> t.src, dst |-> t.dst, sqNum |-> t.sqNum,
   ackNum |-> IF 16 \in t.flags /\ t.ackNum # << 0, 0 >> THEN t.ackNum ELSE << >>,
   flags |-> t.flags \cap {16, 4, 2, 1}, winSize |-> t.winSize,
   checksum |-> tcpChecksum(t, ip), verdict |-> "Correct"]

UdpReport(t) == [header |-> "UDP", src |-> t.src, dst |-> t.dst]

IcmpReport(t) ==
  [header |-> "ICMP",
   type |-> IF t.type = 0 THEN "Reply" ELSE IF t.type = 8 THEN "Request" ELSE "109"]

Expected(p, number) ==
  LET ip == p.next
  IN  << EthReport(p, number) >> \o
      CASE p.type = "ARP" -> << p.next >>
        [] p.type = "IP"  ->
             << IpReport(ip) >> \o
             CASE ip.protocol = "TCP"  -> << TcpReport(ip.next, ip) >>
               [] ip.protocol = "UDP"  -> << UdpReport(ip.next) >>
               [] ip.protocol = "ICMP" -> << IcmpReport(ip.next) >>
               [] OTHER -> << >>
        [] OTHER -> << >>

\* Packet by packet, in the order of the capture and once each, what is printed
\* is what was sent; a broken capture adds one report, and nothing else does.
ReportsArePackets ==
  /\ \A k \in DOMAIN captured :
       captured[k].at = 0 => shown[k] = Expected(captured[k].sent, k)
  /\ Len(shown) \in Len(captured) .. Len(captured) + (IF ret = -1 THEN 1 ELSE 0)

\* The verdict on a checksum is "Incorrect" when a byte it covers has changed
\* and "Correct" when one elsewhere has: odd lengths, options and carries of
\* the pseudo header make no difference.  The bytes that say what follows, and
\* how much of it, are left out for TCP: with another value they make another
\* packet of it.
DamageIsSeen ==
  \A k \in DOMAIN captured :
    LET p == captured[k]
        report == shown[k]
        isIp == p.at \notin {13, 14} /\ p.sent.type = "IP"
    IN  /\ isIp /\ p.at # 15 =>
             report[2].checksum_flg = Verdict(p.at \notin ipArea(p.sent))
        /\ isIp /\ p.sent.next.protocol = "TCP" /\ p.at \notin {15, 17, 18, 24} =>
             report[3].verdict = Verdict(p.at \notin tcpArea(p.sent))
=============================================================================

---------------------------- MODULE TraceFrames ----------------------------
(***************************************************************************)
(* The frames a capture of 1A:Trace holds, as the hosts that sent them make   *)
(* them: nothing of it is in the repository.  A packet is a record of the      *)
(* fields that are printed, and frameOf() is its bytes.  The checksum is       *)
(* defined as a remainder modulo 2^16 - 1, and not by adding carries, so that   *)
(* it says apart from checksum.c and from addVal() what is right.               *)
(***************************************************************************)
EXTENDS Integers, Sequences, FiniteSetsExt

word(n) == << n \div 256, n % 256 >>

\* The inverted one's complement sum of the big-endian words, an odd byte
\* padded with a zero; no data adds up to zero that is not all zero.
checksumOf(bytes) ==
  LET sum == MapThenSumSet(LAMBDA i : IF i % 2 = 1 THEN 256 * bytes[i] ELSE bytes[i],
                           DOMAIN bytes)
  IN  IF sum = 0 THEN 65535 ELSE 65534 - ((sum - 1) % 65535)

EthernetType == [IP |-> << 8, 0 >>, ARP |-> << 8, 6 >>, Unknown |-> << 134, 221 >>]
ProtocolByte == [TCP |-> 6, ICMP |-> 1, UDP |-> 17, Unknown |-> 254]
OpcodeWord   == [Request |-> << 0, 1 >>, Reply |-> << 0, 2 >>, Unknown |-> << 1, 1 >>]

arpBytes(a) ==
  << 0, 1, 8, 0, 6, 4 >> \o OpcodeWord[a.opcode]
    \o a.senderMac \o a.senderIP \o a.targetMac \o a.targetIP

tcpBytes(t, ip, checksum) ==
  word(t.src) \o word(t.dst) \o word(t.sqNum[1]) \o word(t.sqNum[2])
    \o word(t.ackNum[1]) \o word(t.ackNum[2])
    \o << 80, SumSet(t.flags) >> \o word(t.winSize) \o checksum
    \o << 0, 0 >> \o ip.payload

tcpChecksum(t, ip) ==
  LET segment == tcpBytes(t, ip, << 0, 0 >>)
  IN  checksumOf(ip.senderIP \o ip.destIP \o << 0, 6 >> \o word(Len(segment)) \o segment)

\* What the IP header is followed by
segmentOf(ip) ==
  LET t == ip.next
  IN  CASE ip.protocol = "TCP"  -> tcpBytes(t, ip, word(tcpChecksum(t, ip)))
        [] ip.protocol = "UDP"  -> word(t.src) \o word(t.dst)
                                     \o word(8 + Len(ip.payload)) \o << 0, 0 >> \o ip.payload
        [] ip.protocol = "ICMP" -> << t.type, 0, 0, 0 >> \o ip.payload
        [] OTHER -> ip.payload

ipHeader(ip, checksum) ==
  << 64 + 5 + Len(ip.options) \div 4, ip.tos >>
    \o word(20 + Len(ip.options) + Len(segmentOf(ip)))
    \o << 0, 1, 0, 0, ip.ttl, ProtocolByte[ip.protocol] >> \o checksum
    \o ip.senderIP \o ip.destIP \o ip.options

ipChecksum(ip) == checksumOf(ipHeader(ip, << 0, 0 >>))

frameOf(p) ==
  p.dst \o p.src \o EthernetType[p.type] \o
  CASE p.type = "ARP" -> arpBytes(p.next) \o p.padding
    [] p.type = "IP"  -> ipHeader(p.next, word(ipChecksum(p.next)))
                           \o segmentOf(p.next) \o p.padding
    [] OTHER -> p.padding

-----------------------------------------------------------------------------
\* Where the bytes of a frame are that a checksum covers

ipArea(p) == 15 .. 14 + 20 + Len(p.next.options)
tcpStart(p) == 14 + 20 + Len(p.next.options)
tcpArea(p) == 27 .. 34 \cup tcpStart(p) + 1 .. tcpStart(p) + Len(segmentOf(p.next))
=============================================================================

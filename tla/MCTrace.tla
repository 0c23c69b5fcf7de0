------------------------------- MODULE MCTrace -------------------------------
(* Model-checking instance of Trace: the packets of the captures. *)
EXTENDS Trace

Mac(n) == << n, 2, 45, 144, 117, 255 >>
Host(n) == << 192, 168, 255, n >>

Frame(type, next, padding) ==
  [dst |-> Mac(0), src |-> Mac(6), type |-> type, next |-> next,
   padding |-> [i \in 1 .. padding |-> 0]]

Ip(protocol, next, options, payload) ==
  Frame("IP", [tos |-> 3, ttl |-> 128, protocol |-> protocol, options |-> options,
               senderIP |-> Host(1), destIP |-> Host(254), next |-> next,
               payload |-> payload], 8)

\* With three flags that are not shown; port 80, a sequence number of 2^32 - 1
Segment(flags, ackNum) ==
  [src |-> 50394, dst |-> 80, sqNum |-> << 65535, 65535 >>, ackNum |-> ackNum,
   flags |-> flags, winSize |-> 65535]

Arp(opcode) ==
  [opcode |-> opcode, senderMac |-> Mac(1), targetMac |-> Mac(9),
   senderIP |-> Host(1), targetIP |-> Host(2)]

Options == << 7, 7, 4, 0, 255, 1, 1, 1 >>

Sent ==
  { Frame("ARP", Arp("Request"), 0), Frame("ARP", Arp("Unknown"), 18),
    Frame("Unknown", << >>, 20),
    Ip("TCP", Segment({16, 8}, << 1, 2 >>), << >>, << 255, 254, 253 >>),
    Ip("TCP", Segment({2, 1, 4}, << 1, 2 >>), Options, << 1, 2 >>),
    Ip("TCP", Segment({16}, << 0, 0 >>), << >>, << >>),
    Ip("UDP", [src |-> 258, dst |-> 53], << >>, << 5 >>),
    Ip("ICMP", [type |-> 8], Options, << >>),
    Ip("ICMP", [type |-> 3], << >>, << >>),
    Ip("Unknown", << >>, << >>, << 1 >>) }

\* One bit of one byte, the lowest and the highest by turns; as far as the
\* lengths say there must be bytes.
Flipped(byte, bit) == IF (byte \div bit) % 2 = 1 THEN byte - bit ELSE byte + bit

Damaged(p) ==
  { [sent |-> p, at |-> i,
     value |-> Flipped(frameOf(p)[i], IF i % 3 = 0 THEN 128 ELSE 1)] :
      i \in 1 .. Len(frameOf(p)) }

Whole(q) ==
  LET pkt == Arrived(q)
      headerLen == convertLen(pkt[15])
      pduLen == ntohs(pkt, 16)
  IN  ntohs(pkt, 12) = IP =>
        /\ 14 + pduLen <= Len(pkt) /\ headerLen <= pduLen
        /\ pkt[24] = TCP => headerLen + 20 <= pduLen

PacketsInstance ==
  { [sent |-> p, at |-> 0, value |-> 0] : p \in Sent } \cup
  { q \in UNION { Damaged(p) : p \in {r \in Sent : r.type = "IP"} } :
      q.sent.next.protocol \in {"TCP", "ICMP"} /\ Whole(q) }
=============================================================================

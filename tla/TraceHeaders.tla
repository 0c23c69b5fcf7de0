---------------------------- MODULE TraceHeaders ----------------------------
(***************************************************************************)
(* What 1A:Trace/trace.c makes of the bytes of one frame: the create, find    *)
(* and print functions of each header.  A frame is the sequence of its bytes   *)
(* and a pointer into it the number of bytes before it.  What is printed is     *)
(* a report: one record for each header, with the values its lines show.        *)
(*                                                                           *)
(* Numbers of 32 bits are pairs of 16-bit numbers.  A frame is read as far as   *)
(* its length fields say, as the code does; there must be that many bytes.      *)
(***************************************************************************)
EXTENDS InCksum, SequencesExt

ETHER_ADDR_SIZE == 6
IP_ADDR_SIZE == 4
ARP == 2054        \* 0x0806
IP == 2048         \* 0x0800
OPCODE_OFFSET == 20
ARP_IP_OFFSET == 10
IP_HEADERLEN_OFFSET == 14
TCP == 6
ICMP == 1
UDP == 17
CHECKSUM_VALUE == 65535

ntohs(pkt, at) == 256 * pkt[at + 1] + pkt[at + 2]
ntohl(pkt, at) == << ntohs(pkt, at), ntohs(pkt, at + 2) >>
octets(pkt, at, n) == SubSeq(pkt, at + 1, at + n)

Verdict(ok) == IF ok THEN "Correct" ELSE "Incorrect"

-----------------------------------------------------------------------------
\* Ethernet and ARP

findEthType(type) ==
  CASE type = IP -> "IP" [] type = ARP -> "ARP" [] OTHER -> "Unknown"

createEthHeader(pkt) ==
  [dst  |-> octets(pkt, 0, ETHER_ADDR_SIZE),
   src  |-> octets(pkt, ETHER_ADDR_SIZE, ETHER_ADDR_SIZE),
   type |-> ntohs(pkt, 2 * ETHER_ADDR_SIZE)]

outputEthHeader(pkt, len, i) ==
  LET eHeader == createEthHeader(pkt)
  IN  [number |-> i, len |-> len, dst |-> eHeader.dst, src |-> eHeader.src,
       type |-> findEthType(eHeader.type)]

opCodeToStr(opcode) ==
  CASE opcode = 1 -> "Request" [] opcode = 2 -> "Reply" [] OTHER -> "Unknown"

createArpHeader(pkt) ==
  LET senderMac == OPCODE_OFFSET + 2
      senderIP  == senderMac + ETHER_ADDR_SIZE
  IN  [opcode    |-> ntohs(pkt, OPCODE_OFFSET),
       senderMac |-> octets(pkt, senderMac, ETHER_ADDR_SIZE),
       targetMac |-> octets(pkt, senderMac + ARP_IP_OFFSET, ETHER_ADDR_SIZE),
       senderIP  |-> octets(pkt, senderIP, IP_ADDR_SIZE),
       targetIP  |-> octets(pkt, senderIP + ARP_IP_OFFSET, IP_ADDR_SIZE)]

outputArpHeader(pkt) == [createArpHeader(pkt) EXCEPT !.opcode = opCodeToStr(@)]

-----------------------------------------------------------------------------
\* IP

\* The low four bits count words; a uint8_t holds their bytes.
convertLen(rawLength) == (rawLength % 16) * 4

findIP_CS(headerLen, pkt) ==
  Verdict(in_cksum(octets(pkt, IP_HEADERLEN_OFFSET, headerLen)) = 0)

\* The checksum is printed with its second byte first.
createIpHeader(pkt) ==
  LET headerLen == convertLen(pkt[IP_HEADERLEN_OFFSET + 1])
  IN  [headerLen    |-> headerLen,
       tos          |-> pkt[16],
       pduLen       |-> ntohs(pkt, 16),
       ttl          |-> pkt[23],
       protocol     |-> pkt[24],
       checksum     |-> 256 * pkt[26] + pkt[25],
       checksum_flg |-> findIP_CS(headerLen, pkt),
       senderIP     |-> octets(pkt, 26, IP_ADDR_SIZE),
       destIP       |-> octets(pkt, 26 + IP_ADDR_SIZE, IP_ADDR_SIZE)]

toWord(protocol) ==
  CASE protocol = TCP -> "TCP" [] protocol = ICMP -> "ICMP"
    [] protocol = UDP -> "UDP" [] OTHER -> "Unknown"

\* A type that is no ping is printed as 109, whatever it is.
getPingType(type) ==
  CASE type = 0 -> "Reply" [] type = 8 -> "Request" [] OTHER -> "109"

printICMPHeader(at, pkt) == [header |-> "ICMP", type |-> getPingType(pkt[at + 1])]

printUDPHeader(at, pkt) ==
  [header |-> "UDP", src |-> ntohs(pkt, at), dst |-> ntohs(pkt, at + 2)]

-----------------------------------------------------------------------------
\* TCP

\* Mutant of addVal: the carry is lost.
addValWithoutCarry(calc_cs, val) == (calc_cs + val) % 65536

\* A uint16_t that has overflowed is less than it was.
addVal(calc_cs, val) ==
  LET sum == (calc_cs + val) % 65536
  IN  IF sum < calc_cs THEN sum + 1 ELSE sum

swap(word) == 256 * (word % 256) + word \div 256

\* The two words of an address
addIP(calc_cs, ip) ==
  addVal(addVal(calc_cs, 256 * ip[1] + ip[2]), 256 * ip[3] + ip[4])

\* The sum of the segment, inverted back and put in host order, with the
\* words of the pseudo header added one by one.
findTCP_CS(at, pkt, iHeader) ==
  LET tcpLength == (iHeader.pduLen - iHeader.headerLen) % 65536
      base_cs   == swap(65535 - in_cksum(octets(pkt, at, tcpLength)))
      calc_cs   == addVal(addVal(base_cs, TCP), tcpLength)
  IN  Verdict(addIP(addIP(calc_cs, iHeader.senderIP), iHeader.destIP) = CHECKSUM_VALUE)

Bit(flgs, b) == (flgs \div b) % 2 = 1

\* The number is shown when it is not zero and ACK is set.
printACKNum(ackNum, flgs) ==
  IF ackNum = << 0, 0 >> \/ ~ Bit(flgs, 16) THEN << >> ELSE ackNum

printTCPHeader(at, pkt, iHeader) ==
  LET flgs == ntohs(pkt, at + 12)
  IN  [header   |-> "TCP",
       src      |-> ntohs(pkt, at),
       dst      |-> ntohs(pkt, at + 2),
       sqNum    |-> ntohl(pkt, at + 4),
       ackNum   |-> printACKNum(ntohl(pkt, at + 8), flgs),
       flags    |-> {b \in {16, 2, 4, 1} : Bit(flgs, b)},
       winSize  |-> ntohs(pkt, at + 14),
       checksum |-> ntohs(pkt, at + 16),
       verdict  |-> findTCP_CS(at, pkt, iHeader)]

-----------------------------------------------------------------------------
printIpHeader(iHeader) == [iHeader EXCEPT !.protocol = toWord(@)]

outputIpHeader(pkt) ==
  LET iHeader == createIpHeader(pkt)
      at      == IP_HEADERLEN_OFFSET + iHeader.headerLen
  IN  << printIpHeader(iHeader) >> \o
      CASE iHeader.protocol = TCP  -> << printTCPHeader(at, pkt, iHeader) >>
        [] iHeader.protocol = ICMP -> << printICMPHeader(at, pkt) >>
        [] iHeader.protocol = UDP  -> << printUDPHeader(at, pkt) >>
        [] OTHER -> << >>

\* printHeader(): the number and length of the frame, then header by header.
printHeader(pkt, len, i) ==
  LET type == createEthHeader(pkt).type
  IN  << outputEthHeader(pkt, len, i) >> \o
      CASE type = ARP -> << outputArpHeader(pkt) >>
        [] type = IP  -> outputIpHeader(pkt)
        [] OTHER -> << >>
=============================================================================

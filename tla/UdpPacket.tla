----------------------------- MODULE UdpPacket -----------------------------
(***************************************************************************)
(* A datagram of the UDP programs: four bytes of sequence number, two of      *)
(* checksum, one of flag, then the payload.  createHeader() of                *)
(* 3A:Rcopy/srej.c and createPDU() of Lab7UDP/packet.c make the same bytes.   *)
(***************************************************************************)
EXTENDS InCksum

HEADERLEN == 7

\* htonl() and ntohl()
htonl(n) == << n \div 16777216, (n \div 65536) % 256, (n \div 256) % 256, n % 256 >>
ntohl(b) == 16777216 * b[1] + 65536 * b[2] + 256 * b[3] + b[4]

\* The checksum is taken with its own two bytes zero, and copied in as it is
\* in memory.
createPDU(sequenceNumber, flag, payload) ==
  LET zeroed   == htonl(sequenceNumber) \o << 0, 0, flag >> \o payload
      checksum == in_cksum(zeroed)
  IN  [zeroed EXCEPT ![5] = checksum % 256, ![6] = checksum \div 256]

Packets == [seq : Nat, flag : Bytes, payload : Seq(Bytes), ok : BOOLEAN]
Corrupted == [seq |-> 0, flag |-> 0, payload |-> << >>, ok |-> FALSE]

\* retrieveHeader(): CRC_ERROR, or the parts of the packet.
retrieveHeader(data_buf) ==
  IF in_cksum(data_buf) # 0
  THEN Corrupted
  ELSE [seq     |-> ntohl(data_buf),
        flag    |-> data_buf[7],
        payload |-> SubSeq(data_buf, HEADERLEN + 1, Len(data_buf)),
        ok      |-> TRUE]
=============================================================================

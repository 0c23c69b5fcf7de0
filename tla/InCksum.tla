------------------------------ MODULE InCksum ------------------------------
(***************************************************************************)
(* The Internet checksum, checksum.c (the same file in 3A:Rcopy, Lab7UDP,     *)
(* Lab7UDP/libcpe464 and 1A:Trace), on a little-endian host.                  *)
(***************************************************************************)
EXTENDS Naturals, Sequences, FiniteSetsExt

Bytes == 0 .. 255

\* Mutant of in_cksum: the odd byte at the end is not added.
in_cksumEven(addr) ==
  LET sum == MapThenSumSet(LAMBDA i : addr[2*i - 1] + 256 * addr[2*i],
                           1 .. Len(addr) \div 2)
      low == sum \div 65536 + (sum % 65536)
  IN  65535 - ((low + low \div 65536) % 65536)

\* The sum of the 16-bit words, the first byte of each the low one, and of an
\* odd byte at the end; its carries are added twice, then it is inverted.
in_cksum(addr) ==
  LET sum == MapThenSumSet(LAMBDA i : IF i % 2 = 1 THEN addr[i] ELSE 256 * addr[i],
                           DOMAIN addr)
      low == sum \div 65536 + (sum % 65536)
  IN  65535 - ((low + low \div 65536) % 65536)
=============================================================================

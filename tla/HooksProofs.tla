----------------------------- MODULE HooksProofs -----------------------------
(***************************************************************************)
(* What NetworkHooks promises, for every environment, program and datagram.  *)
(*                                                                           *)
(* First the datagrams: in_cksum() of one that carries its own checksum is 0,*)
(* and is not once a byte has been inverted (DataLemmas has the checksum).   *)
(* Then the invariant, action by action, and the refinement of ErrorChannel. *)
(***************************************************************************)
EXTENDS NetworkHooks, DataLemmas

-----------------------------------------------------------------------------
(* Datagrams. *)

\* The checksum of a datagram, put at its place in it, makes that of the whole 0.
LEMMA CksumFits ==
  ASSUME NEW z, Small(z), Len(z) >= 6, z[5] = 0, z[6] = 0
  PROVE  LET c == in_cksum(z)
             b == [z EXCEPT ![5] = c % 256, ![6] = c \div 256]
         IN  /\ Small(b) /\ Len(b) = Len(z) /\ in_cksum(b) = 0
             /\ \A i \in 1 .. Len(z) : i # 5 /\ i # 6 => b[i] = z[i]
<1> DEFINE c  == in_cksum(z)
           lo == c % 256
           hi == c \div 256
           y  == [z EXCEPT ![5] = lo]
           b  == [y EXCEPT ![6] = hi]
<1>1. Total(z) \in Nat /\ Total(z) < 4294967296 - 65536
  BY SmallTotal
<1>2. /\ c \in Nat /\ c <= 65535
      /\ Total(z) + c # 0 /\ (Total(z) + c) % 65535 = 0
  <2>1. Total(z) < 4294967296
    BY <1>1, Z3
  <2> QED
    BY <1>1, <2>1, FoldedCompletes, CksumFolds, Z3
<1>3. lo \in Bytes /\ hi \in Bytes /\ c = lo + 256 * hi
  <2> HIDE DEF c
  <2> QED
    BY <1>2, CksumHalves, RangeByte, Z3
<1>4. lo \in Nat /\ hi \in Nat
  BY <1>3, ByteRange
<1> HIDE DEF c, lo, hi
<1>5. /\ z \in Seq(Bytes) /\ Len(z) \in Nat /\ DOMAIN z = 1 .. Len(z)
      /\ 5 \in DOMAIN z /\ 6 \in DOMAIN z
  BY LenProperties DEF Small
<1>6. /\ y \in Seq(Bytes) /\ Len(y) = Len(z)
      /\ Total(y) = Total(z) + WordOf(y, 5) - WordOf(z, 5)
  BY <1>3, <1>5, TotalChanges
<1>7. /\ y[5] = lo /\ y[6] = 0 /\ DOMAIN y = 1 .. Len(z)
      /\ \A i \in 1 .. Len(z) : i # 5 => y[i] = z[i]
  BY <1>5
<1>8. Total(y) = Total(z) + lo
  <2>1. WordOf(y, 5) = lo /\ WordOf(z, 5) = 0
    <3> HIDE DEF y
    <3> QED
      BY <1>7, Z3 DEF WordOf
  <2> HIDE DEF y
  <2> QED
    BY <1>1, <1>4, <1>6, <2>1
<1>9. /\ b \in Seq(Bytes) /\ Len(b) = Len(z)
      /\ Total(b) = Total(y) + WordOf(b, 6) - WordOf(y, 6)
  <2> HIDE DEF y
  <2> QED
    BY <1>3, <1>5, <1>6, <1>7, TotalChanges
<1>10. b[6] = hi /\ \A i \in 1 .. Len(z) : i # 6 => b[i] = y[i]
  <2> HIDE DEF y
  <2> QED
    BY <1>5, <1>7
<1>11. Total(b) = Total(z) + c
  <2>1. WordOf(b, 6) = 256 * hi /\ WordOf(y, 6) = 0
    <3> HIDE DEF y, b
    <3> QED
      BY <1>7, <1>10, Z3 DEF WordOf
  <2> HIDE DEF y, b
  <2> QED
    BY <1>1, <1>3, <1>4, <1>8, <1>9, <2>1
<1>12. Small(b)
  BY <1>9 DEF Small
<1>13. in_cksum(b) = 0
  <2> HIDE DEF b
  <2> QED
    BY <1>2, <1>11, <1>12, GoodCksum
<1>14. \A i \in 1 .. Len(z) : i # 5 /\ i # 6 => b[i] = z[i]
  <2> HIDE DEF y, b
  <2> QED
    BY <1>7, <1>10
<1>15. b = [z EXCEPT ![5] = c % 256, ![6] = c \div 256]
  BY DEF lo, hi
<1> HIDE DEF b
<1> QED
  BY <1>9, <1>12, <1>13, <1>14, <1>15 DEF c

\* errorFlipBits is always seen.
LEMMA FlipIsSeen ==
  ASSUME NEW addr, Small(addr), in_cksum(addr) = 0, NEW k \in 1 .. Len(addr)
  PROVE  in_cksum([addr EXCEPT ![k] = 255 - @]) # 0
<1>1. addr[k] \in Bytes
  BY LenProperties, ElementOfSeq DEF Small
<1>2. addr[k] \in Nat /\ addr[k] <= 255
  BY <1>1, ByteRange
<1> DEFINE v == 255 - addr[k]
<1>3. v \in Nat /\ v <= 255 /\ v # addr[k]
  BY <1>2, Z3
<1>4. v \in Bytes
  BY <1>3, RangeByte
<1>5. [addr EXCEPT ![k] = 255 - @] = [addr EXCEPT ![k] = v]
  OBVIOUS
<1> HIDE DEF v
<1> QED
  BY <1>3, <1>4, <1>5, ChangeIsSeen

\* The four bytes of a sequence number, there and back.
LEMMA NumberThereAndBack ==
  ASSUME NEW n \in Nat, n \div 16777216 <= 255
  PROVE  /\ n \div 16777216 \in Bytes /\ (n \div 65536) % 256 \in Bytes
         /\ (n \div 256) % 256 \in Bytes /\ n % 256 \in Bytes
         /\ 16777216 * (n \div 16777216) + 65536 * ((n \div 65536) % 256)
              + 256 * ((n \div 256) % 256) + (n % 256) = n
<1>1. PICK a \in Nat : a = n \div 256
  BY Z3
<1>2. PICK b \in Nat : b = n \div 65536
  BY Z3
<1>3. PICK c \in Nat : c = n \div 16777216
  BY Z3
<1>4. n = 256 * a + (n % 256) /\ n % 256 \in Nat /\ n % 256 <= 255
  BY <1>1, Z3
<1>5. b = a \div 256 /\ a = 256 * b + (a % 256) /\ a % 256 \in Nat /\ a % 256 <= 255
  BY <1>1, <1>2, Z3
<1>6. c = b \div 256 /\ b = 256 * c + (b % 256) /\ b % 256 \in Nat /\ b % 256 <= 255
  BY <1>2, <1>3, Z3
<1>7. 16777216 * c + 65536 * (b % 256) + 256 * (a % 256) + (n % 256) = n
  BY <1>4, <1>5, <1>6, Z3
<1>8. c <= 255
  BY <1>3, Z3
<1> QED
  BY <1>1, <1>2, <1>3, <1>4, <1>5, <1>6, <1>7, <1>8, RangeByte, Z3

LEMMA NumberBytes ==
  ASSUME NEW n \in Nat, n \div 16777216 <= 255
  PROVE  \E a, b, c, d \in Bytes :
           /\ htonl(n) = << a, b, c, d >>
           /\ 16777216 * a + 65536 * b + 256 * c + d = n
<1>1. /\ n \div 16777216 \in Bytes /\ (n \div 65536) % 256 \in Bytes
      /\ (n \div 256) % 256 \in Bytes /\ n % 256 \in Bytes
  BY NumberThereAndBack, SMT
<1>2. 16777216 * (n \div 16777216) + 65536 * ((n \div 65536) % 256)
        + 256 * ((n \div 256) % 256) + (n % 256) = n
  BY NumberThereAndBack, SMT
<1>3. htonl(n) = << n \div 16777216, (n \div 65536) % 256, (n \div 256) % 256, n % 256 >>
  BY SMT DEF htonl
<1> DEFINE a == n \div 16777216
           b == (n \div 65536) % 256
           c == (n \div 256) % 256
           d == n % 256
<1>4. a \in Bytes /\ b \in Bytes /\ c \in Bytes /\ d \in Bytes
  BY <1>1, SMT
<1>5. htonl(n) = << a, b, c, d >> /\ 16777216 * a + 65536 * b + 256 * c + d = n
  BY <1>2, <1>3, SMT
<1> HIDE DEF a, b, c, d
<1> QED
  BY <1>4, <1>5, SMT

\* createPDU() makes bytes with a good checksum from which retrieveHeader()
\* gets back what went in.
LEMMA DatagramArrives ==
  ASSUME NEW m \in Datagrams
  PROVE  LET b == createPDU(m.seq, m.flag, m.payload)
         IN  /\ Small(b) /\ Len(b) >= HEADERLEN /\ in_cksum(b) = 0
             /\ ntohl(b) \in Nat
             /\ retrieveHeader(b) = m
<1> DEFINE h == htonl(m.seq)
           g == << 0, 0, m.flag >>
           z == h \o g \o m.payload
           b == createPDU(m.seq, m.flag, m.payload)
           n == Len(m.payload)
<1>1. /\ m \in Packets /\ m.ok /\ m.seq \in Nat /\ m.flag \in Bytes
      /\ m.payload \in Seq(Bytes) /\ n \in Nat
  <2>1. m \in Packets /\ m.ok
    BY HooksAssumption, SMT
  <2>2. m.seq \in Nat /\ m.flag \in Bytes /\ m.payload \in Seq(Bytes)
    BY <2>1 DEF Packets
  <2>3. n \in Nat
    BY <2>2, LenProperties
  <2> QED
    BY <2>1, <2>2, <2>3
<1>2. PICK a1, a2, a3, a4 \in Bytes :
        /\ h = << a1, a2, a3, a4 >>
        /\ 16777216 * a1 + 65536 * a2 + 256 * a3 + a4 = m.seq
  <2>1. m.seq \div 16777216 \in Bytes
    BY HooksAssumption, SMT
  <2>2. m.seq \div 16777216 <= 255
    BY <2>1, ByteRange, SMT
  <2> QED
    BY <1>1, <2>2, NumberBytes, SMT
<1>17. h = << a1, a2, a3, a4 >>
  BY <1>2, SMT
<1>16. /\ h \in Seq(Bytes) /\ Len(h) = 4
       /\ h[1] = a1 /\ h[2] = a2 /\ h[3] = a3 /\ h[4] = a4
  BY <1>17
<1>15. a1 \in Nat /\ a2 \in Nat /\ a3 \in Nat /\ a4 \in Nat
  BY ByteRange
<1>3. g \in Seq(Bytes) /\ Len(g) = 3 /\ g[1] = 0 /\ g[2] = 0 /\ g[3] = m.flag
  <2>1. 0 \in Bytes
    BY RangeByte
  <2> QED
    BY <1>1, <2>1
<1> HIDE DEF h, g
<1>4. /\ h \o g \in Seq(Bytes) /\ Len(h \o g) = 7
      /\ \A i \in 1 .. 7 : (h \o g)[i] = IF i <= 4 THEN h[i] ELSE g[i - 4]
  <2>1. /\ h \o g \in Seq(Bytes) /\ Len(h \o g) = Len(h) + Len(g)
        /\ \A i \in 1 .. Len(h) + Len(g) :
              (h \o g)[i] = IF i <= Len(h) THEN h[i] ELSE g[i - Len(h)]
    BY <1>16, <1>3, ConcatProperties
  <2>2. Len(h) = 4 /\ Len(g) = 3 /\ Len(h) + Len(g) = 7
    BY <1>16, <1>3
  <2> QED
    BY <2>1, <2>2
<1> DEFINE hg == h \o g
<1>18. z = hg \o m.payload
  OBVIOUS
<1> HIDE DEF hg, z
<1>5. /\ z \in Seq(Bytes) /\ Len(z) = 7 + n
      /\ \A i \in 1 .. 7 + n : z[i] = IF i <= 7 THEN hg[i] ELSE m.payload[i - 7]
  <2>1. hg \in Seq(Bytes) /\ Len(hg) = 7
    BY <1>4 DEF hg
  <2>2. /\ z \in Seq(Bytes) /\ Len(z) = Len(hg) + n
        /\ \A i \in 1 .. Len(hg) + n :
              z[i] = IF i <= Len(hg) THEN hg[i] ELSE m.payload[i - Len(hg)]
    <3>1. \A p \in Seq(Bytes) :
            /\ hg \o p \in Seq(Bytes) /\ Len(hg \o p) = Len(hg) + Len(p)
            /\ \A i \in 1 .. Len(hg) + Len(p) :
                  (hg \o p)[i] = IF i <= Len(hg) THEN hg[i] ELSE p[i - Len(hg)]
      BY <2>1, ConcatProperties
    <3>2. m.payload \in Seq(Bytes)
      BY <1>1
    <3> QED
      BY <1>18, <3>1, <3>2
  <2> QED
    BY <2>1, <2>2
<1>6. /\ \A i \in 1 .. 4 : z[i] = h[i]
      /\ z[5] = 0 /\ z[6] = 0 /\ z[7] = m.flag
      /\ \A i \in 1 .. n : z[7 + i] = m.payload[i]
  <2>1. \A i \in 1 .. 7 : i \in 1 .. 7 + n
    BY <1>1
  <2>2. \A i \in 1 .. 7 : z[i] = IF i <= 4 THEN h[i] ELSE g[i - 4]
    <3>1. \A i \in 1 .. 7 : z[i] = hg[i]
      BY <1>5, <2>1
    <3>2. \A i \in 1 .. 7 : hg[i] = IF i <= 4 THEN h[i] ELSE g[i - 4]
      BY <1>4 DEF hg
    <3> QED
      BY <3>1, <3>2
  <2>3. ASSUME NEW i \in 1 .. n
        PROVE  z[7 + i] = m.payload[i]
    <3>1. 7 + i \in 1 .. 7 + n /\ ~ (7 + i <= 7) /\ (7 + i) - 7 = i
      BY <1>1
    <3> QED
      BY <1>5, <3>1
  <2> QED
    BY <1>3, <2>2, <2>3
<1>7. Small(z) /\ Len(z) >= 6
  <2>1. 7 + n <= 65507
    BY HooksAssumption, SMT DEF HEADERLEN
  <2> QED
    BY <1>1, <1>5, <2>1, SMT DEF Small
<1>8. b = [z EXCEPT ![5] = in_cksum(z) % 256, ![6] = in_cksum(z) \div 256]
  BY SMT DEF createPDU, z, hg, h, g
<1> HIDE DEF b
<1>9. /\ Small(b) /\ Len(b) = 7 + n /\ in_cksum(b) = 0
      /\ \A i \in 1 .. 7 + n : i # 5 /\ i # 6 => b[i] = z[i]
  <2>1. z[5] = 0 /\ z[6] = 0
    BY <1>6
  <2>2. LET c == in_cksum(z)
            d == [z EXCEPT ![5] = c % 256, ![6] = c \div 256]
        IN  /\ Small(d) /\ Len(d) = Len(z) /\ in_cksum(d) = 0
            /\ \A i \in 1 .. Len(z) : i # 5 /\ i # 6 => d[i] = z[i]
    BY <1>7, <2>1, CksumFits
  <2> QED
    BY <1>5, <1>8, <2>2
<1>10. b[1] = h[1] /\ b[2] = h[2] /\ b[3] = h[3] /\ b[4] = h[4] /\ b[7] = m.flag
  BY <1>1, <1>6, <1>9
<1>11. ntohl(b) = m.seq
  BY <1>2, <1>15, <1>16, <1>10, SMT DEF ntohl
<1>12. SubSeq(b, HEADERLEN + 1, Len(b)) = m.payload
  <2>1. b \in Seq(Bytes) /\ \A i \in 1 .. 7 + n : b[i] \in Bytes
    BY <1>1, <1>9, ElementOfSeq DEF Small
  <2> DEFINE s == SubSeq(b, 8, 7 + n)
  <2>2. /\ s \in Seq(Bytes)
        /\ Len(s) = IF 8 <= 7 + n THEN (7 + n) - 8 + 1 ELSE 0
        /\ \A i \in 1 .. (7 + n) - 8 + 1 : s[i] = b[8 + i - 1]
    <3>1. \A i \in 8 .. 7 + n : b[i] \in Bytes
      BY <1>1, <2>1
    <3>2. 7 + n \in Int
      BY <1>1
    <3> HIDE DEF n
    <3> QED
      BY <3>1, <3>2, SubSeqProperties
  <2> HIDE DEF s
  <2>3. Len(s) = n /\ \A i \in 1 .. n : s[i] = b[7 + i]
    BY <1>1, <2>2
  <2>4. \A i \in 1 .. n : b[7 + i] = z[7 + i]
    BY <1>1, <1>9
  <2>5. \A i \in 1 .. n : s[i] = m.payload[i]
    BY <1>6, <2>3, <2>4
  <2>6. s = m.payload
    BY <1>1, <2>2, <2>3, <2>5, SeqEqual
  <2> QED
    BY <1>9, <2>6 DEF HEADERLEN, s
<1>13. retrieveHeader(b) = m
  <2>1. retrieveHeader(b) =
          [seq |-> m.seq, flag |-> m.flag, payload |-> m.payload, ok |-> TRUE]
    <3>1. in_cksum(b) = 0
      BY <1>9
    <3>2. retrieveHeader(b) = [seq |-> ntohl(b), flag |-> b[7],
                               payload |-> SubSeq(b, HEADERLEN + 1, Len(b)), ok |-> TRUE]
      BY <3>1 DEF retrieveHeader
    <3> QED
      BY <1>10, <1>11, <1>12, <3>2
  <2>2. m.ok = TRUE
    BY <1>1 DEF Packets
  <2> QED
    BY <1>1, <2>1, <2>2 DEF Packets
<1>14. Len(b) >= HEADERLEN
  BY <1>1, <1>9 DEF HEADERLEN
<1> QED
  BY <1>1, <1>9, <1>11, <1>13, <1>14 DEF b

\* (int)(n * drand48()) is below n.
LEMMA PortionBelow ==
  ASSUME NEW n \in Nat \ {0}, NEW draw \in Draws
  PROVE  Portion(n, draw) \in 0 .. n - 1
<1>1. Scale \in Nat \ {0} /\ draw \in Nat /\ draw <= Scale - 1
  BY DrawsAssumption
<1>2. n * draw \in Nat /\ n * draw <= n * (Scale - 1)
  BY <1>1, Z3
<1>3. n * draw < n * Scale
  BY <1>1, <1>2, Z3
<1>4. PICK q \in Nat : q = (n * draw) \div Scale
  BY <1>1, <1>2, Z3
<1>5. q * Scale <= n * draw
  BY <1>1, <1>2, <1>4, Z3
<1>6. q < n
  BY <1>1, <1>3, <1>5, Z3
<1> QED
  BY <1>4, <1>6 DEF Portion

\* A flipped datagram arrives as Corrupted.
LEMMA FlippedArrives ==
  ASSUME NEW addr, Small(addr), Len(addr) > 0, in_cksum(addr) = 0, NEW draw \in Draws
  PROVE  retrieveHeader(flipByte(addr, draw)) = Corrupted
<1> DEFINE k == 1 + Portion(Len(addr), draw)
<1>1. Len(addr) \in Nat \ {0}
  BY LenProperties DEF Small
<1>2. k \in 1 .. Len(addr)
  BY <1>1, PortionBelow
<1> HIDE DEF k
<1>3. in_cksum([addr EXCEPT ![k] = 255 - @]) # 0
  BY <1>2, FlipIsSeen
<1>4. flipByte(addr, draw) = [addr EXCEPT ![k] = 255 - @]
  BY DEF flipByte, k
<1> QED
  BY <1>3, <1>4 DEF retrieveHeader

-----------------------------------------------------------------------------
(* The environment and the settings. *)

\* strtol() stops at the first token that is no number; what comes before is
\* a list of numbers.
LEMMA ListIsNumbers ==
  ASSUME NEW tokens \in Seq({NotANumber} \cup Int)
  PROVE  \A i \in DOMAIN parser2ListLong(tokens) : parser2ListLong(tokens)[i] \in Int
<1> DEFINE Ends == {k \in 0 .. Len(tokens) : k < Len(tokens) => tokens[k + 1] = NotANumber}
           IsEnd(k) == /\ \A i \in 1 .. k : tokens[i] # NotANumber
                       /\ k < Len(tokens) => tokens[k + 1] = NotANumber
           n == CHOOSE k \in 0 .. Len(tokens) : IsEnd(k)
<1>1. /\ Len(tokens) \in Nat
      /\ \A i \in 1 .. Len(tokens) : tokens[i] \in {NotANumber} \cup Int
  BY LenProperties, ElementOfSeq
<1>2. PICK k \in Ends : \A l \in Ends : k <= l
  <2>1. Ends \in SUBSET Nat
    BY <1>1
  <2>2. Len(tokens) \in Ends
    BY <1>1
  <2> HIDE DEF Ends
  <2> QED
    BY <2>1, <2>2, Least
<1>3. k \in 0 .. Len(tokens) /\ IsEnd(k)
  <2>1. ASSUME NEW i \in 1 .. k, tokens[i] = NotANumber
        PROVE  FALSE
    <3>1. i - 1 \in Ends
      BY <1>1, <2>1
    <3>2. k \in Nat /\ i \in Nat /\ i <= k
      BY <1>1
    <3> HIDE DEF Ends
    <3>3. k <= i - 1
      BY <1>2, <3>1
    <3> QED
      BY <3>2, <3>3
  <2> QED
    BY <2>1
<1>4. n \in 0 .. Len(tokens) /\ IsEnd(n)
  <2> HIDE DEF IsEnd
  <2> QED
    BY <1>3
<1>5. parser2ListLong(tokens) = SubSeq(tokens, 1, n)
  BY DEF parser2ListLong
<1> HIDE DEF n
<1>6. \A i \in 1 .. n : tokens[i] \in Int
  BY <1>1, <1>4
<1>7. /\ SubSeq(tokens, 1, n) \in Seq(Int)
      /\ Len(SubSeq(tokens, 1, n)) = IF 1 <= n THEN n - 1 + 1 ELSE 0
      /\ \A i \in 1 .. n - 1 + 1 : SubSeq(tokens, 1, n)[i] = tokens[1 + i - 1]
  <2>1. n \in Int
    BY <1>1, <1>4
  <2> QED
    BY <1>6, <2>1, SubSeqProperties
<1> QED
  BY <1>5, <1>7, LenProperties, ElementOfSeq

\* The message numbers of a list are numbers of 32 bits.
LEMMA ListIsNat ==
  ASSUME NEW x \in Lists, x # Unset
  PROVE  parserLong2Uint32(x) \in SUBSET Nat
<1>1. x \in Seq({NotANumber} \cup Int)
  BY DEF Lists
<1>2. \A w \in Range(parser2ListLong(x)) : w \in Int
  BY <1>1, ListIsNumbers DEF Range
<1>3. \A v \in Int : v % UINT32 \in Nat
  BY SettingsAssumption, ModRange
<1> QED
  BY <1>2, <1>3 DEF parserLong2Uint32

\* A list without a bad token is read to its end.
LEMMA NumbersRead ==
  ASSUME NEW tokens \in Seq(Int)
  PROVE  parser2ListLong(tokens) = tokens
<1> DEFINE IsEnd(k) == /\ \A i \in 1 .. k : tokens[i] # NotANumber
                       /\ k < Len(tokens) => tokens[k + 1] = NotANumber
           n == CHOOSE k \in 0 .. Len(tokens) : IsEnd(k)
<1>1. /\ Len(tokens) \in Nat
      /\ \A i \in 1 .. Len(tokens) : tokens[i] # NotANumber
  BY SettingsAssumption, LenProperties, ElementOfSeq
<1>2. Len(tokens) \in 0 .. Len(tokens) /\ IsEnd(Len(tokens))
  BY <1>1
<1>3. n \in 0 .. Len(tokens) /\ IsEnd(n)
  <2> HIDE DEF IsEnd
  <2> QED
    BY <1>2
<1>4. parser2ListLong(tokens) = SubSeq(tokens, 1, n)
  BY DEF parser2ListLong
<1> HIDE DEF n
<1>5. n = Len(tokens)
  <2>1. ASSUME n < Len(tokens)
        PROVE  FALSE
    <3>1. n + 1 \in 1 .. Len(tokens)
      BY <1>1, <1>3, <2>1
    <3>2. tokens[n + 1] = NotANumber
      BY <1>3, <2>1
    <3> QED
      BY <1>1, <3>1, <3>2
  <2> QED
    BY <1>1, <1>3, <2>1
<1>6. SubSeq(tokens, 1, Len(tokens)) = tokens
  OBVIOUS
<1> QED
  BY <1>4, <1>5, <1>6

\* What the library makes of a value that SettingsManager.h describes is what
\* the value asks for.
LEMMA DescribedRead ==
  ASSUME NEW x \in Lists, x # Unset, Described(x)
  PROVE  /\ parserLong2Uint32(x) = AsksFor(x)
         /\ parserLong2Uint32(x) = {} <=> x = RandomValue
<1>1. x \in Seq({NotANumber} \cup Int)
  BY DEF Lists
<1>2. CASE x = RandomValue
  <2>1. x \in Seq(Int) /\ Range(x) = {-1}
    BY <1>2 DEF RandomValue, Range
  <2>2. parser2ListLong(x) = x
    BY <2>1, NumbersRead
  <2>3. {w \in Range(parser2ListLong(x)) : w >= 0} = {}
    BY <2>1, <2>2
  <2>4. parserLong2Uint32(x) = {}
    BY <2>3 DEF parserLong2Uint32
  <2> QED
    BY <1>2, <2>4 DEF AsksFor
<1>3. CASE x # RandomValue
  <2>1. x # << >> /\ Range(x) \subseteq 0 .. UINT32 - 1
    BY <1>3 DEF Described
  <2>2. UINT32 \in Nat \ {0}
    BY SettingsAssumption
  <2>3. Range(x) \subseteq Int /\ Range(x) # {}
    <3>1. Len(x) \in Nat /\ DOMAIN x = 1 .. Len(x) /\ Len(x) # 0
      BY <1>1, <2>1, LenProperties, EmptySeq
    <3>2. 1 \in DOMAIN x
      BY <3>1
    <3> QED
      BY <2>1, <2>2, <3>2 DEF Range
  <2>4. x \in Seq(Int)
    <3>1. \A i \in 1 .. Len(x) : x[i] \in Int
      BY <1>1, <2>3, LenProperties DEF Range
    <3> QED
      BY <1>1, <3>1
  <2>5. parser2ListLong(x) = x
    BY <2>4, NumbersRead
  <2>6. \A v \in Range(x) : v >= 0 /\ v % UINT32 = v
    <3>1. \A v \in 0 .. UINT32 - 1 : v >= 0 /\ v % UINT32 = v
      BY <2>2
    <3> QED
      BY <2>1, <3>1
  <2>7. parserLong2Uint32(x) = Range(x)
    BY <2>5, <2>6 DEF parserLong2Uint32
  <2> QED
    BY <1>3, <2>3, <2>7 DEF AsksFor
<1> QED
  BY <1>2, <1>3

LEMMA EventShapes ==
  /\ infoSeqNo \in Events /\ errorDrop \in Events /\ errorFlipBits \in Events
  /\ \A L \in SUBSET Nat : setDropSpecific(L) \in Events
  /\ infoSeqNo.kind = "info"
  /\ errorDrop.kind = "drop" /\ errorDrop.dropAll = TRUE
  /\ errorFlipBits.kind = "flip"
  /\ \A L : /\ setDropSpecific(L).kind = "drop" /\ setDropSpecific(L).dropAll = FALSE
            /\ setDropSpecific(L).dropList = L
<1> USE DEF Event
<1>1. infoSeqNo \in Events /\ infoSeqNo.kind = "info"
  BY DEF infoSeqNo, Events
<1>2. errorDrop \in Events /\ errorDrop.kind = "drop" /\ errorDrop.dropAll = TRUE
  BY DEF errorDrop, Events
<1>3. errorFlipBits \in Events /\ errorFlipBits.kind = "flip"
  BY DEF errorFlipBits, Events
<1>4. ASSUME NEW L \in SUBSET Nat
      PROVE  setDropSpecific(L) \in Events
  BY DEF setDropSpecific, Events
<1>5. ASSUME NEW L
      PROVE  /\ setDropSpecific(L).kind = "drop" /\ setDropSpecific(L).dropAll = FALSE
             /\ setDropSpecific(L).dropList = L
  BY DEF setDropSpecific
<1> QED
  BY <1>1, <1>2, <1>3, <1>4, <1>5

\* The same messages sent, and the same list of them kept.
SameMessages(new, old) == new.msgNo = old.msgNo /\ new.history = old.history

LEMMA SeedIsSet ==
  ASSUME NEW mgr \in Managers, NEW x \in Int
  PROVE  LET new == [mgr EXCEPT !.seed = x]
         IN  /\ new \in Managers /\ SameMessages(new, mgr) /\ new.seed = x
             /\ new.standard = mgr.standard /\ new.chance = mgr.chance
  BY DEF Managers, SameMessages

LEMMA RateIsSet ==
  ASSUME NEW mgr \in Managers, NEW x \in Int
  PROVE  LET new == [mgr EXCEPT !.rate = x]
         IN  /\ new \in Managers /\ SameMessages(new, mgr) /\ new.seed = mgr.seed
             /\ new.standard = mgr.standard /\ new.chance = mgr.chance
  BY DEF Managers, SameMessages

LEMMA StandardAdded ==
  ASSUME NEW mgr \in Managers, NEW e \in Events
  PROVE  LET new == addMsgEvent_Standard(mgr, e)
         IN  /\ new \in Managers /\ SameMessages(new, mgr) /\ new.seed = mgr.seed
             /\ new.standard = Append(mgr.standard, e) /\ new.chance = mgr.chance
<1>1. Append(mgr.standard, e) \in Seq(Events)
  BY AppendProperties DEF Managers
<1> QED
  BY <1>1 DEF Managers, SameMessages, addMsgEvent_Standard

\* The events that may be in one sequence and are in no other.
EventsFrom(chance, Allowed) == \A i \in DOMAIN chance : chance[i] \in Allowed

LEMMA RandomAdded ==
  ASSUME NEW mgr \in Managers, NEW e \in Events, NEW Allowed,
         EventsFrom(mgr.chance, Allowed), e \in Allowed
  PROVE  LET new == addMsgEvent_Random(mgr, e)
         IN  /\ new \in Managers /\ SameMessages(new, mgr) /\ new.seed = mgr.seed
             /\ new.standard = mgr.standard /\ EventsFrom(new.chance, Allowed)
<1> DEFINE s == Append(mgr.chance, e)
<1>1. mgr.chance \in Seq(Events)
  BY DEF Managers
<1>2. /\ s \in Seq(Events) /\ Len(s) = Len(mgr.chance) + 1
      /\ \A i \in 1 .. Len(mgr.chance) : s[i] = mgr.chance[i]
      /\ s[Len(mgr.chance) + 1] = e
  BY <1>1, AppendProperties
<1>3. DOMAIN s = 1 .. Len(s) /\ DOMAIN mgr.chance = 1 .. Len(mgr.chance)
      /\ Len(mgr.chance) \in Nat
  BY <1>1, <1>2, LenProperties
<1> HIDE DEF s
<1>4. EventsFrom(s, Allowed)
  BY <1>2, <1>3 DEF EventsFrom
<1>5. addMsgEvent_Random(mgr, e) = [mgr EXCEPT !.chance = s]
  BY DEF addMsgEvent_Random, s
<1> QED
  BY <1>2, <1>4, <1>5 DEF Managers, SameMessages

\* The list of messages an environment has dropped.
DropList(env) == IF env.drop = Unset THEN {} ELSE parserLong2Uint32(env.drop)

\* What an environment asks to have dropped and flipped at random.
EnvironmentAsks(env) ==
  (IF env.drop # Unset /\ DropList(env) = {} THEN {errorDrop} ELSE {}) \cup
  (IF env.flip # Unset /\ parserLong2Uint32(env.flip) = {} THEN {errorFlipBits} ELSE {})

LEMMA EnvironmentTyped ==
  ASSUME NEW env \in Environments
  PROVE  /\ isSet(env.seed) => env.seed \in Int
         /\ isSet(env.rate) => env.rate \in Int
         /\ env.drop \in Lists /\ env.flip \in Lists
         /\ DropList(env) \in SUBSET Nat
<1>1. env \in [seed : Numbers, rate : Numbers, drop : Lists, flip : Lists]
  BY HooksAssumption, SMT
<1>2. /\ env.seed \in Numbers /\ env.rate \in Numbers
      /\ env.drop \in Lists /\ env.flip \in Lists
  BY <1>1
<1> QED
  BY <1>2, ListIsNat DEF Numbers, isSet, DropList

\* Before main() a process has the events of its environment and no others.
LEMMA EnvironmentLoaded ==
  ASSUME NEW env \in Environments, NEW time \in Nat
  PROVE  LET mgr == loadEnvData(env, time)
         IN  /\ mgr \in Managers /\ mgr.msgNo = 0 /\ mgr.history = << >>
             /\ mgr.standard = (IF DropList(env) = {} THEN << >>
                                ELSE << setDropSpecific(DropList(env)) >>)
             /\ EventsFrom(mgr.chance, EnvironmentAsks(env))
<1> DEFINE Asks == EnvironmentAsks(env)
           m0 == PacketManager(time)
           m1 == loadEnvData_SeedRand(m0, env)
           m2 == loadEnvData_ErrRate(m1, env)
           m3 == loadEnvData_ErrDrop(m2, env)
           m4 == loadEnvData_ErrFlip(m3, env)
           Empty(m) == /\ m \in Managers /\ m.msgNo = 0 /\ m.history = << >>
                       /\ EventsFrom(m.chance, Asks)
<1>1. Empty(m0) /\ m0.standard = << >>
  <2>1. m0 = [rate |-> 0, msgNo |-> 0, seed |-> time, standard |-> << >>,
              chance |-> << >>, history |-> << >>]
    BY DEF PacketManager
  <2>2. /\ << >> \in Seq(Events) /\ << >> \in Seq(Nat) /\ DOMAIN << >> = {}
        /\ 0 \in Int /\ 0 \in Nat /\ time \in Int
    BY EmptySeq
  <2>3. m0 \in Managers
    BY <2>1, <2>2 DEF Managers
  <2> HIDE DEF m0
  <2>4. m0.msgNo = 0 /\ m0.history = << >> /\ m0.chance = << >> /\ m0.standard = << >>
    BY <2>1
  <2> QED
    BY <2>2, <2>3, <2>4 DEF EventsFrom
<1> HIDE DEF m0
<1>2. Empty(m1) /\ m1.standard = << >>
  BY <1>1, EnvironmentTyped, SeedIsSet DEF loadEnvData_SeedRand, SameMessages
<1> HIDE DEF m1
<1>3. Empty(m2) /\ m2.standard = << >>
  BY <1>2, EnvironmentTyped, RateIsSet DEF loadEnvData_ErrRate, SameMessages
<1> HIDE DEF m2
<1>4. /\ Empty(m3)
      /\ m3.standard = (IF DropList(env) = {} THEN << >>
                        ELSE << setDropSpecific(DropList(env)) >>)
  <2>1. CASE env.drop = Unset
    BY <1>3, <2>1 DEF loadEnvData_ErrDrop, DropList
  <2>2. CASE env.drop # Unset /\ DropList(env) = {}
    <3>1. m3 = addMsgEvent_Random(m2, errorDrop)
      BY <2>2 DEF loadEnvData_ErrDrop, DropList
    <3>2. errorDrop \in Asks
      BY <2>2 DEF EnvironmentAsks
    <3> HIDE DEF m3, Asks
    <3> QED
      BY <1>3, <2>2, <3>1, <3>2, RandomAdded, EventShapes DEF SameMessages
  <2>3. CASE env.drop # Unset /\ DropList(env) # {}
    <3>1. m3 = addMsgEvent_Standard(m2, setDropSpecific(DropList(env)))
      BY <2>3 DEF loadEnvData_ErrDrop, DropList
    <3>2. setDropSpecific(DropList(env)) \in Events
      BY EnvironmentTyped, EventShapes
    <3>3. Append(<< >>, setDropSpecific(DropList(env))) = << setDropSpecific(DropList(env)) >>
      OBVIOUS
    <3> HIDE DEF m3
    <3> QED
      BY <1>3, <2>3, <3>1, <3>2, <3>3, StandardAdded DEF SameMessages
  <2> QED
    BY <2>1, <2>2, <2>3
<1> HIDE DEF m3
<1>5. Empty(m4) /\ m4.standard = m3.standard
  <2>1. CASE env.flip # Unset /\ parserLong2Uint32(env.flip) = {}
    <3>1. m4 = addMsgEvent_Random(m3, errorFlipBits)
      BY <2>1 DEF loadEnvData_ErrFlip
    <3>2. errorFlipBits \in Asks
      BY <2>1 DEF EnvironmentAsks
    <3> HIDE DEF m4, Asks
    <3> QED
      BY <1>4, <3>1, <3>2, RandomAdded, EventShapes DEF SameMessages
  <2>2. CASE ~ (env.flip # Unset /\ parserLong2Uint32(env.flip) = {})
    BY <1>4, <2>2 DEF loadEnvData_ErrFlip
  <2> QED
    BY <2>1, <2>2
<1>6. loadEnvData(env, time) = m4
  BY DEF loadEnvData, m0, m1, m2, m3
<1> QED
  BY <1>4, <1>5, <1>6

\* What sendErr_init() makes of a process.
AfterInit(mgr, env, rate, drop, flip, seed) ==
  LET m1 == addMsgEvent_Standard(mgr, infoSeqNo)
      m2 == setUserMode_ErrRate(m1, env, rate)
      m3 == setUserMode_ErrDrop(m2, env, drop)
      m4 == setUserMode_ErrFlip(m3, env, flip)
  IN  setUserMode_SeedRand(m4, env, seed)

-----------------------------------------------------------------------------
(* One message. *)

\* The events of a process that sends: its list L, if any, before infoSeqNo,
\* and at random only what is allowed.
SetUp(mgr, L, Allowed) ==
  /\ mgr.standard = (IF L = {} THEN << >> ELSE << setDropSpecific(L) >>) \o << infoSeqNo >>
  /\ EventsFrom(mgr.chance, Allowed)

\* What becomes of its message number no: one on the list is dropped and not
\* recorded; another one is recorded, and dropped or changed only at random.
Outcome(mgr, L, Allowed, m, no) ==
  LET b == createPDU(m.seq, m.flag, m.payload)
  IN  /\ recordSeqNo(mgr, no, b) =
           IF no \in L THEN mgr.history ELSE Append(mgr.history, ntohl(b))
      /\ \A out \in processEvents(mgr, no, b) :
           /\ no \in L => out.dropped
           /\ out.dropped => no \in L \/ errorDrop \in Allowed
           /\ retrieveHeader(out.bytes) \in {m, Corrupted}
           /\ errorFlipBits \notin Allowed => retrieveHeader(out.bytes) = m

LEMMA MessageOut ==
  ASSUME NEW mgr \in Managers, NEW L \in SUBSET Nat,
         NEW Allowed \in SUBSET {errorDrop, errorFlipBits}, SetUp(mgr, L, Allowed),
         NEW m \in Datagrams, NEW no \in Nat
  PROVE  Outcome(mgr, L, Allowed, m, no)
<1> DEFINE b == createPDU(m.seq, m.flag, m.payload)
<1>0. EventsFrom(mgr.chance, Allowed)
  BY DEF SetUp
<1> DEFINE st == mgr.standard
<1>1. \/ L = {} /\ st = << infoSeqNo >>
      \/ L # {} /\ st = << setDropSpecific(L), infoSeqNo >>
  <2>1. << infoSeqNo >> \in Seq(Events)
    BY EventShapes
  <2>2. << >> \o << infoSeqNo >> = << infoSeqNo >>
    BY <2>1, ConcatEmptySeq
  <2>3. << setDropSpecific(L) >> \o << infoSeqNo >> = << setDropSpecific(L), infoSeqNo >>
    <3> DEFINE e == setDropSpecific(L)
               s == << e >> \o << infoSeqNo >>
    <3>1. << e >> \in Seq(Events) /\ << e, infoSeqNo >> \in Seq(Events)
      BY EventShapes
    <3> HIDE DEF e
    <3>2. s \in Seq(Events) /\ Len(s) = 2 /\ s[1] = e /\ s[2] = infoSeqNo
      <4>1. Len(<< e >>) = 1 /\ Len(<< infoSeqNo >>) = 1
        OBVIOUS
      <4>2. /\ s \in Seq(Events) /\ Len(s) = 1 + 1
            /\ \A i \in 1 .. 1 + 1 :
                  s[i] = IF i <= 1 THEN << e >>[i] ELSE << infoSeqNo >>[i - 1]
        BY <2>1, <3>1, <4>1, ConcatProperties
      <4> HIDE DEF s
      <4> QED
        BY <4>2
    <3> HIDE DEF s
    <3>3. s = << e, infoSeqNo >>
      BY <3>1, <3>2, SeqEqual
    <3> QED
      BY <3>3 DEF s, e
  <2> QED
    BY <2>2, <2>3 DEF SetUp
<1> HIDE DEF st
<1>2. dropIndex(mgr, no) = IF no \in L THEN {1} ELSE {}
  <2>1. ~ dropsIt(infoSeqNo, no)
    BY EventShapes DEF dropsIt
  <2>2. dropsIt(setDropSpecific(L), no) <=> no \in L
    BY EventShapes DEF dropsIt
  <2>3. CASE L = {} /\ st = << infoSeqNo >>
    <3>1. DOMAIN st = {1} /\ st[1] = infoSeqNo
      BY <2>3
    <3>2. \A i \in DOMAIN st : ~ dropsIt(st[i], no)
      BY <2>1, <3>1
    <3> QED
      BY <2>3, <3>2 DEF dropIndex, st
  <2>4. CASE L # {} /\ st = << setDropSpecific(L), infoSeqNo >>
    <3>1. DOMAIN st = {1, 2} /\ st[1] = setDropSpecific(L) /\ st[2] = infoSeqNo
      BY <2>4
    <3>2. {i \in DOMAIN st : dropsIt(st[i], no)} = IF no \in L THEN {1} ELSE {}
      BY <2>1, <2>2, <3>1
    <3> QED
      BY <3>2 DEF dropIndex, st
  <2> QED
    BY <1>1, <2>3, <2>4
<1>3. recordSeqNo(mgr, no, b) =
        IF no \in L THEN mgr.history ELSE Append(mgr.history, ntohl(b))
  <2> DEFINE Recorded == \E i \in DOMAIN st : /\ st[i].kind = "info"
                                              /\ \A j \in dropIndex(mgr, no) : i < j
  <2>1. recordSeqNo(mgr, no, b) =
          IF Recorded THEN Append(mgr.history, ntohl(b)) ELSE mgr.history
    BY DEF recordSeqNo, st
  <2>2. Recorded <=> no \notin L
    <3>1. CASE L = {} /\ st = << infoSeqNo >>
      <4>1. DOMAIN st = {1} /\ st[1].kind = "info"
        BY <3>1, EventShapes
      <4> QED
        BY <1>2, <3>1, <4>1
    <3>2. CASE L # {} /\ st = << setDropSpecific(L), infoSeqNo >>
      <4>1. DOMAIN st = {1, 2} /\ st[1].kind = "drop" /\ st[2].kind = "info"
        BY <3>2, EventShapes
      <4> QED
        BY <1>2, <4>1
    <3> QED
      BY <1>1, <3>1, <3>2
  <2> HIDE DEF Recorded
  <2> QED
    BY <2>1, <2>2
<1>4. standardDrops(mgr, no) <=> no \in L
  BY <1>2 DEF standardDrops
<1>5. /\ Small(b) /\ Len(b) > 0 /\ in_cksum(b) = 0 /\ retrieveHeader(b) = m
  <2>1. Small(b) /\ Len(b) >= HEADERLEN /\ in_cksum(b) = 0 /\ retrieveHeader(b) = m
    BY DatagramArrives
  <2>2. Len(b) \in Nat
    BY <2>1, LenProperties DEF Small
  <2> QED
    BY <2>1, <2>2 DEF HEADERLEN
<1> HIDE DEF b
<1>6. ASSUME NEW due \in Draws, NEW which \in Draws, NEW where \in Draws
      PROVE  LET out == randomEvent(mgr, b, due, which, where)
             IN  /\ out \in [dropped : BOOLEAN, bytes : {b, flipByte(b, where)}]
                 /\ out.dropped => errorDrop \in Allowed
                 /\ errorFlipBits \notin Allowed => out.bytes = b
  <2> DEFINE i == 1 + Portion(Len(mgr.chance), which)
             out == randomEvent(mgr, b, due, which, where)
  <2>1. CASE mgr.chance = << >> \/ due > mgr.rate
    <3>1. out = [dropped |-> FALSE, bytes |-> b]
      BY <2>1 DEF randomEvent
    <3> QED
      BY <3>1
  <2>2. CASE ~ (mgr.chance = << >> \/ due > mgr.rate)
    <3>1. mgr.chance \in Seq(Events) /\ mgr.chance # << >>
      BY <2>2 DEF Managers
    <3>2. Len(mgr.chance) \in Nat \ {0} /\ DOMAIN mgr.chance = 1 .. Len(mgr.chance)
      BY <3>1, EmptySeq, LenProperties
    <3>3. i \in DOMAIN mgr.chance
      BY <3>2, PortionBelow
    <3>4. mgr.chance[i] \in Allowed
      BY <1>0, <3>3 DEF EventsFrom
    <3>5. out = IF mgr.chance[i].kind = "flip"
                THEN [dropped |-> FALSE, bytes |-> flipByte(b, where)]
                ELSE [dropped |-> mgr.chance[i].dropAll, bytes |-> b]
      BY <2>2 DEF randomEvent
    <3> HIDE DEF i, out
    <3>6. CASE mgr.chance[i] = errorDrop
      <4>1. out = [dropped |-> TRUE, bytes |-> b]
        BY <3>5, <3>6, EventShapes
      <4> QED
        BY <3>4, <3>6, <4>1 DEF out
    <3>7. CASE mgr.chance[i] = errorFlipBits
      <4>1. out = [dropped |-> FALSE, bytes |-> flipByte(b, where)]
        BY <3>5, <3>7, EventShapes
      <4> QED
        BY <3>4, <3>7, <4>1 DEF out
    <3> QED
      BY <3>4, <3>6, <3>7
  <2> QED
    BY <2>1, <2>2
<1>7. ASSUME NEW out \in processEvents(mgr, no, b)
      PROVE  /\ no \in L => out.dropped
             /\ out.dropped => no \in L \/ errorDrop \in Allowed
             /\ retrieveHeader(out.bytes) \in {m, Corrupted}
             /\ errorFlipBits \notin Allowed => retrieveHeader(out.bytes) = m
  <2>1. PICK due \in Draws, which \in Draws, where \in Draws :
          LET r == randomEvent(mgr, b, due, which, where)
          IN  out = IF standardDrops(mgr, no) THEN [r EXCEPT !.dropped = TRUE] ELSE r
    BY DEF processEvents
  <2>2. PICK r \in [dropped : BOOLEAN, bytes : {b, flipByte(b, where)}] :
          /\ r.dropped => errorDrop \in Allowed
          /\ errorFlipBits \notin Allowed => r.bytes = b
          /\ out = IF standardDrops(mgr, no) THEN [r EXCEPT !.dropped = TRUE] ELSE r
    BY <1>6, <2>1
  <2>3. out.bytes = r.bytes /\ (out.dropped <=> no \in L \/ r.dropped)
    BY <1>4, <2>2
  <2>4. retrieveHeader(flipByte(b, where)) = Corrupted
    BY <1>5, FlippedArrives
  <2> QED
    BY <1>5, <2>2, <2>3, <2>4
<1> QED
  BY <1>3, <1>7 DEF Outcome, b

\* One message more, on the list or not.
LEMMA OneMore ==
  ASSUME NEW L \in SUBSET Nat, NEW n \in Nat
  PROVE  /\ Cardinality(L \cap 1 .. n) \in Nat
         /\ Cardinality(L \cap 1 .. n + 1) =
              Cardinality(L \cap 1 .. n) + (IF n + 1 \in L THEN 1 ELSE 0)
<1> DEFINE S == L \cap 1 .. n
           T == L \cap 1 .. n + 1
<1>1. IsFiniteSet(S) /\ Cardinality(S) \in Nat
  <2>1. IsFiniteSet(1 .. n)
    BY FS_Interval
  <2> QED
    BY <2>1, FS_Intersection, FS_CardinalityType
<1>2. IF n + 1 \in L THEN T = S \cup {n + 1} /\ n + 1 \notin S ELSE T = S
  OBVIOUS
<1> HIDE DEF S, T
<1>3. Cardinality(T) = Cardinality(S) + (IF n + 1 \in L THEN 1 ELSE 0)
  BY <1>1, <1>2, FS_AddElement
<1> QED
  BY <1>1, <1>3 DEF S, T

-----------------------------------------------------------------------------
(* The invariant. *)

\* The random events somebody has asked for.
MayHappen ==
  {e \in {errorDrop, errorFlipBits} : \/ e = errorDrop /\ RandomDrops
                                      \/ e = errorFlipBits /\ RandomFlips}

LEMMA WhatMayHappen ==
  /\ errorDrop \in MayHappen <=> RandomDrops
  /\ errorFlipBits \in MayHappen <=> RandomFlips
  /\ EnvironmentAsks(environ) \subseteq MayHappen
<1>1. errorDrop # errorFlipBits
  BY EventShapes
<1>2. RandomDrops <=> IF environ.drop = Unset THEN asked.drop ELSE DropList(environ) = {}
  BY DEF RandomDrops, Listed, DropList
<1>3. RandomFlips <=> IF environ.flip = Unset THEN asked.flip
                      ELSE parserLong2Uint32(environ.flip) = {}
  BY DEF RandomFlips
<1> QED
  BY <1>1, <1>2, <1>3 DEF MayHappen, EnvironmentAsks

LEMMA ListedIs ==
  ASSUME environ \in Environments
  PROVE  Listed = DropList(environ) /\ Listed \in SUBSET Nat
  BY EnvironmentTyped DEF Listed, DropList

\* The standard events of the environment alone.
ListEvents(L) == IF L = {} THEN << >> ELSE << setDropSpecific(L) >>

LEMMA ListEventsJoin ==
  ASSUME NEW L \in SUBSET Nat
  PROVE  /\ ListEvents(L) \in Seq(Events)
         /\ ListEvents(L) \o << >> = ListEvents(L)
         /\ Append(ListEvents(L), infoSeqNo) = ListEvents(L) \o << infoSeqNo >>
<1>1. ListEvents(L) \in Seq(Events)
  BY EventShapes, EmptySeq DEF ListEvents
<1>2. infoSeqNo \in Events
  BY EventShapes
<1> QED
  BY <1>1, <1>2, ConcatEmptySeq, AppendIsConcat

\* What EventsAsked says of one process.
EventsOf(p) ==
  /\ pktMgr[p].standard = ListEvents(Listed) \o
       (IF asked.called /\ p <= forked THEN << infoSeqNo >> ELSE << >>)
  /\ EventsFrom(pktMgr[p].chance, MayHappen)

LEMMA EventsAre == EventsAsked <=> \A p \in Procs : EventsOf(p)
  BY DEF EventsAsked, EventsOf, ListEvents, EventsFrom, MayHappen

LEMMA HooksStart ==
  ASSUME Init
  PROVE  HooksInvariant
<1>1. PICK time \in Times : pktMgr = [p \in Procs |-> loadEnvData(environ, time)]
  BY DEF Init
<1>2. /\ environ \in Environments /\ asked = NotAsked /\ forked = 0
      /\ nextSeed = [p \in Procs |-> RANDOM_SEED]
      /\ wire = [p \in Procs |-> << >>] /\ taken = [p \in Procs |-> 0]
  BY DEF Init
<1>3. time \in Nat /\ RANDOM_SEED \in Nat /\ MaxForks \in Nat
  BY HooksAssumption DEF Times
<1>4. Listed = DropList(environ) /\ Listed \in SUBSET Nat
  BY <1>2, ListedIs
<1>5. \A p \in Procs :
        /\ pktMgr[p] \in Managers /\ pktMgr[p].msgNo = 0 /\ pktMgr[p].history = << >>
        /\ pktMgr[p].standard = ListEvents(Listed)
        /\ EventsFrom(pktMgr[p].chance, EnvironmentAsks(environ))
  <2>1. LET mgr == loadEnvData(environ, time)
        IN  /\ mgr \in Managers /\ mgr.msgNo = 0 /\ mgr.history = << >>
            /\ mgr.standard = ListEvents(Listed)
            /\ EventsFrom(mgr.chance, EnvironmentAsks(environ))
    BY <1>2, <1>3, <1>4, EnvironmentLoaded DEF ListEvents
  <2> QED
    BY <1>1, <2>1
<1>6. asked.called = FALSE
  BY <1>2 DEF NotAsked
<1>7. TypeOK
  <2>1. asked \in [rate : {0} \cup UserRates, drop : BOOLEAN, flip : BOOLEAN,
                   random : BOOLEAN, called : BOOLEAN]
    BY <1>2 DEF NotAsked
  <2>2. pktMgr \in [Procs -> Managers]
    BY <1>1, <1>5
  <2>3. wire \in [Procs -> Seq([no : Nat, packet : Packets])]
    BY <1>2, EmptySeq
  <2> QED
    BY <1>2, <1>3, <2>1, <2>2, <2>3 DEF TypeOK, Procs
<1>8. CountsAgree
  <2>1. ASSUME NEW p \in Procs
        PROVE  Len(pktMgr[p].history) + Cardinality(Listed \cap 1 .. pktMgr[p].msgNo)
                 = pktMgr[p].msgNo
    <3>1. Listed \cap 1 .. pktMgr[p].msgNo = {}
      BY <1>5
    <3>2. Cardinality(Listed \cap 1 .. pktMgr[p].msgNo) = 0
      BY <3>1, FS_EmptySet
    <3>3. Len(pktMgr[p].history) = 0 /\ pktMgr[p].msgNo = 0
      BY <1>5, EmptySeq
    <3> QED
      BY <3>2, <3>3
  <2> QED
    BY <2>1 DEF CountsAgree
<1>9. NotYetActive
  BY <1>2, <1>5 DEF NotYetActive
<1>10. EventsAsked
  <2>1. \A p \in Procs : EventsOf(p)
    BY <1>4, <1>5, <1>6, ListEventsJoin, WhatMayHappen DEF EventsOf, EventsFrom
  <2> QED
    BY <2>1, EventsAre
<1>11. WireIsSent
  <2>1. \A p \in Procs : wire[p] = << >> /\ DOMAIN wire[p] = {} /\ Len(wire[p]) = 0 /\ taken[p] = 0
    BY <1>2, EmptySeq
  <2>2. \A p \in Procs : Lost(p) = {}
    BY <1>5 DEF Lost
  <2> QED
    BY <2>1, <2>2 DEF WireIsSent
<1>12. SeedsCounted /\ ChildrenDiffer
  BY <1>2 DEF SeedsCounted, ChildrenDiffer
<1> QED
  BY <1>7, <1>8, <1>9, <1>10, <1>11, <1>12 DEF HooksInvariant

\* The other end takes a datagram.
LEMMA RecvfromKeeps ==
  ASSUME HooksInvariant, NEW p \in Procs, recvfrom(p)
  PROVE  HooksInvariant'
<1> USE DEF HooksInvariant
<1>1. /\ taken[p] < Len(wire[p]) /\ taken' = [taken EXCEPT ![p] = @ + 1]
      /\ UNCHANGED <<environ, asked, pktMgr, nextSeed, forked, wire>>
  BY DEF recvfrom
<1>2. \A q \in Procs : taken[q] \in Nat /\ Len(wire[q]) \in Nat
  BY LenProperties DEF TypeOK
<1>3. \A q \in Procs : taken'[q] \in Nat /\ taken'[q] <= Len(wire[q])
  BY <1>1, <1>2 DEF TypeOK, WireIsSent
<1>4. TypeOK'
  BY <1>1, <1>3 DEF TypeOK
<1>5. (RandomDrops' <=> RandomDrops) /\ (RandomFlips' <=> RandomFlips) /\ Listed' = Listed
  BY <1>1 DEF RandomDrops, RandomFlips, Listed
<1>6. \A q \in Procs : Lost(q)' = Lost(q)
  BY <1>1 DEF Lost
<1>7. WireIsSent'
  BY <1>1, <1>3, <1>5, <1>6 DEF WireIsSent
<1>8. CountsAgree' /\ NotYetActive' /\ SeedsCounted' /\ ChildrenDiffer'
  BY <1>1, <1>5 DEF CountsAgree, NotYetActive, SeedsCounted, ChildrenDiffer
<1>9. EventsAsked'
  BY <1>1, <1>5 DEF EventsAsked
<1> QED
  BY <1>4, <1>7, <1>8, <1>9

\* The program asks for its errors: process 0, the only one yet, gets infoSeqNo
\* after the list and the random events the environment leaves to it.
LEMMA InitKeeps ==
  ASSUME HooksInvariant, NEW rate \in UserRates, NEW drop \in BOOLEAN,
         NEW flip \in BOOLEAN, NEW random \in BOOLEAN, NEW time \in Times,
         NEW later \in Times, sendErr_init(rate, drop, flip, random, time, later)
  PROVE  HooksInvariant'
<1> DEFINE seedValue == IF random THEN time ELSE nextSeed[0]
           m5 == AfterInit(pktMgr[0], environ, rate, drop, flip, seedValue)
<1>1. /\ ~asked.called
      /\ asked' = [rate |-> rate, drop |-> drop, flip |-> flip,
                   random |-> random, called |-> TRUE]
      /\ pktMgr' = [pktMgr EXCEPT ![0] = m5]
      /\ nextSeed' = [nextSeed EXCEPT ![0] = IF random THEN later ELSE @ + 1]
      /\ UNCHANGED <<environ, forked, wire, taken>>
  BY DEF sendErr_init, AfterInit
<1>2. /\ asked = NotAsked /\ forked = 0
      /\ \A q \in Procs : pktMgr[q].msgNo = 0 /\ wire[q] = << >>
  BY <1>1 DEF NotYetActive, HooksInvariant
<1>3. TypeOK /\ environ \in Environments
  BY DEF TypeOK, HooksInvariant
<1>4. /\ 0 \in Procs /\ Procs \subseteq Nat /\ rate \in Int
      /\ time \in Nat /\ later \in Nat /\ nextSeed[0] \in Nat
  BY <1>3, HooksAssumption DEF Procs, Times, TypeOK
<1>5. Listed' = Listed /\ Listed \in SUBSET Nat
  BY <1>1, <1>3, ListedIs DEF Listed
<1>6. /\ asked.drop = FALSE /\ asked.flip = FALSE
      /\ (asked.drop)' = drop /\ (asked.flip)' = flip /\ (asked.called)' = TRUE
  BY <1>1, <1>2 DEF NotAsked
<1>7. /\ RandomDrops => RandomDrops'
      /\ environ.drop = Unset /\ drop => RandomDrops'
      /\ RandomFlips => RandomFlips'
      /\ environ.flip = Unset /\ flip => RandomFlips'
  BY <1>1, <1>5, <1>6 DEF RandomDrops, RandomFlips
<1>8. /\ MayHappen \subseteq MayHappen'
      /\ environ.drop = Unset /\ drop => errorDrop \in MayHappen'
      /\ environ.flip = Unset /\ flip => errorFlipBits \in MayHappen'
  BY <1>7 DEF MayHappen
<1>9. \A q \in Procs : EventsOf(q)
  BY EventsAre DEF HooksInvariant
<1>10. \A q \in Procs : EventsFrom(pktMgr[q].chance, MayHappen')
  BY <1>8, <1>9 DEF EventsOf, EventsFrom
<1>11. \A q \in Procs : pktMgr[q] \in Managers /\ pktMgr[q].standard = ListEvents(Listed)
  BY <1>1, <1>3, <1>5, <1>9, ListEventsJoin DEF EventsOf, TypeOK
<1>12. /\ m5 \in Managers /\ SameMessages(m5, pktMgr[0])
       /\ m5.standard = Append(pktMgr[0].standard, infoSeqNo)
       /\ EventsFrom(m5.chance, MayHappen')
  <2>1. seedValue \in Int /\ pktMgr[0] \in Managers
    BY <1>4, <1>11
  <2>2. EventsFrom(pktMgr[0].chance, MayHappen')
    BY <1>4, <1>10
  <2> HIDE DEF seedValue
  <2>3. ASSUME NEW mgr \in Managers, NEW env \in Environments, NEW Allowed,
               EventsFrom(mgr.chance, Allowed),
               env.drop = Unset /\ drop => errorDrop \in Allowed,
               env.flip = Unset /\ flip => errorFlipBits \in Allowed
        PROVE  LET new == AfterInit(mgr, env, rate, drop, flip, seedValue)
               IN  /\ new \in Managers /\ SameMessages(new, mgr)
                   /\ new.standard = Append(mgr.standard, infoSeqNo)
                   /\ EventsFrom(new.chance, Allowed)
    <3> DEFINE m1 == addMsgEvent_Standard(mgr, infoSeqNo)
               m2 == setUserMode_ErrRate(m1, env, rate)
               m3 == setUserMode_ErrDrop(m2, env, drop)
               m4 == setUserMode_ErrFlip(m3, env, flip)
               last == setUserMode_SeedRand(m4, env, seedValue)
               Good(m) == /\ m \in Managers /\ SameMessages(m, mgr)
                          /\ m.standard = Append(mgr.standard, infoSeqNo)
                          /\ EventsFrom(m.chance, Allowed)
    <3>1. Good(m1)
      BY <2>3, StandardAdded, EventShapes
    <3> HIDE DEF m1
    <3>2. Good(m2)
      BY <1>4, <3>1, RateIsSet DEF setUserMode_ErrRate, SameMessages
    <3> HIDE DEF m2
    <3>3. Good(m3)
      <4>1. CASE env.drop = Unset /\ drop
        <5>1. m3 = addMsgEvent_Random(m2, errorDrop) /\ errorDrop \in Allowed
          BY <2>3, <4>1 DEF setUserMode_ErrDrop
        <5> HIDE DEF m3
        <5> QED
          BY <3>2, <5>1, RandomAdded, EventShapes DEF SameMessages
      <4>2. CASE ~ (env.drop = Unset /\ drop)
        BY <3>2, <4>2 DEF setUserMode_ErrDrop
      <4> QED
        BY <4>1, <4>2
    <3> HIDE DEF m3
    <3>4. Good(m4)
      <4>1. CASE env.flip = Unset /\ flip
        <5>1. m4 = addMsgEvent_Random(m3, errorFlipBits) /\ errorFlipBits \in Allowed
          BY <2>3, <4>1 DEF setUserMode_ErrFlip
        <5> HIDE DEF m4
        <5> QED
          BY <3>3, <5>1, RandomAdded, EventShapes DEF SameMessages
      <4>2. CASE ~ (env.flip = Unset /\ flip)
        BY <3>3, <4>2 DEF setUserMode_ErrFlip
      <4> QED
        BY <4>1, <4>2
    <3> HIDE DEF m4
    <3>5. Good(last)
      BY <2>1, <3>4, SeedIsSet DEF setUserMode_SeedRand, SameMessages
    <3> QED
      BY <3>5 DEF AfterInit, m1, m2, m3, m4
  <2> QED
    BY <1>3, <1>8, <2>1, <2>2, <2>3
<1> HIDE DEF m5
<1>13. \A q \in Procs : pktMgr'[q] = IF q = 0 THEN m5 ELSE pktMgr[q]
  BY <1>1, <1>3 DEF TypeOK
<1>14. \A q \in Procs : /\ pktMgr'[q] \in Managers /\ SameMessages(pktMgr'[q], pktMgr[q])
                        /\ EventsFrom(pktMgr'[q].chance, MayHappen')
  BY <1>10, <1>11, <1>12, <1>13 DEF SameMessages
<1>15. TypeOK'
  <2>1. asked' \in [rate : {0} \cup UserRates, drop : BOOLEAN, flip : BOOLEAN,
                    random : BOOLEAN, called : BOOLEAN]
    BY <1>1
  <2>2. nextSeed' \in [Procs -> Nat]
    BY <1>1, <1>3, <1>4 DEF TypeOK
  <2>3. pktMgr' \in [Procs -> Managers]
    BY <1>1, <1>3, <1>11, <1>12 DEF TypeOK
  <2> QED
    BY <1>1, <1>3, <2>1, <2>2, <2>3 DEF TypeOK
<1>16. CountsAgree'
  BY <1>5, <1>14 DEF CountsAgree, SameMessages, HooksInvariant
<1>17. NotYetActive'
  BY <1>1, <1>2, <1>6, <1>14 DEF NotYetActive, SameMessages
<1>18. EventsAsked'
  <2>1. ASSUME NEW q \in Procs
        PROVE  /\ pktMgr'[q].standard = ListEvents(Listed) \o
                    (IF q <= forked THEN << infoSeqNo >> ELSE << >>)
               /\ EventsFrom(pktMgr'[q].chance, MayHappen')
    <3>1. q \in Nat /\ (q <= forked <=> q = 0)
      BY <1>2, <1>4
    <3> QED
      BY <1>5, <1>11, <1>12, <1>13, <1>14, <3>1, ListEventsJoin
  <2>2. \A q \in Procs : EventsOf(q)'
    BY <1>1, <1>5, <1>6, <2>1 DEF EventsOf
  <2> QED
    BY <2>2 DEF EventsAsked, EventsOf, ListEvents, EventsFrom, MayHappen
<1>19. WireIsSent'
  <2>1. \A q \in Procs : wire'[q] = << >> /\ DOMAIN wire'[q] = {} /\ taken'[q] <= Len(wire'[q])
    BY <1>1, <1>2, EmptySeq DEF WireIsSent, HooksInvariant
  <2>2. \A q \in Procs : Lost(q)' = {}
    BY <1>2, <1>14 DEF Lost, SameMessages
  <2> QED
    BY <2>1, <2>2 DEF WireIsSent
<1>20. SeedsCounted' /\ ChildrenDiffer'
  BY <1>1, <1>2 DEF SeedsCounted, ChildrenDiffer
<1> QED
  BY <1>15, <1>16, <1>17, <1>18, <1>19, <1>20 DEF HooksInvariant

\* A child is forked: it has what its parent has, but the number its parent has
\* just counted past.
LEMMA ForkKeeps ==
  ASSUME HooksInvariant, forkMod
  PROVE  HooksInvariant'
<1> DEFINE k == forked + 1
           child == setUserMode_SeedRand(pktMgr[0], environ, nextSeed[0])
<1>1. /\ asked.called /\ forked < MaxForks /\ pktMgr[0].msgNo = 0
      /\ forked' = k
      /\ pktMgr' = [pktMgr EXCEPT ![k] = child]
      /\ nextSeed' = [nextSeed EXCEPT ![0] = @ + 1, ![k] = nextSeed[0] + 1]
      /\ UNCHANGED <<environ, asked, wire, taken>>
  BY DEF forkMod
<1>2. TypeOK /\ environ \in Environments
  BY DEF TypeOK, HooksInvariant
<1>3. /\ 0 \in Procs /\ k \in Procs /\ k # 0 /\ Procs \subseteq Nat /\ forked \in Nat
      /\ 0 <= forked /\ nextSeed[0] \in Nat /\ k = forked + 1
      /\ \A q \in 1 .. forked : q \in Procs /\ q # k
      /\ 1 .. k = 1 .. forked \cup {k}
  <2>1. MaxForks \in Nat
    BY HooksAssumption, SMT
  <2>2. forked \in 0 .. MaxForks /\ 0 \in Procs /\ nextSeed[0] \in Nat
    BY <1>2, <2>1 DEF Procs, TypeOK
  <2>3. 1 .. k = 1 .. forked \cup {k}
    BY <2>1, <2>2
  <2> QED
    BY <1>1, <2>1, <2>2, <2>3 DEF Procs
<1> HIDE DEF k
<1>4. /\ (RandomDrops' <=> RandomDrops) /\ (RandomFlips' <=> RandomFlips)
      /\ Listed' = Listed /\ MayHappen' = MayHappen
  BY <1>1 DEF RandomDrops, RandomFlips, Listed, MayHappen
<1>5. /\ child \in Managers /\ SameMessages(child, pktMgr[0])
      /\ child.standard = pktMgr[0].standard /\ child.chance = pktMgr[0].chance
      /\ ~ isSet(environ.seed) => child.seed = nextSeed[0]
  <2>1. pktMgr[0] \in Managers /\ nextSeed[0] \in Int
    BY <1>2, <1>3 DEF TypeOK
  <2> QED
    BY <2>1, SeedIsSet DEF setUserMode_SeedRand, SameMessages
<1> HIDE DEF child
<1>6. /\ \A q \in Procs : pktMgr'[q] = IF q = k THEN child ELSE pktMgr[q]
      /\ nextSeed'[0] = nextSeed[0] + 1
  BY <1>1, <1>2, <1>3 DEF TypeOK
<1>7. wire[k] = << >> /\ pktMgr'[k].msgNo = 0
  <2>1. k > forked
    BY <1>3
  <2>2. wire[k] = << >>
    BY <1>3, <2>1 DEF NotYetActive, HooksInvariant
  <2>3. pktMgr'[k].msgNo = 0
    <3>1. pktMgr'[k] = child
      BY <1>3, <1>6
    <3> QED
      BY <1>1, <1>5, <3>1 DEF SameMessages
  <2> QED
    BY <2>2, <2>3
<1>8. TypeOK'
  <2>1. nextSeed' \in [Procs -> Nat] /\ pktMgr' \in [Procs -> Managers]
    BY <1>1, <1>2, <1>3, <1>5 DEF TypeOK
  <2> QED
    BY <1>1, <1>2, <1>3, <2>1 DEF TypeOK
<1>9. CountsAgree'
  <2>1. ASSUME NEW q \in Procs
        PROVE  Len(pktMgr'[q].history) + Cardinality(Listed \cap 1 .. pktMgr'[q].msgNo)
                 = pktMgr'[q].msgNo
    <3>1. PICK r \in Procs : SameMessages(pktMgr'[q], pktMgr[r])
      BY <1>3, <1>5, <1>6 DEF SameMessages
    <3> QED
      BY <3>1 DEF SameMessages, CountsAgree, HooksInvariant
  <2> QED
    BY <1>4, <2>1 DEF CountsAgree
<1>10. NotYetActive'
  <2>1. \A q \in Procs : q > k => q # k /\ q > forked
    BY <1>3
  <2>2. ASSUME NEW q \in Procs, q > k
        PROVE  pktMgr'[q].msgNo = 0 /\ wire[q] = << >>
    BY <1>6, <2>1, <2>2 DEF NotYetActive, HooksInvariant
  <2> QED
    BY <1>1, <2>2 DEF NotYetActive
<1>11. EventsAsked'
  <2>1. \A q \in Procs : EventsOf(q)
    BY EventsAre DEF HooksInvariant
  <2>2. ASSUME NEW q \in Procs
        PROVE  /\ pktMgr'[q].standard = ListEvents(Listed) \o
                    (IF q <= k THEN << infoSeqNo >> ELSE << >>)
               /\ EventsFrom(pktMgr'[q].chance, MayHappen)
    <3>1. CASE q = k
      BY <1>1, <1>3, <1>5, <1>6, <2>1, <3>1 DEF EventsOf
    <3>2. CASE q # k
      <4>1. q <= k <=> q <= forked
        BY <1>3, <3>2
      <4> QED
        BY <1>1, <1>6, <2>1, <3>2, <4>1 DEF EventsOf
    <3> QED
      BY <3>1, <3>2
  <2>3. \A q \in Procs : EventsOf(q)'
    BY <1>1, <1>4, <2>2 DEF EventsOf
  <2> QED
    BY <2>3 DEF EventsAsked, EventsOf, ListEvents, EventsFrom, MayHappen
<1>12. WireIsSent'
  <2>1. /\ \A q \in Procs : q = k => Lost(q)' = {}
        /\ DOMAIN wire[k] = {}
    BY <1>1, <1>7 DEF Lost
  <2>2. \A q \in Procs : q # k => Lost(q)' = Lost(q) /\ pktMgr'[q].msgNo = pktMgr[q].msgNo
    BY <1>1, <1>6 DEF Lost
  <2> QED
    BY <1>1, <1>4, <2>1, <2>2 DEF WireIsSent, HooksInvariant
<1>13. SeedsCounted' /\ ChildrenDiffer'
  <2>1. SUFFICES ASSUME ~ isSet(environ.seed)
                 PROVE  /\ \A p \in 1 .. k : pktMgr'[p].seed < nextSeed'[0]
                        /\ \A p, q \in 1 .. k : p # q => pktMgr'[p].seed # pktMgr'[q].seed
    BY <1>1 DEF SeedsCounted, ChildrenDiffer
  <2>2. /\ \A p \in 1 .. forked : pktMgr[p].seed < nextSeed[0]
        /\ \A p, q \in 1 .. forked : p # q => pktMgr[p].seed # pktMgr[q].seed
    BY <2>1 DEF SeedsCounted, ChildrenDiffer, HooksInvariant
  <2>3. pktMgr'[k].seed = nextSeed[0]
    BY <1>3, <1>5, <1>6, <2>1
  <2>4. \A p \in 1 .. k : p = k \/ p \in 1 .. forked
    BY <1>3
  <2>5. \A p \in 1 .. forked : pktMgr'[p].seed = pktMgr[p].seed
    BY <1>3, <1>6
  <2>6. \A p \in Procs : pktMgr[p].seed \in Int
    BY <1>2 DEF TypeOK, Managers
  <2>7. \A p \in 1 .. forked : p \in Procs
    BY <1>3
  <2>8. \A p \in 1 .. k : pktMgr'[p].seed < nextSeed'[0]
    <3>1. nextSeed[0] < nextSeed[0] + 1 /\ \A x \in Int : x < nextSeed[0] => x < nextSeed[0] + 1
      BY <1>3
    <3> QED
      BY <1>6, <2>2, <2>3, <2>4, <2>5, <2>6, <2>7, <3>1
  <2>9. ASSUME NEW p \in 1 .. k, NEW q \in 1 .. k, p # q
        PROVE  pktMgr'[p].seed # pktMgr'[q].seed
    <3>1. \A x \in Int : x < nextSeed[0] => x # nextSeed[0]
      BY <1>3
    <3>2. \A r \in 1 .. forked : pktMgr'[r].seed # nextSeed[0]
      BY <2>2, <2>5, <2>6, <2>7, <3>1
    <3> QED
      BY <2>2, <2>3, <2>4, <2>5, <2>9, <3>2
  <2> QED
    BY <2>8, <2>9
<1> QED
  BY <1>8, <1>9, <1>10, <1>11, <1>12, <1>13 DEF HooksInvariant

\* What sendto_Err() does to one process and to what is under way.
MessageSent(p, m) ==
  LET no == pktMgr[p].msgNo + 1
  IN  /\ asked.called /\ p <= forked
      /\ UNCHANGED <<environ, asked, nextSeed, forked, taken>>
      /\ \E new \in Managers :
           /\ pktMgr' = [pktMgr EXCEPT ![p] = new]
           /\ new.msgNo = no /\ new.seed = pktMgr[p].seed
           /\ new.standard = pktMgr[p].standard /\ new.chance = pktMgr[p].chance
           /\ new.history = IF no \in Listed THEN pktMgr[p].history
                            ELSE Append(pktMgr[p].history, m.seq)
      /\ \/ UNCHANGED wire /\ (no \in Listed \/ RandomDrops)
         \/ \E x \in {m, Corrupted} :
              /\ no \notin Listed /\ (~ RandomFlips => x = m)
              /\ wire' = [wire EXCEPT ![p] = Append(@, [no |-> no, packet |-> x])]

LEMMA SendtoSends ==
  ASSUME HooksInvariant, NEW p \in Procs, NEW m \in Datagrams, sendto_Err(p, m)
  PROVE  MessageSent(p, m)
<1> DEFINE mgr == pktMgr[p]
           no == mgr.msgNo + 1
           buf == createPDU(m.seq, m.flag, m.payload)
           history == recordSeqNo(mgr, no, buf)
           new == [mgr EXCEPT !.msgNo = no, !.history = history]
<1>1. /\ Running(p)
      /\ pktMgr' = [pktMgr EXCEPT ![p] = new]
      /\ UNCHANGED <<environ, asked, nextSeed, forked, taken>>
  BY DEF sendto_Err
<1>2. PICK out \in processEvents(mgr, no, buf) :
        wire' = IF out.dropped THEN wire
                ELSE [wire EXCEPT ![p] =
                        Append(@, [no |-> no, packet |-> retrieveHeader(out.bytes)])]
  BY DEF sendto_Err
<1>3. TypeOK /\ environ \in Environments
  BY DEF TypeOK, HooksInvariant
<1>4. asked.called /\ p <= forked
  <2>1. forked \in Nat
    BY <1>3 DEF TypeOK, Procs
  <2> QED
    BY <1>1, <2>1 DEF Running
<1>5. mgr \in Managers /\ mgr.msgNo \in Nat /\ no \in Nat /\ mgr.history \in Seq(Nat)
  <2> HIDE DEF buf, history, new
  <2>1. mgr \in Managers
    BY <1>3 DEF TypeOK
  <2> HIDE DEF mgr
  <2>2. mgr.msgNo \in Nat /\ mgr.history \in Seq(Nat)
    BY <2>1 DEF Managers
  <2> QED
    BY <2>1, <2>2
<1>6. Listed \in SUBSET Nat
  BY <1>3, ListedIs
<1>7. EventsOf(p)
  BY EventsAre DEF HooksInvariant
<1>8. mgr.standard = (IF Listed = {} THEN << >> ELSE << setDropSpecific(Listed) >>)
                     \o << infoSeqNo >>
  BY <1>4, <1>7 DEF EventsOf, ListEvents
<1>9. EventsFrom(mgr.chance, MayHappen) /\ MayHappen \in SUBSET {errorDrop, errorFlipBits}
  BY <1>7 DEF EventsOf, MayHappen
<1>10. in_cksum(buf) = 0 /\ retrieveHeader(buf) = m
  BY DatagramArrives
<1>11. ntohl(buf) = m.seq /\ m.seq \in Nat
  <2>1. m \in Packets
    BY HooksAssumption, SMT
  <2>2. m.seq \in Nat
    BY <2>1 DEF Packets
  <2> HIDE DEF buf
  <2>3. m = [seq |-> ntohl(buf), flag |-> buf[7],
             payload |-> SubSeq(buf, HEADERLEN + 1, Len(buf)), ok |-> TRUE]
    BY <1>10 DEF retrieveHeader
  <2> QED
    BY <2>2, <2>3
<1> HIDE DEF buf
<1>12. /\ history = IF no \in Listed THEN mgr.history ELSE Append(mgr.history, ntohl(buf))
       /\ no \in Listed => out.dropped
       /\ out.dropped => no \in Listed \/ errorDrop \in MayHappen
       /\ retrieveHeader(out.bytes) \in {m, Corrupted}
       /\ errorFlipBits \notin MayHappen => retrieveHeader(out.bytes) = m
  <2>1. Outcome(mgr, Listed, MayHappen, m, no)
    BY <1>5, <1>6, <1>8, <1>9, MessageOut DEF SetUp
  <2> QED
    BY <1>2, <2>1 DEF Outcome, buf
<1>13. /\ history = IF no \in Listed THEN mgr.history ELSE Append(mgr.history, m.seq)
       /\ history \in Seq(Nat)
  <2>1. Append(mgr.history, m.seq) \in Seq(Nat)
    BY <1>5, <1>11, AppendProperties
  <2> QED
    BY <1>5, <1>11, <1>12, <2>1
<1> HIDE DEF history
<1>14. /\ new \in Managers /\ new.msgNo = no /\ new.seed = mgr.seed
       /\ new.standard = mgr.standard /\ new.chance = mgr.chance
       /\ new.history = history
  BY <1>5, <1>13 DEF Managers
<1> HIDE DEF new
<1>15. \/ UNCHANGED wire /\ (no \in Listed \/ RandomDrops)
       \/ \E x \in {m, Corrupted} :
            /\ no \notin Listed /\ (~ RandomFlips => x = m)
            /\ wire' = [wire EXCEPT ![p] = Append(@, [no |-> no, packet |-> x])]
  <2> DEFINE x == retrieveHeader(out.bytes)
  <2>1. CASE out.dropped
    BY <1>2, <1>12, <2>1, WhatMayHappen
  <2>2. CASE ~ out.dropped
    <3>1. /\ x \in {m, Corrupted} /\ no \notin Listed /\ (~ RandomFlips => x = m)
          /\ wire' = [wire EXCEPT ![p] = Append(@, [no |-> no, packet |-> x])]
      BY <1>2, <1>12, <2>2, WhatMayHappen
    <3> QED
      BY <3>1
  <2> QED
    BY <2>1, <2>2
<1> QED
  BY <1>1, <1>4, <1>13, <1>14, <1>15 DEF MessageSent

\* What is received is what was put on the wire: appended to it at its end.
LEMMA OneMoreUnderWay ==
  ASSUME HooksInvariant, NEW p \in Procs, NEW e \in [no : Nat, packet : Packets],
         wire' = [wire EXCEPT ![p] = Append(@, e)]
  PROVE  /\ \A q \in Procs : q # p => wire'[q] = wire[q]
         /\ Len(wire[p]) \in Nat /\ Len(wire'[p]) = Len(wire[p]) + 1
         /\ DOMAIN wire[p] = 1 .. Len(wire[p]) /\ DOMAIN wire'[p] = 1 .. Len(wire[p]) + 1
         /\ \A i \in 1 .. Len(wire[p]) : wire'[p][i] = wire[p][i]
         /\ wire'[p][Len(wire[p]) + 1] = e
         /\ wire' \in [Procs -> Seq([no : Nat, packet : Packets])]
<1> DEFINE s == wire[p]
           S == Seq([no : Nat, packet : Packets])
<1>1. wire \in [Procs -> S] /\ s \in S
  BY DEF HooksInvariant, TypeOK
<1>2. /\ Append(s, e) \in S
      /\ Len(Append(s, e)) = Len(s) + 1
      /\ \A i \in 1 .. Len(s) : Append(s, e)[i] = s[i]
      /\ Append(s, e)[Len(s) + 1] = e
  BY <1>1, AppendProperties
<1>3. wire'[p] = Append(s, e) /\ \A q \in Procs : q # p => wire'[q] = wire[q]
  BY <1>1
<1>4. Len(s) \in Nat /\ DOMAIN s = 1 .. Len(s)
      /\ DOMAIN Append(s, e) = 1 .. Len(Append(s, e))
  BY <1>1, <1>2, LenProperties
<1>5. wire' \in [Procs -> S]
  <2> HIDE DEF S
  <2> QED
    BY <1>1, <1>2
<1> QED
  BY <1>2, <1>3, <1>4, <1>5

LEMMA PacketsSent ==
  /\ Corrupted \in Packets
  /\ \A m \in Datagrams : m \in Packets /\ m.ok /\ m.seq \in Nat
<1>1. \A m \in Datagrams : m \in Packets /\ m.ok
  BY HooksAssumption, SMT
<1>2. 0 \in Bytes /\ 0 \in Nat /\ << >> \in Seq(Bytes)
  BY EmptySeq, RangeByte
<1>3. Corrupted \in Packets
  BY <1>2 DEF Corrupted, Packets
<1> QED
  BY <1>1, <1>3 DEF Packets

\* A message more is counted, recorded or listed, and on the wire or lost.
LEMMA SendtoKeeps ==
  ASSUME HooksInvariant, NEW p \in Procs, NEW m \in Datagrams, MessageSent(p, m)
  PROVE  HooksInvariant'
<1> DEFINE no == pktMgr[p].msgNo + 1
<1>1. /\ asked.called /\ p <= forked
      /\ UNCHANGED <<environ, asked, nextSeed, forked, taken>>
  BY DEF MessageSent
<1>2. PICK new \in Managers :
        /\ pktMgr' = [pktMgr EXCEPT ![p] = new]
        /\ new.msgNo = no /\ new.seed = pktMgr[p].seed
        /\ new.standard = pktMgr[p].standard /\ new.chance = pktMgr[p].chance
        /\ new.history = IF no \in Listed THEN pktMgr[p].history
                         ELSE Append(pktMgr[p].history, m.seq)
  BY DEF MessageSent
<1>3. \/ UNCHANGED wire /\ (no \in Listed \/ RandomDrops)
      \/ \E x \in {m, Corrupted} :
           /\ no \notin Listed /\ (~ RandomFlips => x = m)
           /\ wire' = [wire EXCEPT ![p] = Append(@, [no |-> no, packet |-> x])]
  BY DEF MessageSent
<1>4. /\ TypeOK /\ environ \in Environments
      /\ pktMgr[p].msgNo \in Nat /\ no \in Nat /\ no = pktMgr[p].msgNo + 1
      /\ pktMgr[p].history \in Seq(Nat)
      /\ forked \in Nat /\ Procs \subseteq Nat
  <2>1. TypeOK /\ environ \in Environments /\ pktMgr[p] \in Managers
    BY DEF TypeOK, HooksInvariant
  <2>2. forked \in Nat /\ Procs \subseteq Nat
    BY <2>1 DEF TypeOK, Procs
  <2>3. pktMgr[p].msgNo \in Nat /\ pktMgr[p].history \in Seq(Nat)
    BY <2>1 DEF Managers
  <2>4. no \in Nat
    BY <2>3
  <2> QED
    BY <2>1, <2>2, <2>3, <2>4
<1> HIDE DEF no
<1>5. \A q \in Procs : pktMgr'[q] = IF q = p THEN new ELSE pktMgr[q]
  BY <1>2, <1>4 DEF TypeOK
<1>6. /\ (RandomDrops' <=> RandomDrops) /\ (RandomFlips' <=> RandomFlips)
      /\ Listed' = Listed /\ MayHappen' = MayHappen /\ Listed \in SUBSET Nat
  BY <1>1, <1>4, ListedIs DEF RandomDrops, RandomFlips, Listed, MayHappen
<1>7. m \in Packets /\ m.ok /\ m.seq \in Nat /\ Corrupted \in Packets
  BY PacketsSent
<1>8. TypeOK' /\ SeedsCounted' /\ ChildrenDiffer'
  <2>1. pktMgr' \in [Procs -> Managers]
    BY <1>2, <1>4 DEF TypeOK
  <2>2. wire' \in [Procs -> Seq([no : Nat, packet : Packets])]
    <3>1. ASSUME NEW x \in {m, Corrupted},
                 wire' = [wire EXCEPT ![p] = Append(@, [no |-> no, packet |-> x])]
          PROVE  wire' \in [Procs -> Seq([no : Nat, packet : Packets])]
      <4>1. [no |-> no, packet |-> x] \in [no : Nat, packet : Packets]
        BY <1>4, <1>7
      <4> QED
        BY <3>1, <4>1, OneMoreUnderWay
    <3> QED
      BY <1>3, <1>4, <3>1 DEF TypeOK
  <2>3. TypeOK'
    BY <1>1, <1>4, <2>1, <2>2 DEF TypeOK
  <2>4. \A q \in 1 .. forked : q \in Procs
    BY <1>4, HooksAssumption DEF TypeOK, Procs
  <2>5. \A q \in 1 .. forked : pktMgr'[q].seed = pktMgr[q].seed
    BY <1>2, <1>5, <2>4
  <2>6. SeedsCounted' /\ ChildrenDiffer'
    BY <1>1, <2>5 DEF SeedsCounted, ChildrenDiffer, HooksInvariant
  <2> QED
    BY <2>3, <2>6
<1>9. CountsAgree'
  <2>1. Len(pktMgr[p].history) + Cardinality(Listed \cap 1 .. pktMgr[p].msgNo)
          = pktMgr[p].msgNo
    BY DEF CountsAgree, HooksInvariant
  <2>2. /\ Cardinality(Listed \cap 1 .. pktMgr[p].msgNo) \in Nat
        /\ Cardinality(Listed \cap 1 .. no) =
             Cardinality(Listed \cap 1 .. pktMgr[p].msgNo) + (IF no \in Listed THEN 1 ELSE 0)
    BY <1>4, <1>6, OneMore
  <2>3. /\ Len(pktMgr[p].history) \in Nat
        /\ Len(new.history) = Len(pktMgr[p].history) + (IF no \in Listed THEN 0 ELSE 1)
    <3>1. Len(Append(pktMgr[p].history, m.seq)) = Len(pktMgr[p].history) + 1
      BY <1>4, <1>7, AppendProperties
    <3>2. Len(pktMgr[p].history) \in Nat
      BY <1>4, LenProperties
    <3>3. CASE no \in Listed
      BY <1>2, <3>2, <3>3
    <3>4. CASE no \notin Listed
      BY <1>2, <3>1, <3>2, <3>4
    <3> QED
      BY <3>3, <3>4
  <2>4. Len(new.history) + Cardinality(Listed \cap 1 .. new.msgNo) = new.msgNo
    <3>1. new.msgNo = no
      BY <1>2
    <3> DEFINE l == Len(pktMgr[p].history)
               c == Cardinality(Listed \cap 1 .. pktMgr[p].msgNo)
               n == pktMgr[p].msgNo
    <3>2. /\ l \in Nat /\ c \in Nat /\ n \in Nat /\ no = n + 1 /\ l + c = n
          /\ Len(new.history) = l + (IF no \in Listed THEN 0 ELSE 1)
          /\ Cardinality(Listed \cap 1 .. no) = c + (IF no \in Listed THEN 1 ELSE 0)
      BY <1>4, <2>1, <2>2, <2>3
    <3> HIDE DEF l, c, n
    <3>3. Len(new.history) + Cardinality(Listed \cap 1 .. no) = no
      <4>1. CASE no \in Listed
        BY <3>2, <4>1
      <4>2. CASE no \notin Listed
        BY <3>2, <4>2
      <4> QED
        BY <4>1, <4>2
    <3> QED
      BY <3>1, <3>3
  <2>5. ASSUME NEW q \in Procs
        PROVE  Len(pktMgr'[q].history) + Cardinality(Listed \cap 1 .. pktMgr'[q].msgNo)
                 = pktMgr'[q].msgNo
    BY <1>5, <2>4 DEF CountsAgree, HooksInvariant
  <2> QED
    BY <1>6, <2>5 DEF CountsAgree
<1>10. NotYetActive'
  <2>1. ASSUME NEW q \in Procs, q > forked
        PROVE  pktMgr'[q].msgNo = 0 /\ wire'[q] = << >>
    <3>1. q # p
      BY <1>1, <1>4, <2>1
    <3>2. pktMgr'[q] = pktMgr[q] /\ wire'[q] = wire[q]
      BY <1>3, <1>4, <1>5, <3>1 DEF TypeOK
    <3> QED
      BY <2>1, <3>2 DEF NotYetActive, HooksInvariant
  <2> QED
    BY <1>1, <2>1 DEF NotYetActive
<1>11. EventsAsked'
  <2>1. \A q \in Procs : EventsOf(q)
    BY EventsAre DEF HooksInvariant
  <2>2. \A q \in Procs : /\ pktMgr'[q].standard = pktMgr[q].standard
                         /\ pktMgr'[q].chance = pktMgr[q].chance
    BY <1>2, <1>5
  <2>3. \A q \in Procs : EventsOf(q)'
    BY <1>1, <1>6, <2>1, <2>2 DEF EventsOf
  <2> QED
    BY <2>3 DEF EventsAsked, EventsOf, ListEvents, EventsFrom, MayHappen
<1>12. WireIsSent'
  <2> DEFINE Fine(q) ==
        /\ taken'[q] <= Len(wire'[q])
        /\ \A i \in DOMAIN wire'[q] :
             /\ wire'[q][i].no \in 1 .. pktMgr'[q].msgNo \ Listed
             /\ wire'[q][i].packet \in Datagrams \cup {Corrupted}
             /\ ~ RandomFlips => wire'[q][i].packet.ok
        /\ ~ RandomDrops => Lost(q)' \subseteq Listed
  <2>1. ASSUME NEW q \in Procs
        PROVE  /\ taken'[q] <= Len(wire[q]) /\ taken'[q] \in Nat
               /\ \A i \in DOMAIN wire[q] :
                    /\ wire[q][i].no \in 1 .. pktMgr[q].msgNo \ Listed
                    /\ wire[q][i].packet \in Datagrams \cup {Corrupted}
                    /\ ~ RandomFlips => wire[q][i].packet.ok
               /\ ~ RandomDrops => Lost(q) \subseteq Listed
    BY <1>1, <1>4 DEF WireIsSent, HooksInvariant, TypeOK
  <2>2. ASSUME NEW q \in Procs, q # p
        PROVE  Fine(q)
    <3>1. pktMgr'[q] = pktMgr[q] /\ wire'[q] = wire[q]
      BY <1>3, <1>4, <1>5, <2>2 DEF TypeOK
    <3>2. Lost(q)' = Lost(q)
      BY <3>1 DEF Lost
    <3> QED
      BY <2>1, <3>1, <3>2
  <2>3. /\ pktMgr'[p].msgNo = no
        /\ \A i \in 1 .. pktMgr[p].msgNo : i \in 1 .. no
        /\ no \in 1 .. no
        /\ \A i \in 1 .. no : i = no \/ i \in 1 .. pktMgr[p].msgNo
    BY <1>2, <1>4, <1>5
  <2>4. ASSUME UNCHANGED wire, no \in Listed \/ RandomDrops
        PROVE  Fine(p)
    <3>1. Lost(p)' \subseteq Lost(p) \cup {no}
      BY <2>3, <2>4 DEF Lost
    <3>2. ~ RandomDrops => Lost(p)' \subseteq Listed
      BY <2>1, <2>4, <3>1
    <3> QED
      BY <2>1, <2>3, <2>4, <3>2
  <2>5. ASSUME NEW x \in {m, Corrupted}, no \notin Listed, ~ RandomFlips => x = m,
               wire' = [wire EXCEPT ![p] = Append(@, [no |-> no, packet |-> x])]
        PROVE  Fine(p)
    <3> DEFINE e == [no |-> no, packet |-> x]
    <3>1. e \in [no : Nat, packet : Packets] /\ e.no = no /\ e.packet = x
      BY <1>4, <1>7
    <3> HIDE DEF e
    <3>2. /\ Len(wire[p]) \in Nat /\ Len(wire'[p]) = Len(wire[p]) + 1
          /\ DOMAIN wire[p] = 1 .. Len(wire[p]) /\ DOMAIN wire'[p] = 1 .. Len(wire[p]) + 1
          /\ \A i \in 1 .. Len(wire[p]) : wire'[p][i] = wire[p][i]
          /\ wire'[p][Len(wire[p]) + 1] = e
      BY <2>5, <3>1, OneMoreUnderWay DEF e
    <3>3. taken'[p] <= Len(wire'[p])
      BY <2>1, <3>2
    <3>4. ASSUME NEW i \in DOMAIN wire'[p]
          PROVE  \/ i \in DOMAIN wire[p] /\ wire'[p][i] = wire[p][i]
                 \/ wire'[p][i] = e
      BY <3>2
    <3>5. /\ \A i \in DOMAIN wire[p] : i \in DOMAIN wire'[p] /\ wire'[p][i] = wire[p][i]
          /\ Len(wire[p]) + 1 \in DOMAIN wire'[p] /\ wire'[p][Len(wire[p]) + 1] = e
      BY <3>2
    <3>6. Lost(p)' \subseteq Lost(p)
      BY <2>3, <3>1, <3>5 DEF Lost
    <3>7. e.packet \in Datagrams \cup {Corrupted} /\ (~ RandomFlips => e.packet.ok)
      BY <1>7, <2>5, <3>1
    <3>8. ASSUME NEW i \in DOMAIN wire'[p]
          PROVE  /\ wire'[p][i].no \in 1 .. pktMgr'[p].msgNo \ Listed
                 /\ wire'[p][i].packet \in Datagrams \cup {Corrupted}
                 /\ ~ RandomFlips => wire'[p][i].packet.ok
      <4>1. CASE wire'[p][i] = e
        BY <2>3, <2>5, <3>1, <3>7, <4>1
      <4>2. CASE i \in DOMAIN wire[p] /\ wire'[p][i] = wire[p][i]
        BY <2>1, <2>3, <4>2
      <4> QED
        BY <3>4, <4>1, <4>2
    <3> QED
      BY <2>1, <3>3, <3>6, <3>8
  <2>6. \A q \in Procs : Fine(q)
    <3> HIDE DEF Fine
    <3> QED
      BY <1>3, <2>2, <2>4, <2>5
  <2> QED
    BY <1>6, <2>6 DEF WireIsSent
<1> QED
  BY <1>8, <1>9, <1>10, <1>11, <1>12 DEF HooksInvariant

LEMMA HooksStep ==
  ASSUME HooksInvariant, [Next]_vars
  PROVE  HooksInvariant'
<1>1. CASE forkMod
  BY <1>1, ForkKeeps
<1>2. ASSUME NEW rate \in UserRates, NEW drop \in BOOLEAN, NEW flip \in BOOLEAN,
             NEW random \in BOOLEAN, NEW time \in Times, NEW later \in Times,
             sendErr_init(rate, drop, flip, random, time, later)
      PROVE  HooksInvariant'
  BY <1>2, InitKeeps
<1>3. ASSUME NEW p \in Procs, recvfrom(p)
      PROVE  HooksInvariant'
  BY <1>3, RecvfromKeeps
<1>4. ASSUME NEW p \in Procs, NEW m \in Datagrams, sendto_Err(p, m)
      PROVE  HooksInvariant'
  BY <1>4, SendtoSends, SendtoKeeps
<1>5. CASE UNCHANGED vars
  <2>1. /\ (RandomDrops' <=> RandomDrops) /\ (RandomFlips' <=> RandomFlips)
        /\ Listed' = Listed
    BY <1>5 DEF vars, RandomDrops, RandomFlips, Listed
  <2>2. \A p \in Procs : Lost(p)' = Lost(p)
    BY <1>5 DEF vars, Lost
  <2>3. TypeOK' /\ CountsAgree' /\ NotYetActive' /\ SeedsCounted' /\ ChildrenDiffer'
    BY <1>5, <2>1 DEF vars, HooksInvariant, TypeOK, CountsAgree, NotYetActive,
                      SeedsCounted, ChildrenDiffer
  <2>4. EventsAsked'
    BY <1>5, <2>1 DEF vars, HooksInvariant, EventsAsked
  <2>5. WireIsSent'
    BY <1>5, <2>1, <2>2 DEF vars, HooksInvariant, WireIsSent
  <2> QED
    BY <2>3, <2>4, <2>5 DEF HooksInvariant
<1> QED
  BY <1>1, <1>2, <1>3, <1>4, <1>5 DEF Next

\* In every program and environment, what is sent, reported, listed, on the wire
\* and lost of each process agrees, and its events are those that were asked for.
THEOREM HooksAreConsistent == Spec => []HooksInvariant
<1>1. Init => HooksInvariant
  BY HooksStart
<1>2. HooksInvariant /\ [Next]_vars => HooksInvariant'
  BY HooksStep
<1> QED
  BY <1>1, <1>2, PTL DEF Spec

\* The library takes a value that is described for what it asks for.
LEMMA DescribedIsTaken ==
  ASSUME environ \in Environments
  PROVE  /\ Described(environ.drop) =>
              /\ Listed = AsksFor(environ.drop)
              /\ RandomDrops <=> AsksRandom(environ.drop, asked.drop)
         /\ Described(environ.flip) =>
              (RandomFlips <=> AsksRandom(environ.flip, asked.flip))
<1>1. environ.drop \in Lists /\ environ.flip \in Lists
  BY EnvironmentTyped
<1>2. ASSUME Described(environ.drop)
      PROVE  /\ Listed = AsksFor(environ.drop)
             /\ RandomDrops <=> AsksRandom(environ.drop, asked.drop)
  <2>1. CASE environ.drop = Unset
    BY <2>1 DEF Listed, RandomDrops, AsksFor, AsksRandom
  <2>2. CASE environ.drop # Unset
    <3>1. /\ parserLong2Uint32(environ.drop) = AsksFor(environ.drop)
          /\ parserLong2Uint32(environ.drop) = {} <=> environ.drop = RandomValue
      BY <1>1, <1>2, <2>2, DescribedRead
    <3> QED
      BY <2>2, <3>1 DEF Listed, RandomDrops, AsksRandom
  <2> QED
    BY <2>1, <2>2
<1>3. Described(environ.flip) => (RandomFlips <=> AsksRandom(environ.flip, asked.flip))
  <2>1. CASE environ.flip = Unset
    BY <2>1 DEF RandomFlips, AsksRandom
  <2>2. CASE environ.flip # Unset
    BY <1>1, <2>2, DescribedRead DEF RandomFlips, AsksRandom
  <2> QED
    BY <2>1, <2>2
<1> QED
  BY <1>2, <1>3

\* Whatever the environment holds that SettingsManager.h describes, and whatever
\* the program wants: nothing is lost or flipped that was not asked for, and the
\* messages whose numbers are written in the environment are lost
\* (SettingsManager.cpp, PacketManager.cpp).
THEOREM ErrorsAreAsked == Spec => []OnlyAskedErrors
<1>1. ASSUME HooksInvariant
      PROVE  OnlyAskedErrors
  <2>1. environ \in Environments
    BY <1>1 DEF HooksInvariant, TypeOK
  <2>2. ASSUME NEW p \in Procs
        PROVE  /\ Listed \cap 1 .. pktMgr[p].msgNo \subseteq Lost(p)
               /\ ~ RandomDrops => Lost(p) \subseteq Listed
               /\ ~ RandomFlips => \A i \in DOMAIN wire[p] : wire[p][i].packet.ok
    BY <1>1 DEF HooksInvariant, WireIsSent, Lost
  <2>3. ASSUME NEW p \in Procs, Described(environ.drop)
        PROVE  /\ AsksFor(environ.drop) \cap 1 .. pktMgr[p].msgNo \subseteq Lost(p)
               /\ ~ AsksRandom(environ.drop, asked.drop) =>
                    Lost(p) \subseteq AsksFor(environ.drop)
    BY <2>1, <2>2, <2>3, DescribedIsTaken
  <2>4. ASSUME NEW p \in Procs, Described(environ.flip),
               ~ AsksRandom(environ.flip, asked.flip)
        PROVE  \A i \in DOMAIN wire[p] : wire[p][i].packet.ok
    BY <2>1, <2>2, <2>4, DescribedIsTaken
  <2> QED
    BY <2>3, <2>4 DEF OnlyAskedErrors
<1>2. HooksInvariant => OnlyAskedErrors
  BY <1>1
<1> QED
  BY <1>2, HooksAreConsistent, PTL

\* However many children are forked, each has a seed of its own, unless the
\* environment gives one to all (network-hooks.c, forkMod()).
THEOREM SeedsDiffer == Spec => []ChildrenDiffer
<1>1. HooksInvariant => ChildrenDiffer
  BY DEF HooksInvariant
<1> QED
  BY <1>1, HooksAreConsistent, PTL

-----------------------------------------------------------------------------
(* The network: what is under way of a process is what is on its wire w beyond
   the t datagrams taken. *)

Entries == [no : Nat, packet : Packets]

UnderWay(w, t) == [i \in 1 .. Len(w) - t |-> w[t + i].packet]

LEMMA UnderWayIs ==
  ASSUME NEW w \in Seq(Entries), NEW t \in Nat, t <= Len(w)
  PROVE  /\ UnderWay(w, t) \in Seq(Packets) /\ Len(UnderWay(w, t)) = Len(w) - t
         /\ \A i \in 1 .. Len(w) - t : UnderWay(w, t)[i] = w[t + i].packet
<1> DEFINE n == Len(w) - t
<1>1. n \in Nat /\ \A i \in 1 .. n : t + i \in 1 .. Len(w)
  BY LenProperties
<1>2. \A i \in 1 .. Len(w) : w[i].packet \in Packets
  <2>1. \A i \in 1 .. Len(w) : w[i] \in Entries
    BY ElementOfSeq
  <2> QED
    BY <2>1 DEF Entries
<1> HIDE DEF n
<1>3. UnderWay(w, t) = [i \in 1 .. n |-> w[t + i].packet]
  BY DEF UnderWay, n
<1>4. \A i \in 1 .. n : w[t + i].packet \in Packets
  BY <1>1, <1>2
<1>5. UnderWay(w, t) \in Seq(Packets) /\ Len(UnderWay(w, t)) = n
  BY <1>1, <1>3, <1>4, IsASeq
<1> QED
  BY <1>3, <1>5 DEF n

\* What is put on the wire comes last.
LEMMA UnderWayGrows ==
  ASSUME NEW w \in Seq(Entries), NEW t \in Nat, t <= Len(w), NEW e \in Entries
  PROVE  UnderWay(Append(w, e), t) = Append(UnderWay(w, t), e.packet)
<1> DEFINE v == Append(w, e)
           a == UnderWay(v, t)
           u == UnderWay(w, t)
           b == Append(u, e.packet)
<1>1. /\ v \in Seq(Entries) /\ Len(v) = Len(w) + 1 /\ Len(w) \in Nat
      /\ \A i \in 1 .. Len(w) : v[i] = w[i]
      /\ v[Len(w) + 1] = e
  BY AppendProperties, LenProperties
<1>2. e.packet \in Packets
  BY DEF Entries
<1> HIDE DEF v
<1>3. /\ a \in Seq(Packets) /\ Len(a) = Len(w) + 1 - t
      /\ \A i \in 1 .. Len(w) + 1 - t : a[i] = v[t + i].packet
  <2>1. t <= Len(v) /\ Len(v) - t = Len(w) + 1 - t
    BY <1>1
  <2>2. /\ a \in Seq(Packets) /\ Len(a) = Len(v) - t
        /\ \A i \in 1 .. Len(v) - t : a[i] = v[t + i].packet
    BY <1>1, <2>1, UnderWayIs
  <2> QED
    BY <2>1, <2>2
<1>4. /\ u \in Seq(Packets) /\ Len(u) = Len(w) - t
      /\ \A i \in 1 .. Len(w) - t : u[i] = w[t + i].packet
  BY UnderWayIs
<1> HIDE DEF a, u
<1>5. /\ b \in Seq(Packets) /\ Len(b) = Len(u) + 1
      /\ \A i \in 1 .. Len(u) : b[i] = u[i]
      /\ b[Len(u) + 1] = e.packet
  BY <1>2, <1>4, AppendProperties
<1> HIDE DEF b
<1>6. Len(a) = Len(b)
  BY <1>1, <1>3, <1>4, <1>5
<1>7. ASSUME NEW i \in 1 .. Len(a)
      PROVE  a[i] = b[i]
  <2>1. CASE i = Len(w) + 1 - t
    <3>1. t + i = Len(w) + 1 /\ i \in 1 .. Len(w) + 1 - t /\ i = Len(u) + 1
      BY <1>1, <1>4, <2>1
    <3> QED
      BY <1>1, <1>3, <1>5, <3>1
  <2>2. CASE i # Len(w) + 1 - t
    <3>1. /\ i \in 1 .. Len(w) - t /\ t + i \in 1 .. Len(w)
          /\ i \in 1 .. Len(w) + 1 - t /\ i \in 1 .. Len(u)
      <4>1. i \in 1 .. Len(w) + 1 - t /\ Len(w) \in Nat
        BY <1>1, <1>3
      <4>2. i \in 1 .. Len(w) - t /\ t + i \in 1 .. Len(w)
        BY <2>2, <4>1
      <4> QED
        BY <1>4, <4>1, <4>2
    <3> QED
      BY <1>1, <1>3, <1>4, <1>5, <3>1
  <2> QED
    BY <2>1, <2>2
<1>8. a = b
  BY <1>3, <1>5, <1>6, <1>7, SeqEqual
<1> QED
  BY <1>8 DEF a, b, u, v

\* What is taken comes first.
LEMMA UnderWayShrinks ==
  ASSUME NEW w \in Seq(Entries), NEW t \in Nat, t < Len(w)
  PROVE  UnderWay(w, t) # << >> /\ UnderWay(w, t + 1) = Tail(UnderWay(w, t))
<1> DEFINE u == UnderWay(w, t)
           a == UnderWay(w, t + 1)
<1>1. Len(w) \in Nat /\ t <= Len(w) /\ t + 1 <= Len(w) /\ t + 1 \in Nat
  BY LenProperties
<1>2. /\ u \in Seq(Packets) /\ Len(u) = Len(w) - t
      /\ \A i \in 1 .. Len(w) - t : u[i] = w[t + i].packet
  BY <1>1, UnderWayIs
<1>3. /\ a \in Seq(Packets) /\ Len(a) = Len(w) - (t + 1)
      /\ \A i \in 1 .. Len(w) - (t + 1) : a[i] = w[(t + 1) + i].packet
  BY <1>1, UnderWayIs
<1> HIDE DEF u, a
<1>4. u # << >>
  BY <1>1, <1>2, EmptySeq
<1>5. /\ Tail(u) \in Seq(Packets) /\ Len(Tail(u)) = Len(u) - 1
      /\ \A i \in 1 .. Len(Tail(u)) : Tail(u)[i] = u[i + 1]
  BY <1>2, <1>4, HeadTailProperties
<1>6. Len(a) = Len(Tail(u))
  BY <1>1, <1>2, <1>3, <1>5
<1>7. ASSUME NEW i \in 1 .. Len(a)
      PROVE  a[i] = Tail(u)[i]
  <2>1. /\ i \in 1 .. Len(w) - (t + 1) /\ i \in 1 .. Len(Tail(u))
        /\ i + 1 \in 1 .. Len(w) - t /\ (t + 1) + i = t + (i + 1)
    BY <1>1, <1>2, <1>3, <1>6
  <2> QED
    BY <1>2, <1>3, <1>5, <2>1
<1>8. a = Tail(u)
  BY <1>3, <1>5, <1>6, <1>7, SeqEqual
<1> QED
  BY <1>4, <1>8 DEF u, a

\* The wire of ErrorChannel
Network == [p \in Procs |-> UnderWay(wire[p], taken[p])]

LEMMA WiresAre ==
  ASSUME HooksInvariant
  PROVE  /\ \A p \in Procs : wire[p] \in Seq(Entries) /\ taken[p] \in Nat
                             /\ taken[p] <= Len(wire[p])
         /\ taken \in [Procs -> Nat] /\ wire \in [Procs -> Seq(Entries)]
  BY DEF HooksInvariant, TypeOK, WireIsSent, Entries

LEMMA ChannelStart ==
  ASSUME Init
  PROVE  Channel!Init
<1>1. /\ wire = [p \in Procs |-> << >>] /\ taken = [p \in Procs |-> 0]
  BY DEF Init
<1>2. UnderWay(<< >>, 0) = << >>
  <2> DEFINE w == << >>
  <2>1. w \in Seq(Entries) /\ Len(w) = 0 /\ 0 \in Nat /\ 0 <= Len(w)
    BY EmptySeq
  <2> HIDE DEF w
  <2>2. UnderWay(w, 0) \in Seq(Packets) /\ Len(UnderWay(w, 0)) = Len(w) - 0
    BY <2>1, UnderWayIs
  <2>3. UnderWay(w, 0) = << >>
    BY <2>1, <2>2, EmptySeq
  <2> QED
    BY <2>3 DEF w
<1>3. Network = [p \in Procs |-> << >>]
  BY <1>1, <1>2 DEF Network
<1> QED
  BY <1>3 DEF Channel!Init, Network, UnderWay

\* A datagram is received.
LEMMA TakenFromChannel ==
  ASSUME HooksInvariant, NEW p \in Procs, recvfrom(p)
  PROVE  /\ Network[p] # << >>
         /\ Network' = [Network EXCEPT ![p] = Tail(@)]
<1>1. /\ taken[p] < Len(wire[p]) /\ taken' = [taken EXCEPT ![p] = @ + 1] /\ wire' = wire
  BY DEF recvfrom
<1>2. /\ Network[p] # << >>
      /\ UnderWay(wire[p], taken[p] + 1) = Tail(Network[p])
  BY <1>1, WiresAre, UnderWayShrinks DEF Network
<1>3. \A q \in Procs : taken'[q] = IF q = p THEN taken[p] + 1 ELSE taken[q]
  BY <1>1, WiresAre
<1>4. Network' = [q \in Procs |-> UnderWay(wire[q], taken'[q])]
  BY <1>1 DEF Network
<1>5. \A q \in Procs : UnderWay(wire[q], taken'[q]) =
        IF q = p THEN Tail(Network[p]) ELSE Network[q]
  BY <1>2, <1>3 DEF Network
<1>6. Network' = [q \in Procs |-> IF q = p THEN Tail(Network[p]) ELSE Network[q]]
  BY <1>4, <1>5
<1>7. [Network EXCEPT ![p] = Tail(@)] =
        [q \in Procs |-> IF q = p THEN Tail(Network[p]) ELSE Network[q]]
  BY DEF Network
<1> QED
  BY <1>2, <1>6, <1>7

\* A datagram is sent: it is lost, or under way, whole or corrupted.
LEMMA PutInChannel ==
  ASSUME HooksInvariant, NEW p \in Procs, NEW m \in Datagrams, MessageSent(p, m)
  PROVE  \/ Network' = Network
         \/ Network' = [Network EXCEPT ![p] = Append(@, m)]
         \/ Network' = [Network EXCEPT ![p] = Append(@, Corrupted)]
<1> DEFINE no == pktMgr[p].msgNo + 1
<1>1. /\ taken' = taken
      /\ \/ UNCHANGED wire
         \/ \E x \in {m, Corrupted} :
              wire' = [wire EXCEPT ![p] = Append(@, [no |-> no, packet |-> x])]
  BY DEF MessageSent
<1>2. no \in Nat
  <2>1. pktMgr[p] \in Managers
    BY DEF HooksInvariant, TypeOK
  <2> QED
    BY <2>1 DEF Managers
<1> HIDE DEF no
<1>3. m \in Packets /\ Corrupted \in Packets
  BY PacketsSent
<1>4. ASSUME NEW x \in {m, Corrupted},
             wire' = [wire EXCEPT ![p] = Append(@, [no |-> no, packet |-> x])]
      PROVE  Network' = [Network EXCEPT ![p] = Append(@, x)]
  <2> DEFINE e == [no |-> no, packet |-> x]
  <2>1. e \in Entries /\ e.packet = x
    BY <1>2, <1>3 DEF Entries
  <2> HIDE DEF e
  <2>2. wire'[p] = Append(wire[p], e) /\ \A q \in Procs : q # p => wire'[q] = wire[q]
    BY <1>4, WiresAre DEF e
  <2>3. UnderWay(Append(wire[p], e), taken[p]) = Append(Network[p], x)
    BY <2>1, WiresAre, UnderWayGrows DEF Network
  <2>4. Network' = [q \in Procs |-> UnderWay(wire'[q], taken[q])]
    BY <1>1 DEF Network
  <2>5. \A q \in Procs : UnderWay(wire'[q], taken[q]) =
          IF q = p THEN Append(Network[p], x) ELSE Network[q]
    BY <2>2, <2>3 DEF Network
  <2>6. Network' = [q \in Procs |-> IF q = p THEN Append(Network[p], x) ELSE Network[q]]
    BY <2>4, <2>5
  <2>7. [Network EXCEPT ![p] = Append(@, x)] =
          [q \in Procs |-> IF q = p THEN Append(Network[p], x) ELSE Network[q]]
    BY DEF Network
  <2> QED
    BY <2>6, <2>7
<1>5. CASE UNCHANGED wire
  BY <1>1, <1>5 DEF Network
<1> QED
  BY <1>1, <1>4, <1>5

LEMMA ChannelStep ==
  ASSUME HooksInvariant, [Next]_vars
  PROVE  \/ Network' = Network
         \/ \E p \in Procs :
              \/ Network[p] # << >> /\ Network' = [Network EXCEPT ![p] = Tail(@)]
              \/ \E m \in Datagrams :
                   \/ Network' = Network
                   \/ Network' = [Network EXCEPT ![p] = Append(@, m)]
                   \/ Network' = [Network EXCEPT ![p] = Append(@, Corrupted)]
<1>1. ASSUME UNCHANGED <<wire, taken>>
      PROVE  Network' = Network
  BY <1>1 DEF Network
<1>2. CASE forkMod
  BY <1>1, <1>2 DEF forkMod
<1>3. ASSUME NEW rate \in UserRates, NEW drop \in BOOLEAN, NEW flip \in BOOLEAN,
             NEW random \in BOOLEAN, NEW time \in Times, NEW later \in Times,
             sendErr_init(rate, drop, flip, random, time, later)
      PROVE  Network' = Network
  BY <1>1, <1>3 DEF sendErr_init
<1>4. ASSUME NEW p \in Procs, recvfrom(p)
      PROVE  Network[p] # << >> /\ Network' = [Network EXCEPT ![p] = Tail(@)]
  BY <1>4, TakenFromChannel
<1>5. ASSUME NEW p \in Procs, NEW m \in Datagrams, sendto_Err(p, m)
      PROVE  \/ Network' = Network
             \/ Network' = [Network EXCEPT ![p] = Append(@, m)]
             \/ Network' = [Network EXCEPT ![p] = Append(@, Corrupted)]
  BY <1>5, SendtoSends, PutInChannel
<1>6. CASE UNCHANGED vars
  BY <1>1, <1>6 DEF vars
<1> QED
  BY <1>2, <1>3, <1>4, <1>5, <1>6 DEF Next

\* In every program and environment a datagram is lost, or arrives in its turn
\* as it was sent, or arrives corrupted and is seen to be: the checksum and the
\* order of the wire give rcopy and the echo lab the network SrejNet assumes.
THEOREM ChannelIsKept == Spec => ImplementsChannel
<1>1. Init => Channel!Init
  BY ChannelStart
<1>2. HooksInvariant /\ [Next]_vars =>
        [Channel!Next]_([p \in Procs |-> [i \in 1 .. Len(wire[p]) - taken[p] |->
                                             wire[p][taken[p] + i].packet]])
  BY ChannelStep DEF Channel!Next, Channel!Send, Channel!Receive, Network, UnderWay
<1> QED
  BY <1>1, <1>2, HooksAreConsistent, PTL DEF Spec, ImplementsChannel, Channel!Spec
=============================================================================

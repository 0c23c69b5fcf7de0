----------------------------- MODULE TraceProofs -----------------------------
(***************************************************************************)
(* What Trace promises, for every packet with fields of their widths and     *)
(* every byte of it that may change.                                         *)
(*                                                                           *)
(* TraceFrames takes the words of a packet big-endian and in_cksum() takes   *)
(* them little-endian; modulo 2^16 - 1 the one sum is 256 times the other, so *)
(* a checksum made in one order is good in the other.  findTCP_CS() goes back *)
(* from the complement and adds the pseudo header with end-around carries: of *)
(* a number kept so, only the remainder and whether it is 0 are known, and    *)
(* that is enough.  Then where the fields of a frame are ("Has"), what a       *)
(* changed byte does to the part it is in ("Changed"), and what the printer   *)
(* reads.  That nothing is carried over from one packet to the next is the    *)
(* invariant TraceInv.                                                        *)
(***************************************************************************)
EXTENDS Trace, DataLemmas

-----------------------------------------------------------------------------
(* The sum of checksumOf(). *)

\* What byte i adds to it.
BigWords(bytes) ==
  [i \in DOMAIN bytes |-> IF i % 2 = 1 THEN 256 * bytes[i] ELSE bytes[i]]

BigTotal(bytes) == Sum(BigWords(bytes))

\* The fold of checksumOf().
BigSums(bytes) ==
  CHOOSE g : g = [s \in SUBSET DOMAIN bytes |->
                    IF s = {} THEN 0
                    ELSE (IF Chosen(s) % 2 = 1 THEN 256 * bytes[Chosen(s)]
                                               ELSE bytes[Chosen(s)])
                         + g[s \ {Chosen(s)}]]

LEMMA BigSumIs ==
  ASSUME NEW bytes
  PROVE  BigSums(bytes)[DOMAIN bytes] = BigTotal(bytes)
<1> DEFINE D == DOMAIN bytes
           Eq(g) == [s \in SUBSET D |->
                       IF s = {} THEN 0
                       ELSE (IF Chosen(s) % 2 = 1 THEN 256 * bytes[Chosen(s)]
                                                  ELSE bytes[Chosen(s)])
                            + g[s \ {Chosen(s)}]]
<1>1. ASSUME NEW g
      PROVE  Eq(g) = SumEq(g, BigWords(bytes), D)
  <2>1. ASSUME NEW s \in SUBSET D, s # {}
        PROVE  BigWords(bytes)[Chosen(s)] =
                 IF Chosen(s) % 2 = 1 THEN 256 * bytes[Chosen(s)] ELSE bytes[Chosen(s)]
     BY <2>1 DEF Chosen, BigWords
  <2> QED
    BY <2>1 DEF SumEq
<1>2. DOMAIN BigWords(bytes) = D
  BY DEF BigWords
<1>3. BigSums(bytes) = CHOOSE g : g = Eq(g)
  BY DEF BigSums
<1> HIDE DEF Eq
<1>4. (CHOOSE g : g = Eq(g)) = (CHOOSE g : g = SumEq(g, BigWords(bytes), D))
  BY <1>1
<1> QED
  BY <1>2, <1>3, <1>4 DEF BigTotal, Sum, Sums

\* What makes a sum a multiple of 65535.
Completing(sum) == IF sum = 0 THEN 65535 ELSE 65534 - ((sum - 1) % 65535)

LEMMA ChecksumFolds ==
  ASSUME NEW bytes
  PROVE  checksumOf(bytes) = Completing(BigTotal(bytes))
<1>1. checksumOf(bytes) = Completing(BigSums(bytes)[DOMAIN bytes])
  BY SMT DEF checksumOf, MapThenSumSet, MapThenFoldSet, BigSums, Chosen, Completing
<1> QED
  BY <1>1, BigSumIs, Zenon

\* The two orders of bytes: the odd bytes o and the even bytes e change places.
LEMMA TwoOrders ==
  ASSUME NEW addr \in Seq(Bytes)
  PROVE  \E o, e \in Nat : /\ Total(addr) = o + 256 * e
                           /\ BigTotal(addr) = 256 * o + e
<1> DEFINE D == DOMAIN addr
           f == Words(addr)
           b == BigWords(addr)
           F == Sums(f)
           B == Sums(b)
           Q == {s \in SUBSET D :
                   \E o, e \in Nat : F[s] = o + 256 * e /\ B[s] = 256 * o + e}
<1>1. \A i \in D : addr[i] \in Nat
  <2>1. \A i \in D : addr[i] \in Bytes
    BY LenProperties, ElementOfSeq
  <2> QED
    BY <2>1, ByteRange
<1>2. DOMAIN f = D /\ DOMAIN b = D /\ IsFiniteSet(D)
  BY BytesFinite DEF Words, BigWords
<1>3. \A i \in D : \/ f[i] = addr[i] /\ b[i] = 256 * addr[i]
                   \/ f[i] = 256 * addr[i] /\ b[i] = addr[i]
  BY DEF Words, WordOf, BigWords
<1>4. {} \in Q
  <2>1. F[{}] = 0 /\ B[{}] = 0
    BY <1>2, SumOfNone
  <2>2. PICK z \in Nat : z = 0
    OBVIOUS
  <2> HIDE DEF F, B
  <2>3. F[{}] = z + 256 * z /\ B[{}] = 256 * z + z
    BY <2>1, <2>2
  <2> QED
    BY <2>3
<1>5. ASSUME NEW s \in SUBSET D, s # {}, s \ {Chosen(s)} \in Q
      PROVE  s \in Q
  <2> DEFINE c == Chosen(s)
             t == s \ {c}
  <2>1. c \in s
    BY <1>5 DEF Chosen
  <2>2. F[s] = f[c] + F[t] /\ B[s] = b[c] + B[t]
    BY <1>2, <1>5, SumSteps
  <2>3. PICK o, e \in Nat : F[t] = o + 256 * e /\ B[t] = 256 * o + e
    BY <1>5
  <2>4. addr[c] \in Nat /\ \/ f[c] = addr[c] /\ b[c] = 256 * addr[c]
                           \/ f[c] = 256 * addr[c] /\ b[c] = addr[c]
    BY <1>1, <1>3, <2>1
  <2> HIDE DEF f, b, F, B, c, t
  <2>5. CASE f[c] = addr[c] /\ b[c] = 256 * addr[c]
    <3>1. F[s] = (o + addr[c]) + 256 * e /\ B[s] = 256 * (o + addr[c]) + e
      BY <2>2, <2>3, <2>4, <2>5
    <3>2. o + addr[c] \in Nat
      BY <2>4
    <3> QED
      BY <3>1, <3>2
  <2>6. CASE f[c] = 256 * addr[c] /\ b[c] = addr[c]
    <3>1. F[s] = o + 256 * (e + addr[c]) /\ B[s] = 256 * o + (e + addr[c])
      BY <2>2, <2>3, <2>4, <2>6
    <3>2. e + addr[c] \in Nat
      BY <2>4
    <3> QED
      BY <3>1, <3>2
  <2> QED
    BY <2>4, <2>5, <2>6
<1>6. \A s \in SUBSET D : s \in Q
  <2> HIDE DEF Q, D
  <2> QED
    BY <1>2, <1>4, <1>5, SubsetsInduct
<1>7. D \in Q
  BY <1>6
<1> QED
  BY <1>2, <1>7 DEF Total, BigTotal, Sum

\* Modulo 65535 the order is a factor of 256.
LEMMA OrdersAgree ==
  ASSUME NEW o \in Nat, NEW e \in Nat
  PROVE  /\ (o + 256 * e) % 65535 = 0 <=> (256 * o + e) % 65535 = 0
         /\ o + 256 * e = 0 <=> 256 * o + e = 0
<1>1. ASSUME NEW x \in Nat, NEW y \in Nat, (x + 256 * y) % 65535 = 0
      PROVE  (256 * x + y) % 65535 = 0
  <2>1. PICK a \in Nat : x + 256 * y = 65535 * a
    <3>1. (x + 256 * y) \div 65535 \in Nat
          /\ x + 256 * y = 65535 * ((x + 256 * y) \div 65535)
      BY <1>1, Z3
    <3> QED
      BY <3>1
  <2>2. 256 * x + y = 65535 * (256 * a - y)
    BY <2>1, Z3
  <2> QED
    BY <2>2, Z3
<1>2. (o + 256 * e) % 65535 = 0 => (256 * o + e) % 65535 = 0
  BY <1>1
<1>3. (256 * o + e) % 65535 = 0 => (o + 256 * e) % 65535 = 0
  <2>1. 256 * o + e = e + 256 * o /\ o + 256 * e = 256 * e + o
    OBVIOUS
  <2>2. (e + 256 * o) % 65535 = 0 => (256 * e + o) % 65535 = 0
    BY <1>1
  <2> QED
    BY <2>1, <2>2
<1> QED
  BY <1>2, <1>3, Z3

\* So the receiver may add the words in its own order.
LEMMA GoodInBothOrders ==
  ASSUME NEW addr, Small(addr)
  PROVE  /\ BigTotal(addr) \in Nat
         /\ in_cksum(addr) = 0 <=> BigTotal(addr) # 0 /\ BigTotal(addr) % 65535 = 0
<1>4. addr \in Seq(Bytes)
  BY DEF Small
<1>1. PICK o, e \in Nat : Total(addr) = o + 256 * e /\ BigTotal(addr) = 256 * o + e
  BY <1>4, TwoOrders
<1>2. in_cksum(addr) = 0 <=> Total(addr) # 0 /\ Total(addr) % 65535 = 0
  BY GoodCksum
<1>3. 256 * o + e \in Nat
  OBVIOUS
<1> QED
  BY <1>1, <1>2, <1>3, OrdersAgree

\* A checksum makes the sum a multiple of 65535.
LEMMA ChecksumCompletes ==
  ASSUME NEW bytes \in Seq(Bytes)
  PROVE  /\ BigTotal(bytes) \in Nat
         /\ checksumOf(bytes) \in Nat /\ checksumOf(bytes) <= 65535
         /\ BigTotal(bytes) + checksumOf(bytes) # 0
         /\ (BigTotal(bytes) + checksumOf(bytes)) % 65535 = 0
<1>1. PICK o, e \in Nat : Total(bytes) = o + 256 * e /\ BigTotal(bytes) = 256 * o + e
  BY ONLY bytes \in Seq(Bytes), TwoOrders
<1>2. PICK t \in Nat : t = BigTotal(bytes)
  BY <1>1
<1>3. PICK c : c = checksumOf(bytes)
  OBVIOUS
<1>7. c = Completing(t)
  BY <1>2, <1>3, ChecksumFolds, Zenon
<1>4. c = IF t = 0 THEN 65535 ELSE 65534 - ((t - 1) % 65535)
  BY <1>7, SMT DEF Completing
<1>5. CASE t = 0
  BY <1>2, <1>3, <1>4, <1>5, Z3
<1>6. CASE t # 0
  <2>1. PICK q, r \in Nat : t - 1 = 65535 * q + r /\ r <= 65534 /\ r = (t - 1) % 65535
    <3>1. /\ (t - 1) \div 65535 \in Nat /\ (t - 1) % 65535 \in Nat
          /\ (t - 1) % 65535 <= 65534
          /\ t - 1 = 65535 * ((t - 1) \div 65535) + ((t - 1) % 65535)
      BY <1>6, Z3
    <3> QED
      BY <3>1
  <2>2. c = 65534 - r
    BY <1>4, <1>6, <2>1, SMT
  <2>3. t + c = 65535 * (q + 1)
    BY <2>1, <2>2, Z3
  <2>4. (65535 * (q + 1)) % 65535 = 0
    BY Z3
  <2>5. c \in Nat /\ c <= 65535 /\ t + c # 0 /\ (t + c) % 65535 = 0
    BY <2>1, <2>2, <2>3, <2>4, Z3
  <2> QED
    BY <1>2, <1>3, <2>5, SMT
<1> QED
  BY <1>5, <1>6

-----------------------------------------------------------------------------
(* The sum of bytes put together. *)

LEMMA BigWordsRange ==
  ASSUME NEW b \in Seq(Bytes)
  PROVE  /\ Len(b) \in Nat /\ DOMAIN b = 1 .. Len(b)
         /\ \A i \in 1 .. Len(b) : b[i] \in Nat /\ b[i] <= 255
         /\ BigWords(b) \in [1 .. Len(b) -> Int]
         /\ \A i \in 1 .. Len(b) :
              BigWords(b)[i] = IF i % 2 = 1 THEN 256 * b[i] ELSE b[i]
<1>1. Len(b) \in Nat /\ DOMAIN b = 1 .. Len(b) /\ \A i \in 1 .. Len(b) : b[i] \in Bytes
  BY LenProperties, ElementOfSeq
<1>2. \A i \in 1 .. Len(b) : b[i] \in Nat /\ b[i] <= 255
  BY <1>1, ByteRange
<1> QED
  BY <1>1, <1>2 DEF BigWords

LEMMA BigConcat ==
  ASSUME NEW a \in Seq(Bytes), Len(a) % 2 = 0, NEW b \in Seq(Bytes)
  PROVE  BigTotal(a \o b) = BigTotal(a) + BigTotal(b)
<1> DEFINE c == a \o b
           N == Len(a)
           M == Len(b)
           f == BigWords(c)
           fa == BigWords(a)
           fb == BigWords(b)
           P == {s \in SUBSET (1 .. N) : Sums(f)[s] = Sums(fa)[s]}
           Q == {k \in Nat : k <= M =>
                   Sums(f)[1 .. N + k] = Sums(f)[1 .. N] + Sums(fb)[1 .. k]}
<1>1. /\ c \in Seq(Bytes) /\ Len(c) = N + M /\ N \in Nat /\ M \in Nat
      /\ \A i \in 1 .. N + M : c[i] = IF i <= N THEN a[i] ELSE b[i - N]
  BY ConcatProperties, LenProperties
<1>2. f \in [1 .. N + M -> Int] /\ fa \in [1 .. N -> Int] /\ fb \in [1 .. M -> Int]
  <2> HIDE DEF c
  <2>1. f \in [1 .. Len(c) -> Int]
    BY <1>1, BigWordsRange
  <2> QED
    BY <1>1, <2>1, BigWordsRange
<1>3. ASSUME NEW i \in 1 .. N
      PROVE  f[i] = fa[i]
  <2>1. i \in 1 .. N + M /\ c[i] = a[i]
    BY <1>1
  <2> HIDE DEF c
  <2>2. f[i] = IF i % 2 = 1 THEN 256 * c[i] ELSE c[i]
    BY <1>1, <2>1, BigWordsRange
  <2> QED
    BY <2>1, <2>2, BigWordsRange
<1>4. ASSUME NEW k \in Nat, k < M
      PROVE  f[N + k + 1] = fb[k + 1]
  <2>1. /\ N + k + 1 \in 1 .. N + M /\ k + 1 \in 1 .. M /\ c[N + k + 1] = b[k + 1]
        /\ (N + k + 1) % 2 = (k + 1) % 2
    <3>1. N + k + 1 \in 1 .. N + M /\ k + 1 \in 1 .. M /\ ~ (N + k + 1 <= N)
          /\ (N + k + 1) - N = k + 1
      <4>1. N \in Nat /\ M \in Nat
        BY <1>1
      <4> HIDE DEF N, M
      <4> QED
        BY <1>4, <4>1
    <3>2. (N + k + 1) % 2 = (k + 1) % 2
      BY <1>1, Z3
    <3> QED
      BY <1>1, <3>1, <3>2
  <2> HIDE DEF c
  <2>2. f[N + k + 1] =
          IF (N + k + 1) % 2 = 1 THEN 256 * c[N + k + 1] ELSE c[N + k + 1]
    BY <1>1, <2>1, BigWordsRange
  <2>3. fb[k + 1] = IF (k + 1) % 2 = 1 THEN 256 * b[k + 1] ELSE b[k + 1]
    BY <2>1, BigWordsRange
  <2> QED
    BY <2>1, <2>2, <2>3
<1> HIDE DEF f, fa, fb, c, N, M
<1>5. Sums(f)[1 .. N] = Sums(fa)[1 .. N]
  <2>1. IsFiniteSet(1 .. N) /\ IsFiniteSet(1 .. N + M)
        /\ DOMAIN f = 1 .. N + M /\ DOMAIN fa = 1 .. N
    BY <1>1, <1>2, FS_Interval
  <2>2. {} \in P
    BY <2>1, SumOfNone
  <2>3. ASSUME NEW s \in SUBSET (1 .. N), s # {}, s \ {Chosen(s)} \in P
        PROVE  s \in P
    <3>1. Chosen(s) \in s /\ s \in SUBSET (1 .. N + M)
      BY <1>1, <2>3 DEF Chosen
    <3>2. f[Chosen(s)] = fa[Chosen(s)]
      BY <1>3, <3>1
    <3>3. Sums(f)[s] = f[Chosen(s)] + Sums(f)[s \ {Chosen(s)}]
      BY <2>1, <2>3, <3>1, SumSteps
    <3>4. Sums(fa)[s] = fa[Chosen(s)] + Sums(fa)[s \ {Chosen(s)}]
      BY <2>1, <2>3, <3>1, SumSteps
    <3> QED
      BY <2>3, <3>2, <3>3, <3>4
  <2>4. \A s \in SUBSET (1 .. N) : s \in P
    <3> HIDE DEF P
    <3> QED
      BY <2>1, <2>2, <2>3, SubsetsInduct
  <2>5. 1 .. N \in P
    BY <2>4
  <2> QED
    BY <2>5
<1>6. Sums(f)[1 .. N + M] = Sums(f)[1 .. N] + Sums(fb)[1 .. M]
  <2>1. Sums(f)[1 .. N] \in Int
    <3>1. IsFiniteSet(1 .. N + M) /\ 1 .. N \in SUBSET (1 .. N + M)
      BY <1>1, FS_Interval
    <3>2. SumOfParts(Sums(f), f, 1 .. N)
      BY <1>2, <3>1, SumParts
    <3> QED
      BY <3>2 DEF SumOfParts
  <2>2. 0 \in Q
    <3>1. Sums(fb)[1 .. 0] = 0
      <4>1. 1 .. 0 = {} /\ DOMAIN fb = 1 .. M /\ IsFiniteSet(1 .. M)
        BY <1>1, <1>2, FS_Interval
      <4> QED
        BY <4>1, SumOfNone
    <3>2. N + 0 = N
      BY <1>1
    <3> QED
      BY <2>1, <3>1, <3>2
  <2>3. ASSUME NEW k \in Nat, k \in Q
        PROVE  k + 1 \in Q
    <3> SUFFICES ASSUME k + 1 <= M
                 PROVE  Sums(f)[1 .. N + (k + 1)] =
                          Sums(f)[1 .. N] + Sums(fb)[1 .. k + 1]
      OBVIOUS
    <3>1. k < M /\ N + k \in Nat /\ N + k < N + M /\ N + M \in Nat
          /\ N + (k + 1) = N + k + 1
      BY <1>1
    <3>2. Sums(f)[1 .. N + k] = Sums(f)[1 .. N] + Sums(fb)[1 .. k]
      BY <2>3, <3>1, <1>1
    <3>3. Sums(f)[1 .. (N + k) + 1] = Sums(f)[1 .. N + k] + f[(N + k) + 1]
      BY <1>2, <3>1, SumExtends
    <3>4. /\ Sums(fb)[1 .. k] \in Int /\ fb[k + 1] \in Int
          /\ Sums(fb)[1 .. k + 1] = Sums(fb)[1 .. k] + fb[k + 1]
      BY <1>1, <1>2, <3>1, SumExtends
    <3>5. f[N + k + 1] = fb[k + 1]
      BY <1>4, <3>1
    <3> QED
      BY <2>1, <3>1, <3>2, <3>3, <3>4, <3>5
  <2>4. \A k \in Nat : k \in Q
    <3> HIDE DEF Q
    <3> QED
      BY <2>2, <2>3, NatIsInductive
  <2>5. M \in Q /\ M <= M
    BY <1>1, <2>4
  <2> QED
    BY <2>5
<1>7. DOMAIN f = 1 .. N + M /\ DOMAIN fa = 1 .. N /\ DOMAIN fb = 1 .. M
  BY <1>2
<1>8. Sum(f) = Sum(fa) + Sum(fb)
  BY <1>5, <1>6, <1>7 DEF Sum
<1> QED
  BY <1>8 DEF BigTotal, f, fa, fb, c

\* Two bytes are one word.
LEMMA BigOfTwo ==
  ASSUME NEW x \in Bytes, NEW y \in Bytes
  PROVE  /\ << x, y >> \in Seq(Bytes) /\ Len(<< x, y >>) = 2
         /\ BigTotal(<< x, y >>) = 256 * x + y
<1> DEFINE w == << x, y >>
           f == BigWords(w)
<1>1. w \in Seq(Bytes) /\ Len(w) = 2 /\ w[1] = x /\ w[2] = y
  OBVIOUS
<1>2. x \in Nat /\ y \in Nat
  BY ByteRange
<1> HIDE DEF w
<1>3. f \in [1 .. 2 -> Int] /\ f[1] = 256 * x /\ f[2] = y
  <2>1. 1 % 2 = 1 /\ 2 % 2 = 0
    BY Z3
  <2> QED
    BY <1>1, <2>1, BigWordsRange
<1> HIDE DEF f
<1>4. Sums(f)[1 .. 0] = 0
  <2>1. \A a, b \in Int : IsFiniteSet(a .. b)
    BY FS_Interval
  <2>2. DOMAIN f = 1 .. 2
    BY <1>3
  <2>4. IsFiniteSet(1 .. 2)
    <3>1. 1 \in Int /\ 2 \in Int
      OBVIOUS
    <3> QED
      BY ONLY <2>1, <3>1
  <2>3. 1 .. 0 = {}
    OBVIOUS
  <2> QED
    BY <2>2, <2>3, <2>4, SumOfNone
<1>5. Sums(f)[1 .. 1] = Sums(f)[1 .. 0] + f[1]
  <2>1. 2 \in Nat /\ f \in [1 .. 2 -> Int] /\ 0 \in Nat /\ 0 < 2
    BY <1>3
  <2>2. Sums(f)[1 .. 0 + 1] = Sums(f)[1 .. 0] + f[0 + 1]
    BY ONLY <2>1, SumExtends
  <2>3. 0 + 1 = 1
    OBVIOUS
  <2> QED
    BY <2>2, <2>3
<1>6. Sums(f)[1 .. 2] = Sums(f)[1 .. 1] + f[2]
  <2>1. 2 \in Nat /\ f \in [1 .. 2 -> Int] /\ 1 \in Nat /\ 1 < 2
    BY <1>3
  <2>2. Sums(f)[1 .. 1 + 1] = Sums(f)[1 .. 1] + f[1 + 1]
    BY ONLY <2>1, SumExtends
  <2>3. 1 + 1 = 2
    OBVIOUS
  <2> QED
    BY <2>2, <2>3
<1>7. Sums(f)[1 .. 2] = 256 * x + y
  BY <1>2, <1>3, <1>4, <1>5, <1>6
<1>8. DOMAIN f = 1 .. 2
  BY <1>3
<1> QED
  BY <1>1, <1>7, <1>8 DEF BigTotal, Sum, f, w

\* Four bytes are two words.
LEMMA BigOfFour ==
  ASSUME NEW w \in Seq(Bytes), Len(w) = 4
  PROVE  /\ w[1] \in Nat /\ w[2] \in Nat /\ w[3] \in Nat /\ w[4] \in Nat
         /\ w[1] <= 255 /\ w[2] <= 255 /\ w[3] <= 255 /\ w[4] <= 255
         /\ BigTotal(w) = (256 * w[1] + w[2]) + (256 * w[3] + w[4])
<1> DEFINE f == BigWords(w)
<1>1. \A i \in 1 .. 4 : w[i] \in Nat /\ w[i] <= 255
  BY BigWordsRange
<1>2. /\ w[1] \in Nat /\ w[2] \in Nat /\ w[3] \in Nat /\ w[4] \in Nat
      /\ w[1] <= 255 /\ w[2] <= 255 /\ w[3] <= 255 /\ w[4] <= 255
  BY <1>1
<1>3. f \in [1 .. 4 -> Int] /\ \A i \in 1 .. 4 : f[i] = IF i % 2 = 1 THEN 256 * w[i] ELSE w[i]
  BY BigWordsRange
<1> HIDE DEF f
<1>4. f[1] = 256 * w[1] /\ f[2] = w[2] /\ f[3] = 256 * w[3] /\ f[4] = w[4]
  <2>1. 1 % 2 = 1 /\ 2 % 2 = 0 /\ 3 % 2 = 1 /\ 4 % 2 = 0
    BY Z3
  <2> QED
    BY <1>3, <2>1
<1>5. Sums(f)[1 .. 0] = 0
  <2>1. \A a, b \in Int : IsFiniteSet(a .. b)
    BY FS_Interval
  <2>2. DOMAIN f = 1 .. 4
    BY <1>3
  <2>3. 1 .. 0 = {}
    OBVIOUS
  <2>4. IsFiniteSet(1 .. 4)
    <3>1. 1 \in Int /\ 4 \in Int
      OBVIOUS
    <3> QED
      BY ONLY <2>1, <3>1
  <2> QED
    BY <2>2, <2>3, <2>4, SumOfNone
<1>6. ASSUME NEW k \in 0 .. 3
      PROVE  Sums(f)[1 .. k + 1] = Sums(f)[1 .. k] + f[k + 1]
  <2>1. 4 \in Nat /\ f \in [1 .. 4 -> Int] /\ k \in Nat /\ k < 4
    BY <1>3
  <2> QED
    BY ONLY <2>1, SumExtends
<1>7. Sums(f)[1 .. 0 + 1] = Sums(f)[1 .. 0] + f[0 + 1]
  <2>1. 0 \in 0 .. 3
    OBVIOUS
  <2> QED
    BY ONLY <1>6, <2>1
<1>8. Sums(f)[1 .. 1 + 1] = Sums(f)[1 .. 1] + f[1 + 1]
  <2>1. 1 \in 0 .. 3
    OBVIOUS
  <2> QED
    BY ONLY <1>6, <2>1
<1>9. Sums(f)[1 .. 2 + 1] = Sums(f)[1 .. 2] + f[2 + 1]
  <2>1. 2 \in 0 .. 3
    OBVIOUS
  <2> QED
    BY ONLY <1>6, <2>1
<1>10. Sums(f)[1 .. 3 + 1] = Sums(f)[1 .. 3] + f[3 + 1]
  <2>1. 3 \in 0 .. 3
    OBVIOUS
  <2> QED
    BY ONLY <1>6, <2>1
<1>11. 0 + 1 = 1 /\ 1 + 1 = 2 /\ 2 + 1 = 3 /\ 3 + 1 = 4
  OBVIOUS
<1>12. Sums(f)[1 .. 4] = (256 * w[1] + w[2]) + (256 * w[3] + w[4])
  <2>1. Sums(f)[1 .. 1] = 256 * w[1]
    BY <1>2, <1>4, <1>5, <1>7, <1>11
  <2>2. Sums(f)[1 .. 2] = 256 * w[1] + w[2]
    BY <1>4, <1>8, <1>11, <2>1
  <2>3. Sums(f)[1 .. 3] = 256 * w[1] + w[2] + 256 * w[3]
    BY <1>4, <1>9, <1>11, <2>2
  <2> QED
    BY <1>2, <1>4, <1>10, <1>11, <2>3
<1>13. DOMAIN f = 1 .. 4
  BY <1>3
<1> QED
  BY <1>2, <1>12, <1>13 DEF BigTotal, Sum, f

\* A word in two bytes.
LEMMA WordBytes ==
  ASSUME NEW n \in Words16
  PROVE  /\ n \in Nat /\ n <= 65535
         /\ word(n) \in Seq(Bytes) /\ Len(word(n)) = 2 /\ word(n) = << word(n)[1], word(n)[2] >>
         /\ word(n)[1] \in Bytes /\ word(n)[2] \in Bytes
         /\ 256 * word(n)[1] + word(n)[2] = n
         /\ BigTotal(word(n)) = n
<1>1. n \in Nat /\ n <= 65535
  BY Z3 DEF Words16
<1>2. PICK x, y : x = n \div 256 /\ y = n % 256
  OBVIOUS
<1>3. x \in Nat /\ x <= 255 /\ y \in Nat /\ y <= 255 /\ 256 * x + y = n
  BY <1>1, <1>2, Z3
<1>4. x \in Bytes /\ y \in Bytes
  BY <1>3, RangeByte
<1>5. word(n) = << x, y >>
  BY <1>2 DEF word
<1>6. << x, y >> \in Seq(Bytes) /\ Len(<< x, y >>) = 2 /\ BigTotal(<< x, y >>) = 256 * x + y
  BY <1>4, BigOfTwo
<1>7. << x, y >>[1] = x /\ << x, y >>[2] = y
  OBVIOUS
<1> QED
  BY <1>1, <1>3, <1>4, <1>5, <1>6, <1>7, SMT

-----------------------------------------------------------------------------
(* Where the parts of a frame are. *)

\* Bytes put behind others.
LEMMA PutBehind ==
  ASSUME NEW f \in Seq(Bytes), NEW b \in Seq(Bytes)
  PROVE  /\ f \o b \in Seq(Bytes) /\ Len(f \o b) = Len(f) + Len(b)
         /\ Has(f \o b, Len(f), b) /\ Has(f \o b, 0, f)
         /\ \A n \in Nat, x \in Seq(Bytes) : Has(f, n, x) => Has(f \o b, n, x)
         /\ Len(f) % 2 = 0 => BigTotal(f \o b) = BigTotal(f) + BigTotal(b)
<1>1. Len(f) % 2 = 0 => BigTotal(f \o b) = BigTotal(f) + BigTotal(b)
  BY BigConcat
<1>2. /\ f \o b \in Seq(Bytes) /\ Len(f \o b) = Len(f) + Len(b)
      /\ Has(f \o b, Len(f), b) /\ Has(f \o b, 0, f)
      /\ \A n \in Nat, x \in Seq(Bytes) : Has(f, n, x) => Has(f \o b, n, x)
  BY Appended
<1> QED
  BY <1>1, <1>2

\* A part of a part.
LEMMA HasInside ==
  ASSUME NEW f \in Seq(Bytes), NEW n \in Nat, NEW b \in Seq(Bytes), Has(f, n, b),
         NEW m \in Nat, NEW x \in Seq(Bytes), Has(b, m, x)
  PROVE  Has(f, n + m, x)
BY PartOfPart

\* Reading a part.
LEMMA HasOctets ==
  ASSUME NEW f \in Seq(Bytes), NEW n \in Nat, NEW b \in Seq(Bytes), Has(f, n, b)
  PROVE  octets(f, n, Len(b)) = b
<1>1. SubSeq(f, n + 1, n + Len(b)) = b
  BY PartRead
<1> QED
  BY <1>1 DEF octets

\* The change of a byte, outside of a part and in it.
LEMMA HasChanged ==
  ASSUME NEW f \in Seq(Bytes), NEW n \in Nat, NEW b \in Seq(Bytes), Has(f, n, b),
         NEW k \in 1 .. Len(f), NEW v \in Bytes
  PROVE  /\ [f EXCEPT ![k] = v] \in Seq(Bytes) /\ Len([f EXCEPT ![k] = v]) = Len(f)
         /\ k \notin n + 1 .. n + Len(b) => Has([f EXCEPT ![k] = v], n, b)
         /\ k \in n + 1 .. n + Len(b) =>
              /\ k - n \in 1 .. Len(b) /\ f[k] = b[k - n]
              /\ [b EXCEPT ![k - n] = v] \in Seq(Bytes)
              /\ Len([b EXCEPT ![k - n] = v]) = Len(b)
              /\ Has([f EXCEPT ![k] = v], n, [b EXCEPT ![k - n] = v])
<1> DEFINE g == [f EXCEPT ![k] = v]
<1>1. Len(f) \in Nat /\ Len(b) \in Nat
  BY LenProperties
<1>2. g \in Seq(Bytes) /\ Len(g) = Len(f)
      /\ \A j \in 1 .. Len(f) : g[j] = IF j = k THEN v ELSE f[j]
  BY ExceptSeq
<1>3. n + Len(b) <= Len(f) /\ \A i \in 1 .. Len(b) : n + i \in 1 .. Len(f) /\ f[n + i] = b[i]
  <2> HIDE DEF g
  <2>1. n + Len(b) <= Len(f) /\ \A i \in 1 .. Len(b) : f[n + i] = b[i]
    BY DEF Has
  <2> QED
    BY <1>1, <2>1
<1> HIDE DEF g
<1>4. ASSUME k \notin n + 1 .. n + Len(b)
      PROVE  Has(g, n, b)
  <2>1. \A i \in 1 .. Len(b) : n + i # k
    BY <1>1, <1>4
  <2>2. \A i \in 1 .. Len(b) : g[n + i] = b[i]
    BY <1>2, <1>3, <2>1
  <2> QED
    BY <1>2, <1>3, <2>2 DEF Has
<1>5. ASSUME k \in n + 1 .. n + Len(b)
      PROVE  /\ k - n \in 1 .. Len(b) /\ f[k] = b[k - n]
             /\ [b EXCEPT ![k - n] = v] \in Seq(Bytes)
             /\ Len([b EXCEPT ![k - n] = v]) = Len(b)
             /\ Has(g, n, [b EXCEPT ![k - n] = v])
  <2>1. PICK j \in 1 .. Len(b) : k = n + j /\ j = k - n
    BY <1>1, <1>5
  <2> DEFINE c == [b EXCEPT ![j] = v]
  <2>2. /\ c \in Seq(Bytes) /\ Len(c) = Len(b)
        /\ \A i \in 1 .. Len(b) : c[i] = IF i = j THEN v ELSE b[i]
    BY ExceptSeq
  <2>3. c = [b EXCEPT ![k - n] = v]
    BY <2>1
  <2> HIDE DEF c
  <2>4. ASSUME NEW i \in 1 .. Len(b)
        PROVE  g[n + i] = c[i]
    <3>1. n + i = k <=> i = j
      BY <2>1
    <3> QED
      BY <1>2, <1>3, <2>2, <3>1
  <2>5. Has(g, n, c)
    BY <1>2, <1>3, <2>2, <2>4 DEF Has
  <2>6. f[k] = b[j]
    BY <1>3, <2>1
  <2> QED
    BY <2>1, <2>2, <2>3, <2>5, <2>6
<1> QED
  BY <1>2, <1>4, <1>5 DEF g

\* Reading a word.
LEMMA HasWord ==
  ASSUME NEW f \in Seq(Bytes), NEW n \in Nat, NEW w \in Words16, Has(f, n, word(w))
  PROVE  ntohs(f, n) = w
<1>1. /\ Len(word(w)) = 2 /\ word(w)[1] \in Bytes /\ word(w)[2] \in Bytes
      /\ 256 * word(w)[1] + word(w)[2] = w
  BY WordBytes
<1>2. 1 \in 1 .. Len(word(w)) /\ 2 \in 1 .. Len(word(w))
  BY <1>1
<1>3. f[n + 1] = word(w)[1] /\ f[n + 2] = word(w)[2]
  BY <1>2 DEF Has
<1> QED
  BY <1>1, <1>3 DEF ntohs

LEMMA RangeWord ==
  ASSUME NEW n \in Nat, n <= 65535
  PROVE  n \in Words16
<1>1. PICK m \in Nat : m = 65535
  OBVIOUS
<1>2. n <= m
  BY <1>1
<1>3. n \in 0 .. m
  BY <1>2
<1>4. Words16 = 0 .. m
  BY <1>1, SMT DEF Words16
<1> QED
  BY <1>3, <1>4, SMT

\* A byte that is a number.
LEMMA ByteIs ==
  ASSUME NEW n \in Nat, n <= 255
  PROVE  n \in Bytes
  BY RangeByte

-----------------------------------------------------------------------------
(* The IP header. *)

FirstByte(ip) == 64 + 5 + Len(ip.options) \div 4
HeaderLen(ip) == 20 + Len(ip.options)
PduLen(ip) == 20 + Len(ip.options) + Len(segmentOf(ip))

LEMMA IpTyped ==
  ASSUME NEW ip, IsIpPacket(ip)
  PROVE  /\ ip.tos \in Bytes /\ ip.ttl \in Bytes
         /\ ip.protocol \in {"TCP", "ICMP", "UDP", "Unknown"}
         /\ ip.senderIP \in Seq(Bytes) /\ Len(ip.senderIP) = 4
         /\ ip.destIP \in Seq(Bytes) /\ Len(ip.destIP) = 4
         /\ ip.options \in Seq(Bytes) /\ ip.payload \in Seq(Bytes)
         /\ Len(ip.options) \in Nat /\ Len(ip.payload) \in Nat
         /\ Len(ip.options) % 4 = 0 /\ Len(ip.options) <= 40
<1>1. /\ ip.tos \in Bytes /\ ip.ttl \in Bytes /\ ip.protocol \in DOMAIN ProtocolByte
      /\ ip.senderIP \in BytesOf(4) /\ ip.destIP \in BytesOf(4)
      /\ ip.options \in Seq(Bytes) /\ ip.payload \in Seq(Bytes)
      /\ Len(ip.options) % 4 = 0 /\ Len(ip.options) <= 40
  BY Zenon DEF IsIpPacket
<1>2. Len(ip.options) \in Nat /\ Len(ip.payload) \in Nat
  BY <1>1, LenProperties
<1>3. ip.protocol \in {"TCP", "ICMP", "UDP", "Unknown"}
  BY <1>1 DEF ProtocolByte
<1> QED
  BY <1>1, <1>2, <1>3 DEF BytesOf

LEMMA IpNumbers ==
  ASSUME NEW ip, IsIpPacket(ip)
  PROVE  /\ Len(ip.options) \in Nat /\ Len(ip.options) <= 40
         /\ HeaderLen(ip) \in Nat /\ HeaderLen(ip) >= 20 /\ HeaderLen(ip) <= 60
         /\ FirstByte(ip) \in Bytes /\ convertLen(FirstByte(ip)) = HeaderLen(ip)
         /\ ProtocolByte[ip.protocol] \in Bytes
<1>1. Len(ip.options) \in Nat /\ Len(ip.options) % 4 = 0 /\ Len(ip.options) <= 40
  BY IpTyped
<1>2. PICK n \in Nat : n = Len(ip.options) \div 4 /\ Len(ip.options) = 4 * n /\ n <= 10
  <2>1. PICK l \in Nat : l = Len(ip.options)
    BY <1>1
  <2>3. l % 4 = 0 /\ l <= 40
    BY <1>1, <2>1
  <2>2. l \div 4 \in Nat /\ l = 4 * (l \div 4) /\ l \div 4 <= 10
    BY <2>3, Z3
  <2> QED
    BY <2>1, <2>2
<1>3. FirstByte(ip) = 69 + n /\ HeaderLen(ip) = 20 + 4 * n
  <2>1. FirstByte(ip) = 64 + 5 + n /\ HeaderLen(ip) = 20 + 4 * n
    BY <1>2, Zenon DEF FirstByte, HeaderLen
  <2>2. 64 + 5 + n = 69 + n
    OBVIOUS
  <2> QED
    BY <2>1, <2>2
<1>4. ((69 + n) % 16) * 4 = 20 + 4 * n
  <2>1. n <= 10
    BY <1>2
  <2>2. (69 + n) % 16 = 5 + n
    BY <2>1, Z3
  <2> QED
    BY <2>2
<1>5. convertLen(FirstByte(ip)) = HeaderLen(ip)
  BY <1>3, <1>4 DEF convertLen
<1>6. FirstByte(ip) \in Bytes
  <2>2. n <= 10
    BY <1>2
  <2>1. 69 + n \in Nat /\ 69 + n <= 255
    BY <2>2
  <2> QED
    BY <1>3, <2>1, ByteIs
<1>7. ProtocolByte[ip.protocol] \in Bytes
  <2>1. ip.protocol \in {"TCP", "ICMP", "UDP", "Unknown"}
    BY IpTyped
  <2>2. 6 \in Bytes /\ 1 \in Bytes /\ 17 \in Bytes /\ 254 \in Bytes
    BY ByteIs
  <2>3. ProtocolByte[ip.protocol] \in {6, 1, 17, 254}
    BY <2>1 DEF ProtocolByte
  <2> QED
    BY <2>2, <2>3
<1>8. HeaderLen(ip) \in Nat /\ HeaderLen(ip) >= 20 /\ HeaderLen(ip) <= 60
  <2>1. n <= 10
    BY <1>2
  <2> QED
    BY <1>3, <2>1
<1> QED
  BY <1>1, <1>5, <1>6, <1>7, <1>8

\* Where its fields are.
IpFields(h, ip, ck) ==
  /\ h \in Seq(Bytes) /\ Len(h) = HeaderLen(ip)
  /\ Has(h, 0, << FirstByte(ip), ip.tos >>)
  /\ Has(h, 2, word(PduLen(ip)))
  /\ Has(h, 4, << 0, 1, 0, 0, ip.ttl, ProtocolByte[ip.protocol] >>)
  /\ Has(h, 10, ck)
  /\ Has(h, 12, ip.senderIP)
  /\ Has(h, 16, ip.destIP)

LEMMA IpLayout ==
  ASSUME NEW ip, IsIpPacket(ip), PduLen(ip) \in Words16
  PROVE  \E rest \in Nat :
           \A ck \in BytesOf(2) :
             /\ IpFields(ipHeader(ip, ck), ip, ck)
             /\ BigTotal(ipHeader(ip, ck)) = rest + BigTotal(ck)
<1> DEFINE a == << FirstByte(ip), ip.tos >>
           l == word(PduLen(ip))
           t == << 0, 1, 0, 0, ip.ttl, ProtocolByte[ip.protocol] >>
           s == ip.senderIP
           d == ip.destIP
           o == ip.options
           al == a \o l
           alt == al \o t
<1>1. /\ a \in Seq(Bytes) /\ Len(a) = 2
      /\ l \in Seq(Bytes) /\ Len(l) = 2
      /\ t \in Seq(Bytes) /\ Len(t) = 6
      /\ s \in Seq(Bytes) /\ Len(s) = 4
      /\ d \in Seq(Bytes) /\ Len(d) = 4
      /\ o \in Seq(Bytes)
  <2>1. FirstByte(ip) \in Bytes /\ ip.tos \in Bytes
    BY IpNumbers, IpTyped
  <2>2. a \in Seq(Bytes) /\ Len(a) = 2
    BY <2>1
  <2>3. l \in Seq(Bytes) /\ Len(l) = 2
    BY WordBytes
  <2>4. 0 \in Bytes /\ 1 \in Bytes
    BY ByteIs
  <2>5. ip.ttl \in Bytes /\ ProtocolByte[ip.protocol] \in Bytes
    BY IpNumbers, IpTyped
  <2>6. t \in Seq(Bytes) /\ Len(t) = 6
    BY <2>4, <2>5
  <2>7. /\ s \in Seq(Bytes) /\ Len(s) = 4 /\ d \in Seq(Bytes) /\ Len(d) = 4
        /\ o \in Seq(Bytes)
    BY IpTyped
  <2> HIDE DEF a, l, t, s, d, o
  <2> QED
    BY <2>2, <2>3, <2>6, <2>7
<1>2. Len(o) \in Nat /\ HeaderLen(ip) = 20 + Len(o)
  BY IpNumbers DEF HeaderLen
<1> HIDE DEF a, l, t, s, d, o
<1>3. /\ al \in Seq(Bytes) /\ Len(al) = 4 /\ Has(al, 0, a) /\ Has(al, 2, l)
  <2>1. /\ al \in Seq(Bytes) /\ Len(al) = Len(a) + Len(l)
        /\ Has(al, Len(a), l) /\ Has(al, 0, a)
    BY <1>1, PutBehind
  <2> QED
    BY <1>1, <2>1
<1> HIDE DEF al
<1>4. /\ alt \in Seq(Bytes) /\ Len(alt) = 10
      /\ Has(alt, 0, a) /\ Has(alt, 2, l) /\ Has(alt, 4, t)
  <2>1. /\ alt \in Seq(Bytes) /\ Len(alt) = Len(al) + Len(t)
        /\ Has(alt, Len(al), t)
        /\ \A n \in Nat, x \in Seq(Bytes) : Has(al, n, x) => Has(alt, n, x)
    BY <1>1, <1>3, PutBehind
  <2> QED
    BY <1>1, <1>3, <2>1
<1> HIDE DEF alt
<1> DEFINE rest == BigTotal(alt) + BigTotal(s) + BigTotal(d) + BigTotal(o)
<1>5. /\ BigTotal(alt) \in Nat /\ BigTotal(s) \in Nat /\ BigTotal(d) \in Nat
      /\ BigTotal(o) \in Nat
  BY <1>1, <1>4, ChecksumCompletes
<1>6. rest \in Nat
  BY <1>5
<1>7. ASSUME NEW ck \in BytesOf(2)
      PROVE  /\ IpFields(ipHeader(ip, ck), ip, ck)
             /\ BigTotal(ipHeader(ip, ck)) = rest + BigTotal(ck)
  <2> DEFINE h1 == alt \o ck
             h2 == h1 \o s
             h3 == h2 \o d
             h == h3 \o o
  <2>1. ck \in Seq(Bytes) /\ Len(ck) = 2 /\ BigTotal(ck) \in Nat
    BY ChecksumCompletes DEF BytesOf
  <2>2. 10 % 2 = 0 /\ 12 % 2 = 0 /\ 16 % 2 = 0 /\ 20 % 2 = 0
    BY Z3
  <2>3. /\ h1 \in Seq(Bytes) /\ Len(h1) = 12 /\ BigTotal(h1) = BigTotal(alt) + BigTotal(ck)
        /\ Has(h1, 0, a) /\ Has(h1, 2, l) /\ Has(h1, 4, t) /\ Has(h1, 10, ck)
    <3>1. /\ h1 \in Seq(Bytes) /\ Len(h1) = Len(alt) + Len(ck)
          /\ Has(h1, Len(alt), ck)
          /\ \A n \in Nat, x \in Seq(Bytes) : Has(alt, n, x) => Has(h1, n, x)
          /\ Len(alt) % 2 = 0 => BigTotal(h1) = BigTotal(alt) + BigTotal(ck)
      BY <1>4, <2>1, PutBehind
    <3> QED
      BY <1>1, <1>4, <2>1, <2>2, <3>1
  <2> HIDE DEF h1
  <2>4. /\ h2 \in Seq(Bytes) /\ Len(h2) = 16 /\ BigTotal(h2) = BigTotal(h1) + BigTotal(s)
        /\ Has(h2, 0, a) /\ Has(h2, 2, l) /\ Has(h2, 4, t) /\ Has(h2, 10, ck)
        /\ Has(h2, 12, s)
    <3>1. /\ h2 \in Seq(Bytes) /\ Len(h2) = Len(h1) + Len(s)
          /\ Has(h2, Len(h1), s)
          /\ \A n \in Nat, x \in Seq(Bytes) : Has(h1, n, x) => Has(h2, n, x)
          /\ Len(h1) % 2 = 0 => BigTotal(h2) = BigTotal(h1) + BigTotal(s)
      BY <1>1, <2>3, PutBehind
    <3> QED
      BY <1>1, <2>1, <2>2, <2>3, <3>1
  <2> HIDE DEF h2
  <2>5. /\ h3 \in Seq(Bytes) /\ Len(h3) = 20 /\ BigTotal(h3) = BigTotal(h2) + BigTotal(d)
        /\ Has(h3, 0, a) /\ Has(h3, 2, l) /\ Has(h3, 4, t) /\ Has(h3, 10, ck)
        /\ Has(h3, 12, s) /\ Has(h3, 16, d)
    <3>1. /\ h3 \in Seq(Bytes) /\ Len(h3) = Len(h2) + Len(d)
          /\ Has(h3, Len(h2), d)
          /\ \A n \in Nat, x \in Seq(Bytes) : Has(h2, n, x) => Has(h3, n, x)
          /\ Len(h2) % 2 = 0 => BigTotal(h3) = BigTotal(h2) + BigTotal(d)
      BY <1>1, <2>4, PutBehind
    <3> QED
      BY <1>1, <2>1, <2>2, <2>4, <3>1
  <2> HIDE DEF h3
  <2>6. /\ h \in Seq(Bytes) /\ Len(h) = 20 + Len(o) /\ BigTotal(h) = BigTotal(h3) + BigTotal(o)
        /\ Has(h, 0, a) /\ Has(h, 2, l) /\ Has(h, 4, t) /\ Has(h, 10, ck)
        /\ Has(h, 12, s) /\ Has(h, 16, d)
    <3>1. /\ h \in Seq(Bytes) /\ Len(h) = Len(h3) + Len(o)
          /\ \A n \in Nat, x \in Seq(Bytes) : Has(h3, n, x) => Has(h, n, x)
          /\ Len(h3) % 2 = 0 => BigTotal(h) = BigTotal(h3) + BigTotal(o)
      BY <1>1, <2>5, PutBehind
    <3> QED
      BY <1>1, <2>1, <2>2, <2>5, <3>1
  <2>7. h = ipHeader(ip, ck)
    BY DEF h, h3, h2, h1, alt, al, a, l, t, s, d, o, ipHeader, FirstByte, PduLen
  <2> HIDE DEF h
  <2>8. IpFields(h, ip, ck)
    BY <1>2, <2>6 DEF IpFields, a, l, t, s, d
  <2>9. BigTotal(h) = rest + BigTotal(ck)
    BY <1>5, <2>1, <2>3, <2>4, <2>5, <2>6
  <2> QED
    BY <2>7, <2>8, <2>9
<1> HIDE DEF rest
<1> QED
  BY <1>6, <1>7

\* What the sender puts in is what the receiver tests.
LEMMA IpHeaderIsGood ==
  ASSUME NEW ip, IsIpPacket(ip), PduLen(ip) \in Words16
  PROVE  LET h == ipHeader(ip, word(ipChecksum(ip)))
         IN  /\ ipChecksum(ip) \in Words16
             /\ IpFields(h, ip, word(ipChecksum(ip)))
             /\ Small(h) /\ in_cksum(h) = 0
<1> DEFINE c == ipChecksum(ip)
           z == << 0, 0 >>
           h0 == ipHeader(ip, z)
           w == word(c)
           h == ipHeader(ip, w)
<1>1. PICK rest \in Nat :
        \A ck \in BytesOf(2) :
          /\ IpFields(ipHeader(ip, ck), ip, ck)
          /\ BigTotal(ipHeader(ip, ck)) = rest + BigTotal(ck)
  BY IpLayout
<1>2. z \in BytesOf(2) /\ BigTotal(z) = 0
  <2>1. 0 \in Bytes
    BY ByteIs
  <2>2. z \in Seq(Bytes) /\ Len(z) = 2 /\ BigTotal(z) = 256 * 0 + 0
    BY <2>1, BigOfTwo
  <2> QED
    BY <2>2 DEF BytesOf
<1>3. h0 \in Seq(Bytes) /\ BigTotal(h0) = rest
  <2>1. IpFields(h0, ip, z) /\ BigTotal(h0) = rest + BigTotal(z)
    BY <1>1, <1>2
  <2> QED
    BY <1>2, <2>1 DEF IpFields
<1>4. c = checksumOf(h0)
  BY DEF ipChecksum
<1> HIDE DEF z, h0, c
<1>5. c \in Nat /\ c <= 65535 /\ rest + c # 0 /\ (rest + c) % 65535 = 0
  BY <1>3, <1>4, ChecksumCompletes
<1>6. c \in Words16
  BY <1>5, RangeWord
<1>7. w \in BytesOf(2) /\ BigTotal(w) = c
  BY <1>6, WordBytes DEF BytesOf
<1> HIDE DEF w
<1>8. IpFields(h, ip, w) /\ BigTotal(h) = rest + c
  BY <1>1, <1>7
<1> HIDE DEF h
<1>9. Small(h)
  <2>1. h \in Seq(Bytes) /\ Len(h) = HeaderLen(ip)
    BY <1>8 DEF IpFields
  <2>2. HeaderLen(ip) \in Nat /\ HeaderLen(ip) <= 60
    BY IpNumbers
  <2>3. HeaderLen(ip) <= 65535
    BY <2>2, Z3
  <2> QED
    BY <2>1, <2>3 DEF Small
<1>10. in_cksum(h) = 0
  <2>1. BigTotal(h) # 0 /\ BigTotal(h) % 65535 = 0
    BY <1>5, <1>8
  <2> QED
    BY <1>9, <2>1, GoodInBothOrders
<1> QED
  BY <1>6, <1>8, <1>9, <1>10 DEF h, w, c

-----------------------------------------------------------------------------
(* Adding words with the carry put in at the other end. *)

\* The word x stands for the sum v.
Stands(x, v) ==
  /\ x \in Nat /\ x <= 65535 /\ v \in Nat
  /\ x = 0 <=> v = 0
  /\ \E q \in Int : v = x + 65535 * q

LEMMA AddValStands ==
  ASSUME NEW x, NEW v, Stands(x, v), NEW w \in Nat, w <= 65535
  PROVE  Stands(addVal(x, w), v + w)
<1>1. /\ x \in Nat /\ x <= 65535 /\ v \in Nat /\ (x = 0 <=> v = 0)
  BY SMT DEF Stands
<1>2. PICK q \in Int : v = x + 65535 * q
  BY SMT DEF Stands
<1>3. CASE x + w <= 65535
  <2>1. addVal(x, w) = x + w
    <3>1. (x + w) % 65536 = x + w
      BY <1>1, <1>3, Z3
    <3> QED
      BY <1>1, <3>1, SMT DEF addVal
  <2>2. v + w = (x + w) + 65535 * q /\ v + w \in Nat /\ x + w \in Nat
        /\ (x + w = 0 <=> v + w = 0)
    BY <1>1, <1>2, Z3
  <2> QED
    BY <1>3, <2>1, <2>2, SMT DEF Stands
<1>4. CASE x + w > 65535
  <2>1. addVal(x, w) = x + w - 65535
    <3>1. (x + w) % 65536 = x + w - 65536
      BY <1>1, <1>4, Z3
    <3>2. x + w - 65536 < x /\ x + w - 65536 + 1 = x + w - 65535
      BY <1>1, <1>4, Z3
    <3> QED
      BY <3>1, <3>2, SMT DEF addVal
  <2>2. PICK p \in Int : p = q + 1
    OBVIOUS
  <2>3. /\ v + w = (x + w - 65535) + 65535 * p
        /\ v + w \in Nat /\ x + w - 65535 \in Nat /\ x + w - 65535 <= 65535
        /\ x + w - 65535 # 0 /\ v + w # 0
    BY <1>1, <1>2, <1>4, <2>2, Z3
  <2> QED
    BY <2>1, <2>3, SMT DEF Stands
<1> QED
  BY <1>1, <1>3, <1>4, Z3

\* A sum that is not zero is a multiple of 65535 when 65535 stands for it.
LEMMA StandsForMultiple ==
  ASSUME NEW x, NEW v, Stands(x, v), v # 0
  PROVE  x = 65535 <=> v % 65535 = 0
<1>1. x \in Nat /\ x <= 65535 /\ v \in Nat /\ x # 0
  BY SMT DEF Stands
<1>2. PICK q \in Int : v = x + 65535 * q
  BY SMT DEF Stands
<1>3. CASE x = 65535
  <2>1. v = 65535 * (q + 1)
    BY <1>2, <1>3, Z3
  <2> QED
    BY <1>3, <2>1, Z3
<1>4. CASE x # 65535
  <2>1. v % 65535 = x
    BY <1>1, <1>2, <1>4, Z3
  <2> QED
    BY <1>1, <1>4, <2>1, Z3
<1> QED
  BY <1>3, <1>4

\* The sum of the segment, inverted back and put in host order.
LEMMA BaseStands ==
  ASSUME NEW seg, Small(seg)
  PROVE  Stands(swap(65535 - in_cksum(seg)), BigTotal(seg))
<1>1. PICK s \in Nat : s = Total(seg) /\ s < 4294967296
  BY SmallTotal, Z3
<1>2. in_cksum(seg) = Folded(s)
  BY <1>1, CksumFolds
<1>3. PICK a \in Nat, low \in Nat :
     /\ s = 65535 * a + low /\ low <= 131070 /\ (s = 0 <=> low = 0) /\ a <= 65535
     /\ low <= 65535 => Folded(s) = 65535 - low
     /\ low > 65535 => Folded(s) = 131070 - low
  BY <1>1, FoldedSplits, Z3
<1>4. PICK r, q \in Nat : /\ r = 65535 - in_cksum(seg) /\ r <= 65535
                          /\ s = r + 65535 * q /\ (r = 0 <=> s = 0)
  <2>1. CASE low <= 65535
    <3>1. low = 65535 - in_cksum(seg) /\ s = low + 65535 * a
      BY <1>2, <1>3, <2>1, Z3
    <3> QED
      BY <1>3, <2>1, <3>1
  <2>2. CASE low > 65535
    <3>1. PICK m, p \in Nat : m = low - 65535 /\ p = a + 1
      BY <2>2, Z3
    <3>2. m = 65535 - in_cksum(seg) /\ s = m + 65535 * p /\ m <= 65535
          /\ m # 0 /\ s # 0
      BY <1>2, <1>3, <2>2, <3>1, Z3
    <3> QED
      BY <3>2
  <2> QED
    BY <1>3, <2>1, <2>2, Z3
<1>5. PICK o, e \in Nat : s = o + 256 * e /\ BigTotal(seg) = 256 * o + e
  <2>1. seg \in Seq(Bytes)
    BY DEF Small
  <2> QED
    BY <1>1, <2>1, TwoOrders
<1>6. PICK h, l \in Nat : /\ r = 256 * h + l /\ h <= 255 /\ l <= 255
                          /\ swap(r) = 256 * l + h
  <2>1. PICK h, l \in Nat : h = r \div 256 /\ l = r % 256 /\ h <= 255 /\ l <= 255
                            /\ r = 256 * h + l
    BY <1>4, CksumHalves, Z3
  <2>2. swap(r) = 256 * l + h
    BY <2>1 DEF swap
  <2> QED
    BY <2>1, <2>2
<1>7. PICK p \in Int : p = h + 256 * q - e
  OBVIOUS
<1>8. /\ 256 * o + e = (256 * l + h) + 65535 * p
      /\ 256 * l + h \in Nat /\ 256 * l + h <= 65535 /\ 256 * o + e \in Nat
      /\ 256 * l + h = 0 <=> 256 * o + e = 0
  <2>1. 256 * l + h = 0 <=> r = 0
    BY <1>6, Z3
  <2>2. 256 * o + e = 0 <=> s = 0
    BY <1>5, Z3
  <2>3. 256 * o + e = (256 * l + h) + 65535 * p
    BY <1>4, <1>5, <1>6, <1>7, Z3
  <2>4. 256 * l + h \in Nat /\ 256 * l + h <= 65535 /\ 256 * o + e \in Nat
    BY <1>6, Z3
  <2> QED
    BY <1>4, <2>1, <2>2, <2>3, <2>4
<1>9. Stands(256 * l + h, 256 * o + e)
  BY <1>8, SMT DEF Stands
<1> QED
  BY <1>4, <1>5, <1>6, <1>9

-----------------------------------------------------------------------------
(* The verdict on a segment. *)

\* The sum over a segment and its pseudo header
PseudoTotal(s, d, seg) == BigTotal(seg) + TCP + Len(seg) + BigTotal(s) + BigTotal(d)

LEMMA AddressStands ==
  ASSUME NEW x, NEW v, Stands(x, v), NEW a \in Seq(Bytes), Len(a) = 4
  PROVE  Stands(addIP(x, a), v + BigTotal(a)) /\ BigTotal(a) \in Nat
<1>1. /\ a[1] \in Nat /\ a[2] \in Nat /\ a[3] \in Nat /\ a[4] \in Nat
      /\ a[1] <= 255 /\ a[2] <= 255 /\ a[3] <= 255 /\ a[4] <= 255
      /\ BigTotal(a) = (256 * a[1] + a[2]) + (256 * a[3] + a[4])
  BY BigOfFour
<1>2. PICK w1, w2 \in Nat : /\ w1 = 256 * a[1] + a[2] /\ w2 = 256 * a[3] + a[4]
                            /\ w1 <= 65535 /\ w2 <= 65535
  BY <1>1, Z3
<1>3. Stands(addVal(x, w1), v + w1)
  BY <1>2, AddValStands
<1>4. Stands(addVal(addVal(x, w1), w2), (v + w1) + w2)
  BY <1>2, <1>3, AddValStands
<1>5. addIP(x, a) = addVal(addVal(x, w1), w2)
  BY <1>2 DEF addIP
<1>6. v \in Nat
  BY SMT DEF Stands
<1>7. BigTotal(a) = w1 + w2
  BY <1>1, <1>2
<1>8. (v + w1) + w2 = v + BigTotal(a) /\ BigTotal(a) \in Nat
  BY <1>6, <1>7
<1> QED
  BY <1>4, <1>5, <1>8

LEMMA TcpVerdict ==
  ASSUME NEW pkt \in Seq(Bytes), NEW at \in Nat, NEW seg, Small(seg), Has(pkt, at, seg),
         NEW iHeader, Len(seg) = (iHeader.pduLen - iHeader.headerLen) % 65536,
         iHeader.senderIP \in Seq(Bytes), Len(iHeader.senderIP) = 4,
         iHeader.destIP \in Seq(Bytes), Len(iHeader.destIP) = 4
  PROVE  LET v == PseudoTotal(iHeader.senderIP, iHeader.destIP, seg)
         IN  v \in Nat /\ findTCP_CS(at, pkt, iHeader) = Verdict(v % 65535 = 0)
<1> DEFINE s == iHeader.senderIP
           d == iHeader.destIP
           L == Len(seg)
           base == swap(65535 - in_cksum(seg))
           x2 == addVal(addVal(base, TCP), L)
           x == addIP(addIP(x2, s), d)
           v == PseudoTotal(s, d, seg)
<1>1. octets(pkt, at, L) = seg
  <2>1. seg \in Seq(Bytes)
    BY DEF Small
  <2> QED
    BY <2>1, HasOctets
<1>2. findTCP_CS(at, pkt, iHeader) = Verdict(x = 65535)
  BY <1>1, SMT DEF findTCP_CS, CHECKSUM_VALUE
<1>3. L \in Nat /\ L <= 65535
  BY LenProperties DEF Small
<1>4. TCP \in Nat /\ TCP <= 65535 /\ TCP # 0
  BY SMT DEF TCP
<1>5. Stands(base, BigTotal(seg)) /\ BigTotal(seg) \in Nat
  BY BaseStands, GoodInBothOrders
<1>6. s \in Seq(Bytes) /\ Len(s) = 4 /\ d \in Seq(Bytes) /\ Len(d) = 4
  OBVIOUS
<1> HIDE DEF s, d, L, base
<1>7. Stands(addVal(base, TCP), BigTotal(seg) + TCP)
  BY <1>4, <1>5, AddValStands
<1>8. Stands(x2, (BigTotal(seg) + TCP) + L)
  BY <1>3, <1>7, AddValStands
<1> HIDE DEF x2
<1>9. Stands(addIP(x2, s), (BigTotal(seg) + TCP + L) + BigTotal(s)) /\ BigTotal(s) \in Nat
  BY <1>6, <1>8, AddressStands
<1>10. Stands(x, v) /\ BigTotal(d) \in Nat
  <2>1. /\ Stands(x, (BigTotal(seg) + TCP + L + BigTotal(s)) + BigTotal(d))
        /\ BigTotal(d) \in Nat
    BY <1>6, <1>9, AddressStands
  <2>2. v = (BigTotal(seg) + TCP + L + BigTotal(s)) + BigTotal(d)
    BY DEF PseudoTotal, L
  <2> QED
    BY <2>1, <2>2
<1>11. v \in Nat /\ v # 0
  <2>1. v = BigTotal(seg) + TCP + L + BigTotal(s) + BigTotal(d)
    BY DEF PseudoTotal, L
  <2> HIDE DEF v
  <2> QED
    BY <1>3, <1>4, <1>5, <1>9, <1>10, <2>1
<1> HIDE DEF x, v
<1>12. x = 65535 <=> v % 65535 = 0
  BY <1>10, <1>11, StandsForMultiple
<1> QED
  BY <1>2, <1>11, <1>12, SMT DEF v, s, d

\* Another byte at k changes the sum by the difference of what it adds.
LEMMA BigTotalChanges ==
  ASSUME NEW b \in Seq(Bytes), NEW k \in 1 .. Len(b), NEW v \in Bytes
  PROVE  LET c == [b EXCEPT ![k] = v]
         IN  /\ c \in Seq(Bytes) /\ Len(c) = Len(b)
             /\ BigTotal(b) \in Nat /\ BigTotal(c) \in Nat
             /\ \/ BigTotal(c) = BigTotal(b) + v - b[k]
                \/ BigTotal(c) = BigTotal(b) + 256 * v - 256 * b[k]
<1> DEFINE c == [b EXCEPT ![k] = v]
           N == Len(b)
           D == 1 .. N
           f == BigWords(b)
           g == BigWords(c)
<1>1. c \in Seq(Bytes) /\ Len(c) = N /\ c[k] = v /\ \A i \in D : i # k => c[i] = b[i]
  BY ExceptSeq
<1> HIDE DEF c
<1>2. /\ f \in [D -> Int] /\ N \in Nat
      /\ \A i \in D : f[i] = IF i % 2 = 1 THEN 256 * b[i] ELSE b[i]
      /\ \A i \in D : b[i] \in Nat
  BY BigWordsRange
<1>3. /\ g \in [D -> Int]
      /\ \A i \in D : g[i] = IF i % 2 = 1 THEN 256 * c[i] ELSE c[i]
  <2>1. /\ g \in [1 .. Len(c) -> Int]
        /\ \A i \in 1 .. Len(c) : g[i] = IF i % 2 = 1 THEN 256 * c[i] ELSE c[i]
    BY <1>1, BigWordsRange
  <2> QED
    BY <1>1, <2>1
<1>4. IsFiniteSet(D) /\ k \in D
  BY <1>2, FS_Interval
<1> HIDE DEF f, g, N, D
<1>5. \A i \in D : i # k => g[i] = f[i]
  BY <1>1, <1>2, <1>3
<1>6. Sum(g) = Sum(f) + g[k] - f[k]
  <2>1. /\ IsFiniteSet(D) /\ f \in [D -> Int] /\ g \in [D -> Int] /\ k \in D
        /\ \A i \in D : i # k => g[i] = f[i]
    BY <1>2, <1>3, <1>4, <1>5
  <2> QED
    BY <2>1, SumChanges, Zenon
<1>7. BigTotal(b) \in Nat /\ BigTotal(c) \in Nat
  BY <1>1, ChecksumCompletes
<1>8. \/ g[k] = v /\ f[k] = b[k]
      \/ g[k] = 256 * v /\ f[k] = 256 * b[k]
  BY <1>1, <1>2, <1>3, <1>4
<1>9. BigTotal(b) = Sum(f) /\ BigTotal(c) = Sum(g)
  BY DEF BigTotal, f, g
<1>10. \/ BigTotal(c) = BigTotal(b) + v - b[k]
       \/ BigTotal(c) = BigTotal(b) + 256 * v - 256 * b[k]
  BY <1>6, <1>8, <1>9
<1> QED
  BY <1>1, <1>7, <1>10 DEF c, N

-----------------------------------------------------------------------------
(* The flags in their byte. *)

AllFlags == {1, 2, 4, 8, 16, 32, 64, 128}

FlagPart(b, s) == IF b \in s THEN b ELSE 0
FlagParts(s) ==
  FlagPart(1, s) + FlagPart(2, s) + FlagPart(4, s) + FlagPart(8, s)
    + FlagPart(16, s) + FlagPart(32, s) + FlagPart(64, s) + FlagPart(128, s)

\* The fold of SumSet().
SetSums(s) ==
  CHOOSE g : g = [u \in SUBSET s |->
                    IF u = {} THEN 0 ELSE Chosen(u) + g[u \ {Chosen(u)}]]

Same(s) == [x \in s |-> x]

LEMMA SumSetIs ==
  ASSUME NEW s
  PROVE  SumSet(s) = Sum(Same(s))
<1> DEFINE Eq(g) == [u \in SUBSET s |->
                       IF u = {} THEN 0 ELSE Chosen(u) + g[u \ {Chosen(u)}]]
<1>1. ASSUME NEW g
      PROVE  Eq(g) = SumEq(g, Same(s), s)
  <2>1. ASSUME NEW u \in SUBSET s, u # {}
        PROVE  Same(s)[Chosen(u)] = Chosen(u)
     BY <2>1 DEF Chosen, Same
  <2> QED
    BY <2>1 DEF SumEq
<1>2. DOMAIN Same(s) = s
  BY DEF Same
<1>3. SetSums(s) = CHOOSE g : g = Eq(g)
  BY DEF SetSums
<1>4. SumSet(s) = SetSums(s)[s]
  BY SMT DEF SumSet, FoldSet, MapThenFoldSet, SetSums, Chosen
<1> HIDE DEF Eq
<1>5. (CHOOSE g : g = Eq(g)) = (CHOOSE g : g = SumEq(g, Same(s), s))
  BY <1>1
<1> QED
  BY <1>2, <1>3, <1>4, <1>5 DEF Sum, Sums

\* A flag more.
LEMMA FlagMore ==
  ASSUME NEW u \in SUBSET AllFlags, NEW c \in u
  PROVE  FlagParts(u \ {c}) \in Nat /\ FlagParts(u) = c + FlagParts(u \ {c})
<1> DEFINE v == u \ {c}
<1>1. FlagPart(c, u) = c /\ FlagPart(c, v) = 0
  BY DEF FlagPart
<1>2. \A b : b # c => FlagPart(b, v) = FlagPart(b, u)
  BY DEF FlagPart
<1>3. \A b \in Nat : FlagPart(b, v) \in Nat
  BY DEF FlagPart
<1>4. c \in AllFlags
  OBVIOUS
<1> HIDE DEF v
<1>5. PICK y1, y2, y4, y8, y16, y32, y64, y128 \in Nat :
        /\ y1 = FlagPart(1, v) /\ y2 = FlagPart(2, v) /\ y4 = FlagPart(4, v)
        /\ y8 = FlagPart(8, v) /\ y16 = FlagPart(16, v) /\ y32 = FlagPart(32, v)
        /\ y64 = FlagPart(64, v) /\ y128 = FlagPart(128, v)
  BY <1>3
<1>6. FlagParts(v) = y1 + y2 + y4 + y8 + y16 + y32 + y64 + y128
  BY <1>5 DEF FlagParts
<1>7. ASSUME c = 1 PROVE FlagParts(u) = c + FlagParts(v)
  <2>1. y1 = 0 /\ FlagPart(1, u) = 1
    BY <1>1, <1>5, <1>7
  <2>2. FlagPart(2, u) = y2 /\ FlagPart(4, u) = y4 /\ FlagPart(8, u) = y8
        /\ FlagPart(16, u) = y16 /\ FlagPart(32, u) = y32 /\ FlagPart(64, u) = y64 /\ FlagPart(128, u) = y128
    BY <1>2, <1>5, <1>7
  <2>3. FlagParts(u) = 1 + y2 + y4 + y8 + y16 + y32 + y64 + y128
    BY <2>1, <2>2 DEF FlagParts
  <2>4. FlagParts(v) = 0 + y2 + y4 + y8 + y16 + y32 + y64 + y128
    BY <1>6, <2>1
  <2> QED
    BY <1>7, <2>3, <2>4
<1>8. ASSUME c = 2 PROVE FlagParts(u) = c + FlagParts(v)
  <2>1. y2 = 0 /\ FlagPart(2, u) = 2
    BY <1>1, <1>5, <1>8
  <2>2. FlagPart(1, u) = y1 /\ FlagPart(4, u) = y4 /\ FlagPart(8, u) = y8
        /\ FlagPart(16, u) = y16 /\ FlagPart(32, u) = y32 /\ FlagPart(64, u) = y64 /\ FlagPart(128, u) = y128
    BY <1>2, <1>5, <1>8
  <2>3. FlagParts(u) = y1 + 2 + y4 + y8 + y16 + y32 + y64 + y128
    BY <2>1, <2>2 DEF FlagParts
  <2>4. FlagParts(v) = y1 + 0 + y4 + y8 + y16 + y32 + y64 + y128
    BY <1>6, <2>1
  <2> QED
    BY <1>8, <2>3, <2>4
<1>9. ASSUME c = 4 PROVE FlagParts(u) = c + FlagParts(v)
  <2>1. y4 = 0 /\ FlagPart(4, u) = 4
    BY <1>1, <1>5, <1>9
  <2>2. FlagPart(1, u) = y1 /\ FlagPart(2, u) = y2 /\ FlagPart(8, u) = y8
        /\ FlagPart(16, u) = y16 /\ FlagPart(32, u) = y32 /\ FlagPart(64, u) = y64 /\ FlagPart(128, u) = y128
    BY <1>2, <1>5, <1>9
  <2>3. FlagParts(u) = y1 + y2 + 4 + y8 + y16 + y32 + y64 + y128
    BY <2>1, <2>2 DEF FlagParts
  <2>4. FlagParts(v) = y1 + y2 + 0 + y8 + y16 + y32 + y64 + y128
    BY <1>6, <2>1
  <2> QED
    BY <1>9, <2>3, <2>4
<1>10. ASSUME c = 8 PROVE FlagParts(u) = c + FlagParts(v)
  <2>1. y8 = 0 /\ FlagPart(8, u) = 8
    BY <1>1, <1>5, <1>10
  <2>2. FlagPart(1, u) = y1 /\ FlagPart(2, u) = y2 /\ FlagPart(4, u) = y4
        /\ FlagPart(16, u) = y16 /\ FlagPart(32, u) = y32 /\ FlagPart(64, u) = y64 /\ FlagPart(128, u) = y128
    BY <1>2, <1>5, <1>10
  <2>3. FlagParts(u) = y1 + y2 + y4 + 8 + y16 + y32 + y64 + y128
    BY <2>1, <2>2 DEF FlagParts
  <2>4. FlagParts(v) = y1 + y2 + y4 + 0 + y16 + y32 + y64 + y128
    BY <1>6, <2>1
  <2> QED
    BY <1>10, <2>3, <2>4
<1>11. ASSUME c = 16 PROVE FlagParts(u) = c + FlagParts(v)
  <2>1. y16 = 0 /\ FlagPart(16, u) = 16
    BY <1>1, <1>5, <1>11
  <2>2. FlagPart(1, u) = y1 /\ FlagPart(2, u) = y2 /\ FlagPart(4, u) = y4
        /\ FlagPart(8, u) = y8 /\ FlagPart(32, u) = y32 /\ FlagPart(64, u) = y64 /\ FlagPart(128, u) = y128
    BY <1>2, <1>5, <1>11
  <2>3. FlagParts(u) = y1 + y2 + y4 + y8 + 16 + y32 + y64 + y128
    BY <2>1, <2>2 DEF FlagParts
  <2>4. FlagParts(v) = y1 + y2 + y4 + y8 + 0 + y32 + y64 + y128
    BY <1>6, <2>1
  <2> QED
    BY <1>11, <2>3, <2>4
<1>12. ASSUME c = 32 PROVE FlagParts(u) = c + FlagParts(v)
  <2>1. y32 = 0 /\ FlagPart(32, u) = 32
    BY <1>1, <1>5, <1>12
  <2>2. FlagPart(1, u) = y1 /\ FlagPart(2, u) = y2 /\ FlagPart(4, u) = y4 /\ FlagPart(8, u) = y8
        /\ FlagPart(16, u) = y16 /\ FlagPart(64, u) = y64 /\ FlagPart(128, u) = y128
    BY <1>2, <1>5, <1>12
  <2>3. FlagParts(u) = y1 + y2 + y4 + y8 + y16 + 32 + y64 + y128
    BY <2>1, <2>2 DEF FlagParts
  <2>4. FlagParts(v) = y1 + y2 + y4 + y8 + y16 + 0 + y64 + y128
    BY <1>6, <2>1
  <2> QED
    BY <1>12, <2>3, <2>4
<1>13. ASSUME c = 64 PROVE FlagParts(u) = c + FlagParts(v)
  <2>1. y64 = 0 /\ FlagPart(64, u) = 64
    BY <1>1, <1>5, <1>13
  <2>2. FlagPart(1, u) = y1 /\ FlagPart(2, u) = y2 /\ FlagPart(4, u) = y4 /\ FlagPart(8, u) = y8
        /\ FlagPart(16, u) = y16 /\ FlagPart(32, u) = y32 /\ FlagPart(128, u) = y128
    BY <1>2, <1>5, <1>13
  <2>3. FlagParts(u) = y1 + y2 + y4 + y8 + y16 + y32 + 64 + y128
    BY <2>1, <2>2 DEF FlagParts
  <2>4. FlagParts(v) = y1 + y2 + y4 + y8 + y16 + y32 + 0 + y128
    BY <1>6, <2>1
  <2> QED
    BY <1>13, <2>3, <2>4
<1>14. ASSUME c = 128 PROVE FlagParts(u) = c + FlagParts(v)
  <2>1. y128 = 0 /\ FlagPart(128, u) = 128
    BY <1>1, <1>5, <1>14
  <2>2. FlagPart(1, u) = y1 /\ FlagPart(2, u) = y2 /\ FlagPart(4, u) = y4 /\ FlagPart(8, u) = y8
        /\ FlagPart(16, u) = y16 /\ FlagPart(32, u) = y32 /\ FlagPart(64, u) = y64
    BY <1>2, <1>5, <1>14
  <2>3. FlagParts(u) = y1 + y2 + y4 + y8 + y16 + y32 + y64 + 128
    BY <2>1, <2>2 DEF FlagParts
  <2>4. FlagParts(v) = y1 + y2 + y4 + y8 + y16 + y32 + y64 + 0
    BY <1>6, <2>1
  <2> QED
    BY <1>14, <2>3, <2>4
<1>15. FlagParts(u) = c + FlagParts(v)
  <2>1. \/ c = 1 \/ c = 2 \/ c = 4 \/ c = 8 \/ c = 16 \/ c = 32 \/ c = 64 \/ c = 128
    BY <1>4 DEF AllFlags
  <2> QED
    BY <2>1, <1>7, <1>8, <1>9, <1>10, <1>11, <1>12, <1>13, <1>14
<1> QED
  BY <1>6, <1>15 DEF v

LEMMA FlagsAdd ==
  ASSUME NEW s \in SUBSET AllFlags
  PROVE  SumSet(s) = FlagParts(s)
<1> DEFINE f == Same(s)
           Q == {u \in SUBSET s : Sums(f)[u] = FlagParts(u)}
<1>1. IsFiniteSet(s)
  <2>1. IsFiniteSet(AllFlags)
    <3>1. PICK n \in Nat : n = 128
      OBVIOUS
    <3>2. IsFiniteSet(1 .. n)
      BY FS_Interval
    <3>3. AllFlags \in SUBSET (1 .. n)
      BY <3>1 DEF AllFlags
    <3> QED
      BY <3>2, <3>3, FS_Subset
  <2> QED
    BY <2>1, FS_Subset
<1>2. DOMAIN f = s /\ \A x \in s : f[x] = x
  BY DEF Same
<1> HIDE DEF f
<1>3. {} \in Q
  <2>1. Sums(f)[{}] = 0
    BY <1>1, <1>2, SumOfNone
  <2>2. FlagParts({}) = 0
    BY DEF FlagParts, FlagPart
  <2> QED
    BY <2>1, <2>2
<1>4. ASSUME NEW u \in SUBSET s, u # {}, u \ {Chosen(u)} \in Q
      PROVE  u \in Q
  <2>1. Chosen(u) \in u
    BY <1>4 DEF Chosen
  <2>2. Sums(f)[u] = f[Chosen(u)] + Sums(f)[u \ {Chosen(u)}]
    BY <1>1, <1>2, <1>4, SumSteps
  <2>3. FlagParts(u) = Chosen(u) + FlagParts(u \ {Chosen(u)})
    <3>1. u \in SUBSET AllFlags
      OBVIOUS
    <3> QED
      BY <2>1, <3>1, FlagMore
  <2> QED
    BY <1>2, <1>4, <2>1, <2>2, <2>3
<1>5. \A u \in SUBSET s : u \in Q
  <2> HIDE DEF Q
  <2> QED
    BY <1>1, <1>3, <1>4, SubsetsInduct
<1>6. s \in Q
  BY <1>5
<1> QED
  BY <1>2, <1>6, SumSetIs DEF Sum, f

\* The byte, and what is read back of the word it is in.
LEMMA FlagsAreRead ==
  ASSUME NEW s \in SUBSET AllFlags
  PROVE  /\ SumSet(s) \in Bytes
         /\ \A b \in {1, 2, 4, 16} : Bit(256 * 80 + SumSet(s), b) <=> b \in s
<1>1. PICK x1, x2, x4, x8, x16, x32, x64, x128 \in {0, 1} :
        /\ FlagPart(1, s) = x1 /\ FlagPart(2, s) = 2 * x2 /\ FlagPart(4, s) = 4 * x4
        /\ FlagPart(8, s) = 8 * x8 /\ FlagPart(16, s) = 16 * x16
        /\ FlagPart(32, s) = 32 * x32 /\ FlagPart(64, s) = 64 * x64
        /\ FlagPart(128, s) = 128 * x128
  <2>1. \A b \in Nat : \E x \in {0, 1} : FlagPart(b, s) = b * x
    <3>1. \A b \in Nat : b * 0 = 0 /\ b * 1 = b
      OBVIOUS
    <3> QED
      BY <3>1 DEF FlagPart
  <2>2. /\ 1 \in Nat /\ 2 \in Nat /\ 4 \in Nat /\ 8 \in Nat /\ 16 \in Nat
        /\ 32 \in Nat /\ 64 \in Nat /\ 128 \in Nat
    OBVIOUS
  <2>3. /\ \E x \in {0, 1} : FlagPart(1, s) = 1 * x
        /\ \E x \in {0, 1} : FlagPart(2, s) = 2 * x
        /\ \E x \in {0, 1} : FlagPart(4, s) = 4 * x
        /\ \E x \in {0, 1} : FlagPart(8, s) = 8 * x
        /\ \E x \in {0, 1} : FlagPart(16, s) = 16 * x
        /\ \E x \in {0, 1} : FlagPart(32, s) = 32 * x
        /\ \E x \in {0, 1} : FlagPart(64, s) = 64 * x
        /\ \E x \in {0, 1} : FlagPart(128, s) = 128 * x
    BY <2>1, <2>2
  <2>4. \A x \in {0, 1} : 1 * x = x
    OBVIOUS
  <2> QED
    BY <2>3, <2>4
<1>2. /\ x1 \in Nat /\ x2 \in Nat /\ x4 \in Nat /\ x8 \in Nat /\ x16 \in Nat
      /\ x32 \in Nat /\ x64 \in Nat /\ x128 \in Nat
      /\ x1 <= 1 /\ x2 <= 1 /\ x4 <= 1 /\ x8 <= 1 /\ x16 <= 1
      /\ x32 <= 1 /\ x64 <= 1 /\ x128 <= 1
  OBVIOUS
<1>3. SumSet(s) = x1 + 2 * x2 + 4 * x4 + 8 * x8 + 16 * x16 + 32 * x32
                    + 64 * x64 + 128 * x128
  BY <1>1, FlagsAdd DEF FlagParts
<1>4. SumSet(s) \in Nat /\ SumSet(s) <= 255
  BY <1>2, <1>3, Z3
<1>a. /\ 1 \in s <=> x1 = 1
      /\ 2 \in s <=> x2 = 1
      /\ 4 \in s <=> x4 = 1
      /\ 16 \in s <=> x16 = 1
  BY <1>1 DEF FlagPart
<1>b. PICK n \in Nat : n = 256 * 80 + SumSet(s)
  BY <1>4
<1>5. n = 20480 + x1 + 2 * x2 + 4 * x4 + 8 * x8 + 16 * x16 + 32 * x32
            + 64 * x64 + 128 * x128
  BY <1>2, <1>3, <1>b, Z3
<1>7. Bit(n, 1) <=> 1 \in s
  <2>1. n \div 1 = x1 + 2 * (10240 + x2 + 2 * x4 + 4 * x8 + 8 * x16 + 16 * x32
                              + 32 * x64 + 64 * x128)
    BY <1>2, <1>5, Z3
  <2>2. (n \div 1) % 2 = x1
    BY <1>2, <2>1, Z3
  <2> QED
    BY <1>a, <2>2 DEF Bit
<1>8. Bit(n, 2) <=> 2 \in s
  <2>1. n \div 2 = x2 + 2 * (5120 + x4 + 2 * x8 + 4 * x16 + 8 * x32 + 16 * x64 + 32 * x128)
    BY <1>2, <1>5, Z3
  <2>2. (n \div 2) % 2 = x2
    BY <1>2, <2>1, Z3
  <2> QED
    BY <1>a, <2>2 DEF Bit
<1>9. Bit(n, 4) <=> 4 \in s
  <2>1. n \div 4 = x4 + 2 * (2560 + x8 + 2 * x16 + 4 * x32 + 8 * x64 + 16 * x128)
    BY <1>2, <1>5, Z3
  <2>2. (n \div 4) % 2 = x4
    BY <1>2, <2>1, Z3
  <2> QED
    BY <1>a, <2>2 DEF Bit
<1>10. Bit(n, 16) <=> 16 \in s
  <2>1. n \div 16 = x16 + 2 * (640 + x32 + 2 * x64 + 4 * x128)
    BY <1>2, <1>5, Z3
  <2>2. (n \div 16) % 2 = x16
    BY <1>2, <2>1, Z3
  <2> QED
    BY <1>a, <2>2 DEF Bit
<1>11. SumSet(s) \in Bytes
  BY <1>4, ByteIs
<1> QED
  BY <1>b, <1>7, <1>8, <1>9, <1>10, <1>11

-----------------------------------------------------------------------------
(* The segment. *)

\* What is in f is at the same place in h.
Keeps(f, h) == \A n \in Nat, x \in Seq(Bytes) : Has(f, n, x) => Has(h, n, x)

LEMMA KeepsBehind ==
  ASSUME NEW f \in Seq(Bytes), NEW b \in Seq(Bytes)
  PROVE  /\ f \o b \in Seq(Bytes) /\ Len(f \o b) = Len(f) + Len(b)
         /\ Has(f \o b, Len(f), b) /\ Has(f \o b, 0, f) /\ Keeps(f, f \o b)
  BY PutBehind DEF Keeps

LEMMA WordBehind ==
  ASSUME NEW f \in Seq(Bytes), NEW w \in Words16
  PROVE  /\ f \o word(w) \in Seq(Bytes) /\ Len(f \o word(w)) = Len(f) + 2
         /\ word(w) \in Seq(Bytes) /\ Has(f \o word(w), Len(f), word(w))
         /\ Keeps(f, f \o word(w))
<1>1. word(w) \in Seq(Bytes) /\ Len(word(w)) = 2
  BY WordBytes
<1> HIDE DEF word
<1> QED
  BY <1>1, KeepsBehind

LEMMA TcpTyped ==
  ASSUME NEW t \in TcpHeaders
  PROVE  /\ t.src \in Words16 /\ t.dst \in Words16
         /\ t.sqNum \in Words16 \X Words16 /\ t.ackNum \in Words16 \X Words16
         /\ t.winSize \in Words16 /\ t.flags \in SUBSET AllFlags
  BY Zenon DEF TcpHeaders, AllFlags

\* What a segment has before its checksum
TcpHead(t) ==
  word(t.src) \o word(t.dst) \o word(t.sqNum[1]) \o word(t.sqNum[2])
    \o word(t.ackNum[1]) \o word(t.ackNum[2])
    \o << 80, SumSet(t.flags) >> \o word(t.winSize)

TcpFields(h, t) ==
  /\ Has(h, 0, word(t.src)) /\ Has(h, 2, word(t.dst))
  /\ Has(h, 4, word(t.sqNum[1])) /\ Has(h, 6, word(t.sqNum[2]))
  /\ Has(h, 8, word(t.ackNum[1])) /\ Has(h, 10, word(t.ackNum[2]))
  /\ Has(h, 12, << 80, SumSet(t.flags) >>)
  /\ Has(h, 14, word(t.winSize))

LEMMA TcpHeadLayout ==
  ASSUME NEW t \in TcpHeaders
  PROVE  /\ TcpHead(t) \in Seq(Bytes) /\ Len(TcpHead(t)) = 16
         /\ TcpFields(TcpHead(t), t)
<1> DEFINE src == word(t.src)
           dst == word(t.dst)
           s1 == word(t.sqNum[1])
           s2 == word(t.sqNum[2])
           a1 == word(t.ackNum[1])
           a2 == word(t.ackNum[2])
           fl == << 80, SumSet(t.flags) >>
           win == word(t.winSize)
           h2 == src \o dst
           h3 == h2 \o s1
           h4 == h3 \o s2
           h5 == h4 \o a1
           h6 == h5 \o a2
           h7 == h6 \o fl
           h8 == h7 \o win
<1>1. /\ t.src \in Words16 /\ t.dst \in Words16
      /\ t.sqNum[1] \in Words16 /\ t.sqNum[2] \in Words16
      /\ t.ackNum[1] \in Words16 /\ t.ackNum[2] \in Words16
      /\ t.winSize \in Words16
  BY TcpTyped
<1>2. fl \in Seq(Bytes) /\ Len(fl) = 2
  <2>1. SumSet(t.flags) \in Bytes
    BY TcpTyped, FlagsAreRead
  <2>2. 80 \in Bytes
    BY ByteIs
  <2> QED
    BY <2>1, <2>2
<1>3. /\ src \in Seq(Bytes) /\ Len(src) = 2
      /\ dst \in Seq(Bytes) /\ Len(dst) = 2
      /\ s1 \in Seq(Bytes) /\ s2 \in Seq(Bytes) /\ a1 \in Seq(Bytes) /\ a2 \in Seq(Bytes)
      /\ win \in Seq(Bytes)
  BY <1>1, WordBytes
<1>4. h2 \in Seq(Bytes) /\ Len(h2) = 4 /\ Has(h2, 0, src) /\ Has(h2, 2, dst)
  <2> HIDE DEF src, dst
  <2>1. h2 \in Seq(Bytes) /\ Len(h2) = Len(src) + Len(dst) /\ Has(h2, Len(src), dst)
        /\ Has(h2, 0, src)
    BY <1>3, KeepsBehind
  <2> QED
    BY <1>3, <2>1
<1> HIDE DEF src, dst, h2
<1>5. h3 \in Seq(Bytes) /\ Len(h3) = 6 /\ Has(h3, 4, s1) /\ Keeps(h2, h3)
  <2>1. h3 \in Seq(Bytes) /\ Len(h3) = Len(h2) + 2 /\ Has(h3, Len(h2), s1) /\ Keeps(h2, h3)
    BY <1>1, <1>4, WordBehind
  <2> QED
    BY <1>4, <2>1
<1> HIDE DEF s1, h3
<1>6. h4 \in Seq(Bytes) /\ Len(h4) = 8 /\ Has(h4, 6, s2) /\ Keeps(h3, h4)
  <2>1. h4 \in Seq(Bytes) /\ Len(h4) = Len(h3) + 2 /\ Has(h4, Len(h3), s2) /\ Keeps(h3, h4)
    BY <1>1, <1>5, WordBehind
  <2> QED
    BY <1>5, <2>1
<1> HIDE DEF s2, h4
<1>7. h5 \in Seq(Bytes) /\ Len(h5) = 10 /\ Has(h5, 8, a1) /\ Keeps(h4, h5)
  <2>1. h5 \in Seq(Bytes) /\ Len(h5) = Len(h4) + 2 /\ Has(h5, Len(h4), a1) /\ Keeps(h4, h5)
    BY <1>1, <1>6, WordBehind
  <2> QED
    BY <1>6, <2>1
<1> HIDE DEF a1, h5
<1>8. h6 \in Seq(Bytes) /\ Len(h6) = 12 /\ Has(h6, 10, a2) /\ Keeps(h5, h6)
  <2>1. h6 \in Seq(Bytes) /\ Len(h6) = Len(h5) + 2 /\ Has(h6, Len(h5), a2) /\ Keeps(h5, h6)
    BY <1>1, <1>7, WordBehind
  <2> QED
    BY <1>7, <2>1
<1> HIDE DEF a2, h6, fl
<1>9. h7 \in Seq(Bytes) /\ Len(h7) = 14 /\ Has(h7, 12, fl) /\ Keeps(h6, h7)
  <2>1. h7 \in Seq(Bytes) /\ Len(h7) = Len(h6) + Len(fl) /\ Has(h7, Len(h6), fl) /\ Keeps(h6, h7)
    BY <1>2, <1>8, KeepsBehind
  <2> QED
    BY <1>2, <1>8, <2>1
<1> HIDE DEF h7
<1>10. h8 \in Seq(Bytes) /\ Len(h8) = 16 /\ Has(h8, 14, win) /\ Keeps(h7, h8)
  <2>1. h8 \in Seq(Bytes) /\ Len(h8) = Len(h7) + 2 /\ Has(h8, Len(h7), win) /\ Keeps(h7, h8)
    BY <1>1, <1>9, WordBehind
  <2> QED
    BY <1>9, <2>1
<1> HIDE DEF win, h8
<1>11. /\ 0 \in Nat /\ 2 \in Nat /\ 4 \in Nat /\ 6 \in Nat
       /\ 8 \in Nat /\ 10 \in Nat /\ 12 \in Nat
  OBVIOUS
<1>12. /\ Keeps(h6, h8) /\ Keeps(h5, h8) /\ Keeps(h4, h8) /\ Keeps(h3, h8) /\ Keeps(h2, h8)
  BY <1>5, <1>6, <1>7, <1>8, <1>9, <1>10, Zenon DEF Keeps
<1>13. /\ Has(h8, 0, src) /\ Has(h8, 2, dst) /\ Has(h8, 4, s1) /\ Has(h8, 6, s2)
       /\ Has(h8, 8, a1) /\ Has(h8, 10, a2) /\ Has(h8, 12, fl) /\ Has(h8, 14, win)
  BY <1>2, <1>3, <1>4, <1>5, <1>6, <1>7, <1>8, <1>9, <1>10, <1>11, <1>12, Zenon DEF Keeps
<1>14. h8 = TcpHead(t)
  BY Zenon DEF h8, h7, h6, h5, h4, h3, h2, src, dst, s1, s2, a1, a2, fl, win, TcpHead
<1> QED
  BY <1>10, <1>13, <1>14, Zenon DEF TcpFields, src, dst, s1, s2, a1, a2, fl, win

\* With any checksum.
LEMMA TcpLayout ==
  ASSUME NEW ip, ip.payload \in Seq(Bytes), ip.next \in TcpHeaders
  PROVE  \E rest \in Nat :
           \A ck \in BytesOf(2) :
             LET h == tcpBytes(ip.next, ip, ck)
             IN  /\ h \in Seq(Bytes) /\ Len(h) = 20 + Len(ip.payload)
                 /\ TcpFields(h, ip.next) /\ Has(h, 16, ck)
                 /\ BigTotal(h) = rest + BigTotal(ck)
<1> DEFINE t == ip.next
           b == TcpHead(t)
           z == << 0, 0 >>
           d == ip.payload
           rest == BigTotal(b) + BigTotal(d)
<1>1. b \in Seq(Bytes) /\ Len(b) = 16 /\ TcpFields(b, t)
  BY TcpHeadLayout
<1>2. z \in Seq(Bytes) /\ Len(z) = 2 /\ BigTotal(z) = 0
  <2>1. 0 \in Bytes
    BY ByteIs
  <2>2. z \in Seq(Bytes) /\ Len(z) = 2 /\ BigTotal(z) = 256 * 0 + 0
    BY <2>1, BigOfTwo
  <2> QED
    BY <2>2
<1>3. d \in Seq(Bytes) /\ Len(d) \in Nat
  BY LenProperties
<1>4. BigTotal(b) \in Nat /\ BigTotal(d) \in Nat
  BY <1>1, <1>3, ChecksumCompletes
<1>5. /\ word(t.src) \in Seq(Bytes) /\ word(t.dst) \in Seq(Bytes)
      /\ word(t.sqNum[1]) \in Seq(Bytes) /\ word(t.sqNum[2]) \in Seq(Bytes)
      /\ word(t.ackNum[1]) \in Seq(Bytes) /\ word(t.ackNum[2]) \in Seq(Bytes)
      /\ << 80, SumSet(t.flags) >> \in Seq(Bytes) /\ word(t.winSize) \in Seq(Bytes)
  <2>1. /\ t.src \in Words16 /\ t.dst \in Words16
        /\ t.sqNum[1] \in Words16 /\ t.sqNum[2] \in Words16
        /\ t.ackNum[1] \in Words16 /\ t.ackNum[2] \in Words16
        /\ t.winSize \in Words16
    BY TcpTyped
  <2>2. SumSet(t.flags) \in Bytes /\ 80 \in Bytes
    BY TcpTyped, FlagsAreRead, ByteIs
  <2>3. << 80, SumSet(t.flags) >> \in Seq(Bytes)
    BY <2>2
  <2>4. \A w \in Words16 : word(w) \in Seq(Bytes)
    BY WordBytes
  <2> QED
    BY <2>1, <2>3, <2>4, Zenon
<1> HIDE DEF z, d, b, t
<1>6. ASSUME NEW ck \in BytesOf(2)
      PROVE  LET h == tcpBytes(t, ip, ck)
             IN  /\ h \in Seq(Bytes) /\ Len(h) = 20 + Len(d)
                 /\ TcpFields(h, t) /\ Has(h, 16, ck)
                 /\ BigTotal(h) = rest + BigTotal(ck)
  <2> DEFINE h1 == b \o ck
             h2 == h1 \o z
             h == h2 \o d
  <2>1. ck \in Seq(Bytes) /\ Len(ck) = 2 /\ BigTotal(ck) \in Nat
    BY ChecksumCompletes DEF BytesOf
  <2>2. 16 % 2 = 0 /\ 18 % 2 = 0 /\ 20 % 2 = 0
    BY Z3
  <2>3. /\ h1 \in Seq(Bytes) /\ Len(h1) = 18 /\ BigTotal(h1) = BigTotal(b) + BigTotal(ck)
        /\ Keeps(b, h1) /\ Has(h1, 16, ck)
    <3>1. /\ h1 \in Seq(Bytes) /\ Len(h1) = Len(b) + Len(ck)
          /\ Has(h1, Len(b), ck) /\ Keeps(b, h1)
          /\ Len(b) % 2 = 0 => BigTotal(h1) = BigTotal(b) + BigTotal(ck)
      BY <1>1, <2>1, PutBehind DEF Keeps
    <3> QED
      BY <1>1, <2>1, <2>2, <3>1
  <2> HIDE DEF h1
  <2>4. /\ h2 \in Seq(Bytes) /\ Len(h2) = 20 /\ BigTotal(h2) = BigTotal(h1) + 0
        /\ Keeps(h1, h2)
    <3>1. /\ h2 \in Seq(Bytes) /\ Len(h2) = Len(h1) + Len(z) /\ Keeps(h1, h2)
          /\ Len(h1) % 2 = 0 => BigTotal(h2) = BigTotal(h1) + BigTotal(z)
      BY <1>2, <2>3, PutBehind DEF Keeps
    <3> QED
      BY <1>2, <2>2, <2>3, <3>1
  <2> HIDE DEF h2
  <2>5. /\ h \in Seq(Bytes) /\ Len(h) = 20 + Len(d) /\ BigTotal(h) = BigTotal(h2) + BigTotal(d)
        /\ Keeps(h2, h)
    <3>1. /\ h \in Seq(Bytes) /\ Len(h) = Len(h2) + Len(d) /\ Keeps(h2, h)
          /\ Len(h2) % 2 = 0 => BigTotal(h) = BigTotal(h2) + BigTotal(d)
      BY <1>3, <2>4, PutBehind DEF Keeps
    <3> QED
      BY <2>2, <2>4, <3>1
  <2>6. h = tcpBytes(t, ip, ck)
    BY Zenon DEF h, h2, h1, b, z, d, tcpBytes, TcpHead
  <2> HIDE DEF h
  <2>7. Keeps(b, h) /\ Has(h, 16, ck)
    <3>1. 16 \in Nat
      OBVIOUS
    <3> QED
      BY <2>1, <2>3, <2>4, <2>5, <3>1, Zenon DEF Keeps
  <2>8. TcpFields(h, t)
    <3>1. /\ 0 \in Nat /\ 2 \in Nat /\ 4 \in Nat /\ 6 \in Nat
          /\ 8 \in Nat /\ 10 \in Nat /\ 12 \in Nat /\ 14 \in Nat
      OBVIOUS
    <3> QED
      BY <1>1, <1>5, <2>7, <3>1, Zenon DEF Keeps, TcpFields
  <2>9. BigTotal(h) = rest + BigTotal(ck)
    BY <1>4, <2>1, <2>3, <2>4, <2>5
  <2> QED
    BY <2>5, <2>6, <2>7, <2>8, <2>9, Zenon
<1>7. rest \in Nat
  BY <1>4
<1> HIDE DEF rest
<1> QED
  BY <1>6, <1>7 DEF t, d

\* What the sender puts in makes the sum a multiple of 65535.
LEMMA TcpIsGood ==
  ASSUME NEW ip, ip.payload \in Seq(Bytes), ip.next \in TcpHeaders,
         20 + Len(ip.payload) \in Words16,
         ip.senderIP \in Seq(Bytes), Len(ip.senderIP) = 4,
         ip.destIP \in Seq(Bytes), Len(ip.destIP) = 4
  PROVE  LET c   == tcpChecksum(ip.next, ip)
             seg == tcpBytes(ip.next, ip, word(c))
         IN  /\ c \in Words16
             /\ seg \in Seq(Bytes) /\ Len(seg) = 20 + Len(ip.payload)
             /\ TcpFields(seg, ip.next) /\ Has(seg, 16, word(c))
             /\ PseudoTotal(ip.senderIP, ip.destIP, seg) % 65535 = 0
<1> DEFINE t == ip.next
           s == ip.senderIP
           d == ip.destIP
           L == 20 + Len(ip.payload)
           z == << 0, 0 >>
           six == << 0, 6 >>
           seg0 == tcpBytes(t, ip, z)
           p1 == s \o d
           p2 == p1 \o six
           p3 == p2 \o word(L)
           p == p3 \o seg0
           c == tcpChecksum(t, ip)
           seg == tcpBytes(t, ip, word(c))
<1>1. PICK rest \in Nat :
        \A ck \in BytesOf(2) :
          LET h == tcpBytes(t, ip, ck)
          IN  /\ h \in Seq(Bytes) /\ Len(h) = L
              /\ TcpFields(h, t) /\ Has(h, 16, ck)
              /\ BigTotal(h) = rest + BigTotal(ck)
  BY TcpLayout
<1>2. /\ z \in BytesOf(2) /\ BigTotal(z) = 0
      /\ six \in Seq(Bytes) /\ Len(six) = 2 /\ BigTotal(six) = 6
  <2>1. 0 \in Bytes /\ 6 \in Bytes
    BY ByteIs
  <2>2. z \in Seq(Bytes) /\ Len(z) = 2 /\ BigTotal(z) = 256 * 0 + 0
    BY <2>1, BigOfTwo
  <2>3. six \in Seq(Bytes) /\ Len(six) = 2 /\ BigTotal(six) = 256 * 0 + 6
    BY <2>1, BigOfTwo
  <2> QED
    BY <2>2, <2>3 DEF BytesOf
<1>3. seg0 \in Seq(Bytes) /\ Len(seg0) = L /\ BigTotal(seg0) = rest
  <2>1. seg0 \in Seq(Bytes) /\ Len(seg0) = L /\ BigTotal(seg0) = rest + BigTotal(z)
    BY <1>1, <1>2
  <2> HIDE DEF seg0, L, z
  <2> QED
    BY <1>2, <2>1
<1>4. c = checksumOf(s \o d \o six \o word(Len(seg0)) \o seg0)
  BY Zenon DEF tcpChecksum
<1>5. c = checksumOf(p)
  BY <1>3, <1>4
<1>6. /\ s \in Seq(Bytes) /\ Len(s) = 4 /\ d \in Seq(Bytes) /\ Len(d) = 4
  OBVIOUS
<1>7. /\ L \in Nat /\ word(L) \in Seq(Bytes) /\ Len(word(L)) = 2 /\ BigTotal(word(L)) = L
  <2>1. L \in Words16
    OBVIOUS
  <2> HIDE DEF L
  <2> QED
    BY <2>1, WordBytes
<1>8. BigTotal(s) \in Nat /\ BigTotal(d) \in Nat
  BY <1>6, ChecksumCompletes
<1>9. 4 % 2 = 0 /\ 8 % 2 = 0 /\ 10 % 2 = 0 /\ 12 % 2 = 0
  BY Z3
<1> HIDE DEF s, d, L, z, six, seg0, c, t
<1>10. p1 \in Seq(Bytes) /\ Len(p1) = 8 /\ BigTotal(p1) = BigTotal(s) + BigTotal(d)
  <2>1. /\ p1 \in Seq(Bytes) /\ Len(p1) = Len(s) + Len(d)
        /\ Len(s) % 2 = 0 => BigTotal(p1) = BigTotal(s) + BigTotal(d)
    BY <1>6, PutBehind
  <2> QED
    BY <1>6, <1>9, <2>1
<1> HIDE DEF p1
<1>11. p2 \in Seq(Bytes) /\ Len(p2) = 10 /\ BigTotal(p2) = BigTotal(p1) + 6
  <2>1. /\ p2 \in Seq(Bytes) /\ Len(p2) = Len(p1) + Len(six)
        /\ Len(p1) % 2 = 0 => BigTotal(p2) = BigTotal(p1) + BigTotal(six)
    BY <1>2, <1>10, PutBehind
  <2> QED
    BY <1>2, <1>9, <1>10, <2>1
<1> HIDE DEF p2
<1>12. p3 \in Seq(Bytes) /\ Len(p3) = 12 /\ BigTotal(p3) = BigTotal(p2) + L
  <2> DEFINE w == word(L)
  <2>1. w \in Seq(Bytes) /\ Len(w) = 2 /\ BigTotal(w) = L
    BY <1>7
  <2> HIDE DEF w
  <2>2. /\ p2 \o w \in Seq(Bytes) /\ Len(p2 \o w) = Len(p2) + Len(w)
        /\ Len(p2) % 2 = 0 => BigTotal(p2 \o w) = BigTotal(p2) + BigTotal(w)
    BY <1>11, <2>1, PutBehind
  <2>3. p2 \o w \in Seq(Bytes) /\ Len(p2 \o w) = 12 /\ BigTotal(p2 \o w) = BigTotal(p2) + L
    BY <1>9, <1>11, <2>1, <2>2
  <2> QED
    BY <2>3 DEF w
<1> HIDE DEF p3
<1>13. p \in Seq(Bytes) /\ BigTotal(p) = BigTotal(p3) + rest
  <2>1. /\ p \in Seq(Bytes)
        /\ Len(p3) % 2 = 0 => BigTotal(p) = BigTotal(p3) + BigTotal(seg0)
    BY <1>3, <1>12, PutBehind
  <2> QED
    BY <1>3, <1>9, <1>12, <2>1
<1> HIDE DEF p
<1>14. BigTotal(p) = BigTotal(s) + BigTotal(d) + 6 + L + rest
  BY <1>10, <1>11, <1>12, <1>13
<1>15. c \in Nat /\ c <= 65535 /\ (BigTotal(p) + c) % 65535 = 0
  BY <1>5, <1>13, ChecksumCompletes
<1>16. c \in Words16
  BY <1>15, RangeWord
<1>17. word(c) \in BytesOf(2) /\ BigTotal(word(c)) = c
  BY <1>16, WordBytes DEF BytesOf
<1>18. /\ seg \in Seq(Bytes) /\ Len(seg) = L /\ TcpFields(seg, t) /\ Has(seg, 16, word(c))
       /\ BigTotal(seg) = rest + c
  BY <1>1, <1>17
<1> HIDE DEF seg
<1>19. PseudoTotal(s, d, seg) = BigTotal(p) + c
  <2>1. PseudoTotal(s, d, seg) = (rest + c) + 6 + L + BigTotal(s) + BigTotal(d)
    BY <1>18 DEF PseudoTotal, TCP
  <2>2. c \in Nat
    BY <1>15
  <2> QED
    BY <1>7, <1>8, <1>14, <2>1, <2>2
<1>20. PseudoTotal(s, d, seg) % 65535 = 0
  BY <1>15, <1>19
<1> QED
  BY <1>16, <1>18, <1>20, SMT DEF seg, c, t, s, d, L

-----------------------------------------------------------------------------
(* What the IP header is followed by. *)

LEMMA NextTyped ==
  ASSUME NEW ip, IsIpPacket(ip)
  PROVE  /\ 20 + Len(ip.options) + NextLen[ip.protocol] + Len(ip.payload) \in Words16
         /\ ip.protocol = "TCP" => ip.next \in TcpHeaders
         /\ ip.protocol = "UDP" => ip.next \in UdpHeaders
         /\ ip.protocol = "ICMP" => ip.next \in IcmpHeaders
  BY Zenon DEF IsIpPacket

NextFields(ip, seg) ==
  /\ ip.protocol = "TCP" =>
       /\ tcpChecksum(ip.next, ip) \in Words16
       /\ TcpFields(seg, ip.next) /\ Has(seg, 16, word(tcpChecksum(ip.next, ip)))
       /\ PseudoTotal(ip.senderIP, ip.destIP, seg) % 65535 = 0
  /\ ip.protocol = "UDP" => Has(seg, 0, word(ip.next.src)) /\ Has(seg, 2, word(ip.next.dst))
  /\ ip.protocol = "ICMP" => Has(seg, 0, << ip.next.type, 0, 0, 0 >>)

LEMMA SegmentLayout ==
  ASSUME NEW ip, IsIpPacket(ip)
  PROVE  /\ segmentOf(ip) \in Seq(Bytes)
         /\ Len(segmentOf(ip)) = NextLen[ip.protocol] + Len(ip.payload)
         /\ NextFields(ip, segmentOf(ip))
<1> DEFINE seg == segmentOf(ip)
           d == ip.payload
           n == NextLen[ip.protocol] + Len(d)
<1>1. /\ ip.senderIP \in Seq(Bytes) /\ Len(ip.senderIP) = 4
      /\ ip.destIP \in Seq(Bytes) /\ Len(ip.destIP) = 4
      /\ d \in Seq(Bytes) /\ Len(d) \in Nat /\ Len(ip.options) \in Nat
      /\ ip.protocol \in {"TCP", "ICMP", "UDP", "Unknown"}
  BY IpTyped, Zenon
<1>2. NextLen[ip.protocol] \in Nat
  BY <1>1 DEF NextLen
<1>3. n \in Words16
  <2>1. PICK m : m = 20 + Len(ip.options) + NextLen[ip.protocol] + Len(d)
    OBVIOUS
  <2>2. m \in Words16
    BY <2>1, NextTyped
  <2>3. m \in Nat /\ m <= 65535
    BY <2>2, WordBytes
  <2>4. n \in Nat /\ n <= m
    BY <1>1, <1>2, <2>1, <2>3
  <2>5. n <= 65535
    BY <2>3, <2>4, Z3
  <2> HIDE DEF n
  <2> QED
    BY <2>4, <2>5, RangeWord
<1>4. CASE ip.protocol = "TCP"
  <2>1. ip.next \in TcpHeaders
    BY <1>4, NextTyped
  <2>2. n = 20 + Len(d)
    BY <1>4 DEF NextLen
  <2>3. 20 + Len(d) \in Words16
    BY <1>3, <2>2
  <2>4. seg = tcpBytes(ip.next, ip, word(tcpChecksum(ip.next, ip)))
    BY <1>4, Zenon DEF segmentOf
  <2>5. /\ tcpChecksum(ip.next, ip) \in Words16
        /\ seg \in Seq(Bytes) /\ Len(seg) = 20 + Len(d)
        /\ TcpFields(seg, ip.next) /\ Has(seg, 16, word(tcpChecksum(ip.next, ip)))
        /\ PseudoTotal(ip.senderIP, ip.destIP, seg) % 65535 = 0
    BY <1>1, <2>1, <2>3, <2>4, TcpIsGood
  <2>6. NextFields(ip, seg)
    BY <1>4, <2>5 DEF NextFields
  <2> QED
    BY <2>2, <2>5, <2>6
<1>5. CASE ip.protocol = "UDP"
  <2> DEFINE src == word(ip.next.src)
             dst == word(ip.next.dst)
             len == word(8 + Len(d))
             z == << 0, 0 >>
             h2 == src \o dst
             h3 == h2 \o len
             h4 == h3 \o z
             h == h4 \o d
  <2>1. ip.next \in UdpHeaders
    BY <1>5, NextTyped
  <2>2. ip.next.src \in Words16 /\ ip.next.dst \in Words16
    BY <2>1 DEF UdpHeaders
  <2>3. n = 8 + Len(d)
    BY <1>5 DEF NextLen
  <2>4. 8 + Len(d) \in Words16
    BY <1>3, <2>3
  <2>5. /\ src \in Seq(Bytes) /\ Len(src) = 2
        /\ dst \in Seq(Bytes) /\ Len(dst) = 2
        /\ len \in Seq(Bytes) /\ Len(len) = 2
    BY <2>2, <2>4, WordBytes
  <2>6. z \in Seq(Bytes) /\ Len(z) = 2
    <3>1. 0 \in Bytes
      BY ByteIs
    <3> QED
      BY <3>1
  <2>7. seg = h
    BY <1>5, Zenon DEF segmentOf
  <2> HIDE DEF src, dst, len, z
  <2>8. h2 \in Seq(Bytes) /\ Len(h2) = 4 /\ Has(h2, 0, src) /\ Has(h2, 2, dst)
    <3>1. /\ h2 \in Seq(Bytes) /\ Len(h2) = Len(src) + Len(dst)
          /\ Has(h2, 0, src) /\ Has(h2, Len(src), dst)
      BY <2>5, KeepsBehind
    <3> QED
      BY <2>5, <3>1
  <2> HIDE DEF h2
  <2>9. h3 \in Seq(Bytes) /\ Len(h3) = 6 /\ Keeps(h2, h3)
    <3>1. h3 \in Seq(Bytes) /\ Len(h3) = Len(h2) + Len(len) /\ Keeps(h2, h3)
      BY <2>5, <2>8, KeepsBehind
    <3> QED
      BY <2>5, <2>8, <3>1
  <2> HIDE DEF h3
  <2>10. h4 \in Seq(Bytes) /\ Len(h4) = 8 /\ Keeps(h3, h4)
    <3>1. h4 \in Seq(Bytes) /\ Len(h4) = Len(h3) + Len(z) /\ Keeps(h3, h4)
      BY <2>6, <2>9, KeepsBehind
    <3> QED
      BY <2>6, <2>9, <3>1
  <2> HIDE DEF h4
  <2>11. h \in Seq(Bytes) /\ Len(h) = 8 + Len(d) /\ Keeps(h4, h)
    <3>1. h \in Seq(Bytes) /\ Len(h) = Len(h4) + Len(d) /\ Keeps(h4, h)
      BY <1>1, <2>10, KeepsBehind
    <3> QED
      BY <2>10, <3>1
  <2> HIDE DEF h
  <2>12. Has(h, 0, src) /\ Has(h, 2, dst)
    <3>1. 0 \in Nat /\ 2 \in Nat
      OBVIOUS
    <3> QED
      BY <2>5, <2>8, <2>9, <2>10, <2>11, <3>1, Zenon DEF Keeps
  <2>13. NextFields(ip, seg)
    BY <1>5, <2>7, <2>12 DEF NextFields, src, dst
  <2> QED
    BY <2>3, <2>7, <2>11, <2>13
<1>6. CASE ip.protocol = "ICMP"
  <2> DEFINE b == << ip.next.type, 0, 0, 0 >>
  <2>1. ip.next.type \in Bytes
    BY <1>6, NextTyped DEF IcmpHeaders
  <2>2. b \in Seq(Bytes) /\ Len(b) = 4
    <3>1. 0 \in Bytes
      BY ByteIs
    <3> QED
      BY <2>1, <3>1
  <2>3. seg = b \o d
    BY <1>6, Zenon DEF segmentOf
  <2>4. n = 4 + Len(d)
    BY <1>6 DEF NextLen
  <2> HIDE DEF b
  <2>5. seg \in Seq(Bytes) /\ Len(seg) = Len(b) + Len(d) /\ Has(seg, 0, b)
    BY <1>1, <2>2, <2>3, KeepsBehind
  <2>6. NextFields(ip, seg)
    BY <1>6, <2>5 DEF NextFields, b
  <2> QED
    BY <2>2, <2>4, <2>5, <2>6
<1>7. CASE ip.protocol = "Unknown"
  <2>1. seg = d
    BY <1>7 DEF segmentOf
  <2>2. n = Len(d)
    BY <1>1, <1>7 DEF NextLen
  <2>3. NextFields(ip, seg)
    BY <1>7 DEF NextFields
  <2> QED
    BY <1>1, <2>1, <2>2, <2>3
<1> QED
  BY <1>1, <1>4, <1>5, <1>6, <1>7

-----------------------------------------------------------------------------
(* The frame. *)

IpNext(ip) == ipHeader(ip, word(ipChecksum(ip)))

LEMMA IpIsGood ==
  ASSUME NEW ip, IsIpPacket(ip)
  PROVE  /\ PduLen(ip) \in Words16 /\ Len(segmentOf(ip)) \in Nat
         /\ PduLen(ip) = HeaderLen(ip) + Len(segmentOf(ip))
         /\ ipChecksum(ip) \in Words16
         /\ IpFields(IpNext(ip), ip, word(ipChecksum(ip)))
         /\ Small(IpNext(ip)) /\ in_cksum(IpNext(ip)) = 0
         /\ Small(segmentOf(ip))
<1> DEFINE seg == segmentOf(ip)
           n == NextLen[ip.protocol]
           o == Len(ip.options)
           d == Len(ip.payload)
<1>1. seg \in Seq(Bytes) /\ Len(seg) = n + d /\ Len(seg) \in Nat
  BY SegmentLayout, LenProperties
<1>2. d \in Nat /\ o \in Nat /\ ip.protocol \in {"TCP", "ICMP", "UDP", "Unknown"}
  BY IpTyped, Zenon
<1>3. n \in Nat
  BY <1>2 DEF NextLen
<1>4. 20 + o + n + d \in Words16
  BY NextTyped
<1>5. HeaderLen(ip) = 20 + o /\ PduLen(ip) = 20 + o + Len(seg)
  BY Zenon DEF HeaderLen, PduLen
<1> HIDE DEF seg, n, o, d
<1>6. PduLen(ip) = 20 + o + n + d /\ PduLen(ip) = HeaderLen(ip) + Len(seg)
      /\ Len(seg) <= PduLen(ip) /\ PduLen(ip) \in Nat
  BY <1>1, <1>2, <1>3, <1>5
<1>7. PduLen(ip) \in Words16
  BY <1>4, <1>6
<1>8. PduLen(ip) <= 65535
  BY <1>7, WordBytes
<1>9. Len(seg) <= 65535
  BY <1>1, <1>6, <1>8, Z3
<1>10. Small(seg)
  BY <1>1, <1>9 DEF Small
<1>11. /\ ipChecksum(ip) \in Words16
       /\ IpFields(IpNext(ip), ip, word(ipChecksum(ip)))
       /\ Small(IpNext(ip)) /\ in_cksum(IpNext(ip)) = 0
  BY <1>7, IpHeaderIsGood DEF IpNext
<1> QED
  BY <1>1, <1>6, <1>7, <1>10, <1>11 DEF seg

\* The two addresses and the type
EthFields(f, p) ==
  /\ Has(f, 0, p.dst) /\ Has(f, 6, p.src) /\ Has(f, 12, EthernetType[p.type])

LEMMA FrameTyped ==
  ASSUME NEW p, IsFrame(p)
  PROVE  /\ p.dst \in Seq(Bytes) /\ Len(p.dst) = 6 /\ p.src \in Seq(Bytes) /\ Len(p.src) = 6
         /\ p.padding \in Seq(Bytes)
         /\ p.type \in {"IP", "ARP", "Unknown"}
         /\ p.type = "ARP" => p.next \in ArpHeaders
         /\ p.type = "IP" => IsIpPacket(p.next)
         /\ EthernetType[p.type] \in Seq(Bytes) /\ Len(EthernetType[p.type]) = 2
<1>1. /\ p.dst \in BytesOf(6) /\ p.src \in BytesOf(6) /\ p.padding \in Seq(Bytes)
      /\ p.type \in DOMAIN EthernetType
      /\ p.type = "ARP" => p.next \in ArpHeaders
      /\ p.type = "IP" => IsIpPacket(p.next)
  BY Zenon DEF IsFrame
<1>2. p.type \in {"IP", "ARP", "Unknown"}
  BY <1>1 DEF EthernetType
<1>3. 8 \in Bytes /\ 0 \in Bytes /\ 6 \in Bytes /\ 134 \in Bytes /\ 221 \in Bytes
  BY ByteIs
<1>4. EthernetType[p.type] \in {<< 8, 0 >>, << 8, 6 >>, << 134, 221 >>}
  <2>1. /\ EthernetType["IP"] = << 8, 0 >> /\ EthernetType["ARP"] = << 8, 6 >>
        /\ EthernetType["Unknown"] = << 134, 221 >>
    BY DEF EthernetType
  <2> QED
    BY <1>2, <2>1, Zenon
<1>5. \A b \in {<< 8, 0 >>, << 8, 6 >>, << 134, 221 >>} : b \in Seq(Bytes) /\ Len(b) = 2
  <2>1. << 8, 0 >> \in Seq(Bytes) /\ Len(<< 8, 0 >>) = 2
    BY <1>3
  <2>2. << 8, 6 >> \in Seq(Bytes) /\ Len(<< 8, 6 >>) = 2
    BY <1>3
  <2>3. << 134, 221 >> \in Seq(Bytes) /\ Len(<< 134, 221 >>) = 2
    BY <1>3
  <2> QED
    BY <2>1, <2>2, <2>3, Zenon
<1>6. /\ p.dst \in Seq(Bytes) /\ Len(p.dst) = 6 /\ p.src \in Seq(Bytes) /\ Len(p.src) = 6
  BY <1>1 DEF BytesOf
<1> QED
  BY <1>1, <1>2, <1>4, <1>5, <1>6, Zenon

LEMMA EthLayout ==
  ASSUME NEW p, IsFrame(p), NEW r \in Seq(Bytes)
  PROVE  LET f == p.dst \o p.src \o EthernetType[p.type] \o r
         IN  /\ f \in Seq(Bytes) /\ Len(f) = 14 + Len(r)
             /\ EthFields(f, p) /\ Has(f, 14, r)
<1> DEFINE a == p.dst
           b == p.src
           t == EthernetType[p.type]
           h2 == a \o b
           h3 == h2 \o t
           f == h3 \o r
<1>1. /\ a \in Seq(Bytes) /\ Len(a) = 6 /\ b \in Seq(Bytes) /\ Len(b) = 6
      /\ t \in Seq(Bytes) /\ Len(t) = 2
  BY FrameTyped, Zenon
<1> HIDE DEF a, b, t
<1>2. h2 \in Seq(Bytes) /\ Len(h2) = 12 /\ Has(h2, 0, a) /\ Has(h2, 6, b)
  <2>1. h2 \in Seq(Bytes) /\ Len(h2) = Len(a) + Len(b) /\ Has(h2, 0, a) /\ Has(h2, Len(a), b)
    BY <1>1, KeepsBehind
  <2> QED
    BY <1>1, <2>1
<1> HIDE DEF h2
<1>3. h3 \in Seq(Bytes) /\ Len(h3) = 14 /\ Has(h3, 12, t) /\ Keeps(h2, h3)
  <2>1. h3 \in Seq(Bytes) /\ Len(h3) = Len(h2) + Len(t) /\ Has(h3, Len(h2), t) /\ Keeps(h2, h3)
    BY <1>1, <1>2, KeepsBehind
  <2> QED
    BY <1>1, <1>2, <2>1
<1> HIDE DEF h3
<1>4. f \in Seq(Bytes) /\ Len(f) = 14 + Len(r) /\ Has(f, 14, r) /\ Keeps(h3, f)
  <2>1. f \in Seq(Bytes) /\ Len(f) = Len(h3) + Len(r) /\ Has(f, Len(h3), r) /\ Keeps(h3, f)
    BY <1>3, KeepsBehind
  <2> QED
    BY <1>3, <2>1
<1>5. f = p.dst \o p.src \o EthernetType[p.type] \o r
  BY Zenon DEF f, h3, h2, a, b, t
<1> HIDE DEF f
<1>6. Has(f, 0, a) /\ Has(f, 6, b) /\ Has(f, 12, t)
  <2>1. 0 \in Nat /\ 6 \in Nat /\ 12 \in Nat
    OBVIOUS
  <2> QED
    BY <1>1, <1>2, <1>3, <1>4, <2>1, Zenon DEF Keeps
<1>7. EthFields(f, p)
  BY <1>6, Zenon DEF EthFields, a, b, t
<1> QED
  BY <1>4, <1>5, <1>7, Zenon

LEMMA IpFrameLayout ==
  ASSUME NEW p, IsFrame(p), p.type = "IP"
  PROVE  /\ frameOf(p) \in Seq(Bytes) /\ EthFields(frameOf(p), p)
         /\ Has(frameOf(p), 14, IpNext(p.next))
         /\ Has(frameOf(p), 14 + HeaderLen(p.next), segmentOf(p.next))
<1> DEFINE ip == p.next
           h == IpNext(ip)
           seg == segmentOf(ip)
           d == p.padding
           r1 == h \o seg
           r == r1 \o d
           f == frameOf(p)
<1>1. IsIpPacket(ip) /\ d \in Seq(Bytes)
  BY FrameTyped, Zenon
<1>2. /\ h \in Seq(Bytes) /\ Len(h) = HeaderLen(ip) /\ seg \in Seq(Bytes)
      /\ HeaderLen(ip) \in Nat
  <2>1. IpFields(h, ip, word(ipChecksum(ip)))
    BY <1>1, IpIsGood
  <2>2. seg \in Seq(Bytes) /\ HeaderLen(ip) \in Nat
    BY <1>1, SegmentLayout, IpNumbers
  <2> QED
    BY <2>1, <2>2 DEF IpFields
<1>3. f = p.dst \o p.src \o EthernetType[p.type] \o r
  BY Zenon DEF frameOf, IpNext
<1> HIDE DEF ip, h, seg, d, f
<1>4. r1 \in Seq(Bytes) /\ Has(r1, 0, h) /\ Has(r1, HeaderLen(ip), seg)
  BY <1>2, KeepsBehind
<1> HIDE DEF r1
<1>5. r \in Seq(Bytes) /\ Keeps(r1, r)
  BY <1>1, <1>4, KeepsBehind
<1> HIDE DEF r
<1>6. Has(r, 0, h) /\ Has(r, HeaderLen(ip), seg)
  <2>1. 0 \in Nat
    OBVIOUS
  <2> QED
    BY <1>2, <1>4, <1>5, <2>1, Zenon DEF Keeps
<1>7. f \in Seq(Bytes) /\ EthFields(f, p) /\ Has(f, 14, r)
  BY <1>3, <1>5, EthLayout
<1>8. Has(f, 14, h)
  <2>1. 14 \in Nat /\ 0 \in Nat /\ 14 + 0 = 14
    OBVIOUS
  <2>2. Has(f, 14 + 0, h)
    BY <1>2, <1>5, <1>6, <1>7, <2>1, HasInside
  <2> QED
    BY <2>1, <2>2
<1>9. Has(f, 14 + HeaderLen(ip), seg)
  <2>1. 14 \in Nat
    OBVIOUS
  <2> QED
    BY <1>2, <1>5, <1>6, <1>7, <2>1, HasInside
<1> QED
  BY <1>7, <1>8, <1>9 DEF f, h, seg, ip

\* The parts of the header in the frame.
LEMMA IpPartsLayout ==
  ASSUME NEW p, IsFrame(p), p.type = "IP"
  PROVE  LET f  == frameOf(p)
             ip == p.next
         IN  /\ Has(f, 14, << FirstByte(ip), ip.tos >>)
             /\ Has(f, 16, word(PduLen(ip)))
             /\ Has(f, 18, << 0, 1, 0, 0, ip.ttl, ProtocolByte[ip.protocol] >>)
             /\ Has(f, 24, word(ipChecksum(ip)))
             /\ Has(f, 26, ip.senderIP)
             /\ Has(f, 30, ip.destIP)
<1> DEFINE f == frameOf(p)
           ip == p.next
           h == IpNext(ip)
           a == << FirstByte(ip), ip.tos >>
           l == word(PduLen(ip))
           t == << 0, 1, 0, 0, ip.ttl, ProtocolByte[ip.protocol] >>
           c == word(ipChecksum(ip))
           s == ip.senderIP
           d == ip.destIP
<1>1. IsIpPacket(ip)
  BY FrameTyped, Zenon
<1>2. f \in Seq(Bytes) /\ Has(f, 14, h)
  BY IpFrameLayout
<1>3. /\ h \in Seq(Bytes) /\ Has(h, 0, a) /\ Has(h, 2, l) /\ Has(h, 4, t)
      /\ Has(h, 10, c) /\ Has(h, 12, s) /\ Has(h, 16, d)
  BY <1>1, IpIsGood DEF IpFields
<1>4. s \in Seq(Bytes) /\ d \in Seq(Bytes) /\ l \in Seq(Bytes) /\ c \in Seq(Bytes)
  <2>1. s \in Seq(Bytes) /\ d \in Seq(Bytes)
    BY <1>1, IpTyped
  <2>2. PduLen(ip) \in Words16 /\ ipChecksum(ip) \in Words16
    BY <1>1, IpIsGood
  <2>3. \A w \in Words16 : word(w) \in Seq(Bytes)
    BY WordBytes
  <2> QED
    BY <2>1, <2>2, <2>3, Zenon
<1>5. a \in Seq(Bytes) /\ t \in Seq(Bytes)
  <2>1. 0 \in Bytes /\ 1 \in Bytes
    BY ByteIs
  <2>2. FirstByte(ip) \in Bytes /\ ProtocolByte[ip.protocol] \in Bytes
    BY <1>1, IpNumbers
  <2>3. ip.tos \in Bytes /\ ip.ttl \in Bytes
    BY <1>1, IpTyped
  <2> QED
    BY <2>1, <2>2, <2>3
<1>6. \A n \in Nat, x \in Seq(Bytes) : Has(h, n, x) => Has(f, 14 + n, x)
  <2>1. 14 \in Nat
    OBVIOUS
  <2> HIDE DEF h, f
  <2> QED
    BY <1>2, <1>3, <2>1, HasInside
<1> HIDE DEF f, h, a, l, t, c, s, d
<1>7. /\ 0 \in Nat /\ 2 \in Nat /\ 4 \in Nat /\ 10 \in Nat /\ 12 \in Nat /\ 16 \in Nat
      /\ 14 + 0 = 14 /\ 14 + 2 = 16 /\ 14 + 4 = 18 /\ 14 + 10 = 24 /\ 14 + 12 = 26
      /\ 14 + 16 = 30
  OBVIOUS
<1>8. /\ Has(f, 14 + 0, a) /\ Has(f, 14 + 2, l) /\ Has(f, 14 + 4, t) /\ Has(f, 14 + 10, c)
      /\ Has(f, 14 + 12, s) /\ Has(f, 14 + 16, d)
  BY <1>3, <1>4, <1>5, <1>6, <1>7, Zenon
<1> QED
  BY <1>7, <1>8 DEF f, a, l, t, c, s, d, ip

-----------------------------------------------------------------------------
(* What arrives. *)

LEMMA Arrives ==
  ASSUME NEW p, IsPacket(p), frameOf(p.sent) \in Seq(Bytes),
         NEW n \in Nat, NEW b \in Seq(Bytes), Has(frameOf(p.sent), n, b)
  PROVE  /\ Arrived(p) \in Seq(Bytes) /\ Len(Arrived(p)) = Len(frameOf(p.sent))
         /\ p.at \notin n + 1 .. n + Len(b) => Has(Arrived(p), n, b)
         /\ p.at \in n + 1 .. n + Len(b) =>
              \E k \in 1 .. Len(b), v \in Bytes :
                /\ v # b[k] /\ k = p.at - n
                /\ [b EXCEPT ![k] = v] \in Seq(Bytes)
                /\ Len([b EXCEPT ![k] = v]) = Len(b)
                /\ Has(Arrived(p), n, [b EXCEPT ![k] = v])
<1> DEFINE f == frameOf(p.sent)
           a == Arrived(p)
<1>1. /\ p.at \in 0 .. Len(f)
      /\ p.at # 0 => p.value \in Bytes /\ p.value # f[p.at]
  BY DEF IsPacket
<1>2. a = IF p.at = 0 THEN f ELSE [f EXCEPT ![p.at] = p.value]
  BY DEF Arrived
<1>3. f \in Seq(Bytes) /\ Has(f, n, b) /\ Len(f) \in Nat /\ Len(b) \in Nat
  BY LenProperties
<1> HIDE DEF f, a
<1>4. CASE p.at = 0
  <2>1. a = f
    BY <1>2, <1>4
  <2>2. p.at \notin n + 1 .. n + Len(b)
    BY <1>3, <1>4
  <2> QED
    BY <1>3, <2>1, <2>2 DEF a, f
<1>5. CASE p.at # 0
  <2>1. PICK k, v : k = p.at /\ v = p.value
    OBVIOUS
  <2>2. k \in 1 .. Len(f) /\ v \in Bytes /\ v # f[k] /\ a = [f EXCEPT ![k] = v]
    BY <1>1, <1>2, <1>3, <1>5, <2>1
  <2>3. /\ a \in Seq(Bytes) /\ Len(a) = Len(f)
        /\ k \notin n + 1 .. n + Len(b) => Has(a, n, b)
        /\ k \in n + 1 .. n + Len(b) =>
             /\ k - n \in 1 .. Len(b) /\ f[k] = b[k - n]
             /\ [b EXCEPT ![k - n] = v] \in Seq(Bytes)
             /\ Len([b EXCEPT ![k - n] = v]) = Len(b)
             /\ Has(a, n, [b EXCEPT ![k - n] = v])
    <3>1. /\ f \in Seq(Bytes) /\ n \in Nat /\ b \in Seq(Bytes) /\ Has(f, n, b)
          /\ k \in 1 .. Len(f) /\ v \in Bytes
      BY <1>3, <2>2
    <3>2. /\ [f EXCEPT ![k] = v] \in Seq(Bytes) /\ Len([f EXCEPT ![k] = v]) = Len(f)
          /\ k \notin n + 1 .. n + Len(b) => Has([f EXCEPT ![k] = v], n, b)
          /\ k \in n + 1 .. n + Len(b) =>
               /\ k - n \in 1 .. Len(b) /\ f[k] = b[k - n]
               /\ [b EXCEPT ![k - n] = v] \in Seq(Bytes)
               /\ Len([b EXCEPT ![k - n] = v]) = Len(b)
               /\ Has([f EXCEPT ![k] = v], n, [b EXCEPT ![k - n] = v])
      BY ONLY <3>1, HasChanged
    <3> QED
      BY <2>2, <3>2, Zenon
  <2>4. ASSUME k \in n + 1 .. n + Len(b)
        PROVE  \E j \in 1 .. Len(b), u \in Bytes :
                 /\ u # b[j] /\ j = k - n
                 /\ [b EXCEPT ![j] = u] \in Seq(Bytes)
                 /\ Len([b EXCEPT ![j] = u]) = Len(b)
                 /\ Has(a, n, [b EXCEPT ![j] = u])
    <3>1. PICK j : j = k - n
      OBVIOUS
    <3>2. /\ j \in 1 .. Len(b) /\ f[k] = b[j]
          /\ [b EXCEPT ![j] = v] \in Seq(Bytes)
          /\ Len([b EXCEPT ![j] = v]) = Len(b)
          /\ Has(a, n, [b EXCEPT ![j] = v])
      BY <2>3, <2>4, <3>1
    <3>3. v # b[j]
      BY <2>2, <3>2
    <3> QED
      BY <2>2, <3>1, <3>2, <3>3
  <2> QED
    BY <2>1, <2>3, <2>4 DEF a, f
<1> QED
  BY <1>4, <1>5

\* The type of a frame.
LEMMA EthRead ==
  ASSUME NEW pkt, NEW type \in {"IP", "ARP", "Unknown"}, Has(pkt, 12, EthernetType[type])
  PROVE  /\ findEthType(createEthHeader(pkt).type) = type
         /\ type = "IP" => createEthHeader(pkt).type = IP
         /\ type = "ARP" => createEthHeader(pkt).type = ARP
         /\ type = "Unknown" => createEthHeader(pkt).type \notin {IP, ARP}
<1>1. createEthHeader(pkt).type = 256 * pkt[12 + 1] + pkt[12 + 2]
  BY DEF createEthHeader, ntohs, ETHER_ADDR_SIZE
<1>2. Len(EthernetType[type]) = 2
  BY DEF EthernetType
<1>3. \A i \in 1 .. 2 : pkt[12 + i] = EthernetType[type][i]
  BY <1>2 DEF Has
<1>4. pkt[12 + 1] = EthernetType[type][1] /\ pkt[12 + 2] = EthernetType[type][2]
  BY <1>3
<1>5. CASE type = "IP"
  <2>1. EthernetType[type][1] = 8 /\ EthernetType[type][2] = 0
    BY <1>5 DEF EthernetType
  <2>2. createEthHeader(pkt).type = 2048
    BY <1>1, <1>4, <2>1
  <2> QED
    BY <1>5, <2>2 DEF findEthType, IP, ARP
<1>6. CASE type = "ARP"
  <2>1. EthernetType[type][1] = 8 /\ EthernetType[type][2] = 6
    BY <1>6 DEF EthernetType
  <2>2. createEthHeader(pkt).type = 2054
    BY <1>1, <1>4, <2>1
  <2> QED
    BY <1>6, <2>2 DEF findEthType, IP, ARP
<1>7. CASE type = "Unknown"
  <2>1. EthernetType[type][1] = 134 /\ EthernetType[type][2] = 221
    BY <1>7 DEF EthernetType
  <2>2. createEthHeader(pkt).type = 34525
    BY <1>1, <1>4, <2>1
  <2> QED
    BY <1>7, <2>2 DEF findEthType, IP, ARP
<1> QED
  BY <1>5, <1>6, <1>7

\* Reports put behind each other.
LEMMA Reports ==
  ASSUME NEW e, NEW h, NEW x
  PROVE  /\ << e >> \o << >> = << e >> /\ << e >> \o << h >> = << e, h >>
         /\ << e >> \o << h, x >> = << e, h, x >>
<1>1. /\ << e >> \in Seq({e, h, x}) /\ << >> \in Seq({e, h, x}) /\ << h >> \in Seq({e, h, x})
      /\ << h, x >> \in Seq({e, h, x})
  OBVIOUS
<1>2. << e >> \o << >> = << e >>
  <2>1. PICK c : c = << e >> \o << >>
    OBVIOUS
  <2>2. c \in Seq({e, h, x}) /\ Len(c) = 1 + 0 /\ c[1] = e
    BY <1>1, <2>1, ConcatProperties
  <2>3. Len(<< e >>) = 1 /\ << e >>[1] = e
    OBVIOUS
  <2>4. \A i \in 1 .. 1 : c[i] = << e >>[i]
    BY <2>2, <2>3
  <2>5. Len(c) = 1
    BY <2>2
  <2> QED
    BY <1>1, <2>1, <2>2, <2>3, <2>4, <2>5, SeqEqual
<1>3. << e >> \o << h >> = << e, h >>
  <2>1. PICK c : c = << e >> \o << h >>
    OBVIOUS
  <2>2. c \in Seq({e, h, x}) /\ Len(c) = 2 /\ c[1] = e /\ c[2] = h
    BY <1>1, <2>1, ConcatProperties
  <2>3. /\ << e, h >> \in Seq({e, h, x}) /\ Len(<< e, h >>) = 2
        /\ << e, h >>[1] = e /\ << e, h >>[2] = h
    OBVIOUS
  <2>4. \A i \in 1 .. 2 : c[i] = << e, h >>[i]
    BY <2>2, <2>3
  <2> QED
    BY <2>1, <2>2, <2>3, <2>4, SeqEqual
<1>4. << e >> \o << h, x >> = << e, h, x >>
  <2>1. PICK c : c = << e >> \o << h, x >>
    OBVIOUS
  <2>2. c \in Seq({e, h, x}) /\ Len(c) = 3 /\ c[1] = e /\ c[2] = h /\ c[3] = x
    BY <1>1, <2>1, ConcatProperties
  <2>3. /\ << e, h, x >> \in Seq({e, h, x}) /\ Len(<< e, h, x >>) = 3
        /\ << e, h, x >>[1] = e /\ << e, h, x >>[2] = h /\ << e, h, x >>[3] = x
    OBVIOUS
  <2>4. \A i \in 1 .. 3 : c[i] = << e, h, x >>[i]
    BY <2>2, <2>3
  <2> QED
    BY <2>1, <2>2, <2>3, <2>4, SeqEqual
<1> QED
  BY <1>2, <1>3, <1>4

\* The report of an IP packet, header by header.
LEMMA IpReports ==
  ASSUME NEW pkt, NEW len, NEW i, createEthHeader(pkt).type = IP
  PROVE  LET e  == outputEthHeader(pkt, len, i)
             iHeader == createIpHeader(pkt)
             at == 14 + iHeader.headerLen
             report == printHeader(pkt, len, i)
         IN  /\ iHeader.protocol = TCP =>
                  report = << e, printIpHeader(iHeader), printTCPHeader(at, pkt, iHeader) >>
             /\ iHeader.protocol = ICMP =>
                  report = << e, printIpHeader(iHeader), printICMPHeader(at, pkt) >>
             /\ iHeader.protocol = UDP =>
                  report = << e, printIpHeader(iHeader), printUDPHeader(at, pkt) >>
             /\ iHeader.protocol \notin {TCP, ICMP, UDP} =>
                  report = << e, printIpHeader(iHeader) >>
             /\ report[2] = printIpHeader(iHeader)
<1> DEFINE e  == outputEthHeader(pkt, len, i)
           iHeader == createIpHeader(pkt)
           at == 14 + iHeader.headerLen
           h == printIpHeader(iHeader)
           report == printHeader(pkt, len, i)
           protocol == iHeader.protocol
           next == CASE protocol = TCP  -> << printTCPHeader(at, pkt, iHeader) >>
                     [] protocol = ICMP -> << printICMPHeader(at, pkt) >>
                     [] protocol = UDP  -> << printUDPHeader(at, pkt) >>
                     [] OTHER -> << >>
<1>1. report = << e >> \o outputIpHeader(pkt)
  BY DEF printHeader, IP, ARP
<1>2. outputIpHeader(pkt) = << h >> \o next
  <2>1. at = IP_HEADERLEN_OFFSET + iHeader.headerLen
    BY DEF IP_HEADERLEN_OFFSET
  <2> HIDE DEF at
  <2> QED
    BY <2>1, ZenonT(60) DEF outputIpHeader
<1>3. ASSUME NEW x
      PROVE  << e >> \o (<< h >> \o << x >>) = << e, h, x >>
  <2> HIDE DEF e, h
  <2>1. << h >> \o << x >> = << h, x >> /\ << e >> \o << h, x >> = << e, h, x >>
    BY Reports, Zenon
  <2> QED
    BY <2>1, Zenon
<1>4. << e >> \o (<< h >> \o << >>) = << e, h >>
  <2> HIDE DEF e, h
  <2>1. << h >> \o << >> = << h >> /\ << e >> \o << h >> = << e, h >>
    BY Reports, Zenon
  <2> QED
    BY <2>1, Zenon
<1>5. TCP = 6 /\ ICMP = 1 /\ UDP = 17
  BY DEF TCP, ICMP, UDP
<1>6. protocol = TCP => next = << printTCPHeader(at, pkt, iHeader) >>
  <2> HIDE DEF iHeader, at, protocol
  <2> QED
    BY <1>5
<1>7. protocol = ICMP => next = << printICMPHeader(at, pkt) >>
  <2> HIDE DEF iHeader, at, protocol
  <2> QED
    BY <1>5
<1>8. protocol = UDP => next = << printUDPHeader(at, pkt) >>
  <2> HIDE DEF iHeader, at, protocol
  <2> QED
    BY <1>5
<1>9. protocol \notin {TCP, ICMP, UDP} => next = << >>
  <2> HIDE DEF iHeader, at, protocol
  <2> QED
    BY <1>5
<1> HIDE DEF next, report, e, h, protocol
<1>10. /\ protocol = TCP => report = << e, h, printTCPHeader(at, pkt, iHeader) >>
       /\ protocol = ICMP => report = << e, h, printICMPHeader(at, pkt) >>
       /\ protocol = UDP => report = << e, h, printUDPHeader(at, pkt) >>
       /\ protocol \notin {TCP, ICMP, UDP} => report = << e, h >>
  BY <1>1, <1>2, <1>3, <1>4, <1>6, <1>7, <1>8, <1>9, Zenon
<1>11. report[2] = h
  <2>1. protocol = TCP \/ protocol = ICMP \/ protocol = UDP \/ protocol \notin {TCP, ICMP, UDP}
    OBVIOUS
  <2>2. \A x : << e, h, x >>[2] = h
    OBVIOUS
  <2>3. << e, h >>[2] = h
    OBVIOUS
  <2> QED
    BY <1>10, <2>1, <2>2, <2>3, Zenon
<1> QED
  BY <1>10, <1>11, Zenon DEF report, e, h, protocol, iHeader, at

\* A part that may have changed: it is x now.
Changed(b, x, damaged) ==
  /\ x \in Seq(Bytes) /\ Len(x) = Len(b)
  /\ ~ damaged => x = b
  /\ damaged => \E k \in 1 .. Len(b), v \in Bytes : v # b[k] /\ x = [b EXCEPT ![k] = v]

LEMMA ArrivesAs ==
  ASSUME NEW p, IsPacket(p), frameOf(p.sent) \in Seq(Bytes),
         NEW n \in Nat, NEW b \in Seq(Bytes), Has(frameOf(p.sent), n, b)
  PROVE  \E x : Has(Arrived(p), n, x) /\ Changed(b, x, p.at \in n + 1 .. n + Len(b))
<1>1. /\ p.at \notin n + 1 .. n + Len(b) => Has(Arrived(p), n, b)
      /\ p.at \in n + 1 .. n + Len(b) =>
           \E k \in 1 .. Len(b), v \in Bytes :
             /\ v # b[k] /\ k = p.at - n
             /\ [b EXCEPT ![k] = v] \in Seq(Bytes)
             /\ Len([b EXCEPT ![k] = v]) = Len(b)
             /\ Has(Arrived(p), n, [b EXCEPT ![k] = v])
  BY Arrives
<1>2. CASE p.at \notin n + 1 .. n + Len(b)
  <2>1. Changed(b, b, p.at \in n + 1 .. n + Len(b))
    BY <1>2 DEF Changed
  <2> QED
    BY <1>1, <1>2, <2>1
<1>3. CASE p.at \in n + 1 .. n + Len(b)
  <2>1. PICK k \in 1 .. Len(b), v \in Bytes :
             /\ v # b[k] /\ k = p.at - n
             /\ [b EXCEPT ![k] = v] \in Seq(Bytes)
             /\ Len([b EXCEPT ![k] = v]) = Len(b)
             /\ Has(Arrived(p), n, [b EXCEPT ![k] = v])
    BY <1>1, <1>3
  <2>2. Changed(b, [b EXCEPT ![k] = v], p.at \in n + 1 .. n + Len(b))
    BY <1>3, <2>1 DEF Changed
  <2> QED
    BY <2>1, <2>2
<1> QED
  BY <1>2, <1>3

\* A byte that has not changed.
LEMMA ByteArrives ==
  ASSUME NEW p, IsPacket(p), frameOf(p.sent) \in Seq(Bytes),
         NEW n \in Nat, NEW b \in Seq(Bytes), Has(frameOf(p.sent), n, b),
         NEW k \in 1 .. Len(b), p.at # n + k
  PROVE  Arrived(p)[n + k] = b[k]
<1> DEFINE f == frameOf(p.sent)
<1>1. Len(b) \in Nat /\ Len(f) \in Nat /\ n + Len(b) <= Len(f)
  BY LenProperties DEF Has
<1>2. f[n + k] = b[k] /\ n + k \in 1 .. Len(f)
  <2>1. n + k \in 1 .. Len(f)
    BY <1>1
  <2> QED
    BY <2>1 DEF Has
<1>3. f \in Seq(Bytes)
  OBVIOUS
<1>4. Arrived(p) = IF p.at = 0 THEN f ELSE [f EXCEPT ![p.at] = p.value]
  BY DEF Arrived
<1> HIDE DEF f
<1>5. [f EXCEPT ![p.at] = p.value][n + k] = f[n + k]
  <2>1. DOMAIN f = 1 .. Len(f)
    BY <1>3, LenProperties
  <2> QED
    BY <1>2, <2>1
<1> QED
  BY <1>2, <1>4, <1>5

\* What is read of the IP header of an arrived packet.
LEMMA IpArrives ==
  ASSUME NEW p, IsPacket(p), p.sent.type = "IP", p.at \notin {13, 14, 15}
  PROVE  LET a  == Arrived(p)
             ip == p.sent.next
         IN  /\ IsIpPacket(ip) /\ a \in Seq(Bytes)
             /\ createEthHeader(a).type = IP
             /\ createIpHeader(a).headerLen = HeaderLen(ip)
             /\ createIpHeader(a).checksum_flg = Verdict(p.at \notin ipArea(p.sent))
<1> DEFINE f  == frameOf(p.sent)
           a  == Arrived(p)
           ip == p.sent.next
           type == EthernetType["IP"]
           fb == << FirstByte(ip), ip.tos >>
           h  == IpNext(ip)
           H  == HeaderLen(ip)
<1>1. IsFrame(p.sent)
  BY DEF IsPacket
<1>2. IsIpPacket(ip) /\ type \in Seq(Bytes) /\ Len(type) = 2
  BY <1>1, FrameTyped
<1>3. f \in Seq(Bytes) /\ Has(f, 12, type) /\ Has(f, 14, h)
  BY <1>1, IpFrameLayout DEF EthFields
<1>4. Has(f, 14, fb)
  BY <1>1, IpPartsLayout
<1>5. /\ FirstByte(ip) \in Bytes /\ ip.tos \in Bytes /\ H \in Nat
      /\ convertLen(FirstByte(ip)) = H
  BY <1>2, IpNumbers, IpTyped
<1>6. fb \in Seq(Bytes) /\ Len(fb) = 2 /\ fb[1] = FirstByte(ip)
  BY <1>5
<1>7. h \in Seq(Bytes) /\ Len(h) = H /\ Small(h) /\ in_cksum(h) = 0
  <2>1. IpFields(h, ip, word(ipChecksum(ip))) /\ Small(h) /\ in_cksum(h) = 0
    BY <1>2, IpIsGood
  <2> QED
    BY <2>1 DEF IpFields
<1>8. 12 \in Nat /\ 14 \in Nat
  OBVIOUS
<1>9. p.at \notin 12 + 1 .. 12 + 2 /\ p.at # 14 + 1
  OBVIOUS
<1>10. ipArea(p.sent) = 14 + 1 .. 14 + H
  <2>1. ipArea(p.sent) = 15 .. 14 + 20 + Len(ip.options)
    BY DEF ipArea
  <2>2. Len(ip.options) \in Nat
    BY <1>2, IpNumbers
  <2>3. H = 20 + Len(ip.options)
    BY DEF HeaderLen
  <2> HIDE DEF ip, H
  <2> QED
    BY <2>1, <2>2, <2>3
<1> HIDE DEF f, a, ip, type, fb, h, H
<1>11. a \in Seq(Bytes) /\ Has(a, 12, type)
  BY <1>2, <1>3, <1>8, <1>9, Arrives DEF f, a
<1>12. createEthHeader(a).type = IP
  BY <1>11, EthRead DEF type
<1>13. a[14 + 1] = FirstByte(ip)
  <2>1. 1 \in 1 .. Len(fb)
    BY <1>6
  <2> QED
    BY <1>3, <1>4, <1>6, <1>8, <1>9, <2>1, ByteArrives DEF f, a
<1>14. PICK x : Has(a, 14, x) /\ Changed(h, x, p.at \in 14 + 1 .. 14 + H)
  BY <1>3, <1>7, <1>8, ArrivesAs DEF f, a
<1>15. x \in Seq(Bytes) /\ Len(x) = H
  BY <1>7, <1>14 DEF Changed
<1>16. in_cksum(x) = 0 <=> p.at \notin 14 + 1 .. 14 + H
  <2>1. CASE p.at \in 14 + 1 .. 14 + H
    <3>1. PICK k \in 1 .. Len(h), v \in Bytes : v # h[k] /\ x = [h EXCEPT ![k] = v]
      BY <1>14, <2>1 DEF Changed
    <3>2. in_cksum([h EXCEPT ![k] = v]) # 0
      BY <1>7, <3>1, ChangeIsSeen
    <3> QED
      BY <2>1, <3>1, <3>2
  <2>2. CASE p.at \notin 14 + 1 .. 14 + H
    <3>1. x = h
      BY <1>14, <2>2 DEF Changed
    <3> QED
      BY <1>7, <2>2, <3>1
  <2> QED
    BY <2>1, <2>2
<1>17. octets(a, 14, H) = x
  <2>1. octets(a, 14, Len(x)) = x
    BY <1>8, <1>11, <1>14, <1>15, HasOctets
  <2> QED
    BY <1>15, <2>1
<1>18. createIpHeader(a).headerLen = H
  <2>1. createIpHeader(a).headerLen = convertLen(a[14 + 1])
    BY DEF createIpHeader, IP_HEADERLEN_OFFSET
  <2> QED
    BY <1>5, <1>13, <2>1
<1>19. createIpHeader(a).checksum_flg = Verdict(in_cksum(octets(a, 14, H)) = 0)
  <2>1. createIpHeader(a).checksum_flg = findIP_CS(createIpHeader(a).headerLen, a)
    BY DEF createIpHeader
  <2>2. findIP_CS(H, a) = Verdict(in_cksum(octets(a, 14, H)) = 0)
    BY DEF findIP_CS, IP_HEADERLEN_OFFSET
  <2> QED
    BY <1>18, <2>1, <2>2
<1>20. createIpHeader(a).checksum_flg = Verdict(p.at \notin ipArea(p.sent))
  <2>1. (in_cksum(octets(a, 14, H)) = 0) <=> (p.at \notin ipArea(p.sent))
    BY <1>10, <1>16, <1>17
  <2> QED
    BY <1>19, <2>1 DEF Verdict
<1> QED
  BY <1>2, <1>11, <1>12, <1>18, <1>20 DEF a, ip, H

LEMMA IpDamage ==
  ASSUME NEW p, IsPacket(p), p.sent.type = "IP", p.at \notin {13, 14, 15}, NEW len, NEW i
  PROVE  printHeader(Arrived(p), len, i)[2].checksum_flg
           = Verdict(p.at \notin ipArea(p.sent))
<1> DEFINE a == Arrived(p)
           iHeader == createIpHeader(a)
<1>1. createEthHeader(a).type = IP /\ iHeader.checksum_flg = Verdict(p.at \notin ipArea(p.sent))
  BY IpArrives
<1>2. printHeader(a, len, i)[2] = printIpHeader(iHeader)
  <2> HIDE DEF a
  <2> QED
    BY <1>1, IpReports
<1>3. printIpHeader(iHeader).checksum_flg = iHeader.checksum_flg
  BY DEF printIpHeader, createIpHeader
<1> QED
  BY <1>1, <1>2, <1>3

\* What another byte does to a sum: x goes and y comes, two values of one byte
\* in one of the two places of a word.
Multiple(n) == n % 65535 = 0

Exchanged(x, y) ==
  \E u, v \in Nat : /\ u <= 255 /\ v <= 255 /\ v # u
                    /\ \/ x = u /\ y = v
                       \/ x = 256 * u /\ y = 256 * v

Replaced(old, new) == \E x, y \in Nat : Exchanged(x, y) /\ new + x = old + y

LEMMA ReplacedIsSeen ==
  ASSUME NEW t \in Nat, NEW w \in Nat, Multiple(t), Replaced(t, w)
  PROVE  ~ Multiple(w)
<1>1. PICK x, y \in Nat : Exchanged(x, y) /\ w + x = t + y
  BY DEF Replaced
<1>2. PICK u, v \in Nat : /\ u <= 255 /\ v <= 255 /\ v # u
                          /\ \/ x = u /\ y = v
                             \/ x = 256 * u /\ y = 256 * v
  BY <1>1 DEF Exchanged
<1>3. w = t + v - u \/ w = t + 256 * v - 256 * u
  BY <1>1, <1>2
<1>4. t % 65535 = 0
  BY DEF Multiple
<1>5. w % 65535 # 0
  BY ONLY t \in Nat, w \in Nat, <1>2, <1>3, <1>4, AnotherByte
<1> QED
  BY <1>5 DEF Multiple

LEMMA ReplacedInSum ==
  ASSUME NEW a \in Nat, NEW b \in Nat, NEW c \in Nat, Replaced(a, b)
  PROVE  Replaced(a + c, b + c)
<1>1. PICK x, y \in Nat : Exchanged(x, y) /\ b + x = a + y
  BY DEF Replaced
<1>2. (b + c) + x = (a + c) + y
  BY <1>1
<1> QED
  BY <1>1, <1>2 DEF Replaced

\* A change of one part in its sum.
LEMMA ChangedTotal ==
  ASSUME NEW b \in Seq(Bytes), NEW x, NEW damaged \in BOOLEAN, Changed(b, x, damaged)
  PROVE  /\ BigTotal(b) \in Nat /\ BigTotal(x) \in Nat /\ Len(x) = Len(b)
         /\ ~ damaged => BigTotal(x) = BigTotal(b)
         /\ damaged => Replaced(BigTotal(b), BigTotal(x))
<1>1. x \in Seq(Bytes) /\ Len(x) = Len(b) /\ (~ damaged => x = b)
  BY DEF Changed
<1>2. BigTotal(b) \in Nat /\ BigTotal(x) \in Nat
  BY <1>1, ChecksumCompletes
<1>3. ASSUME damaged
      PROVE  Replaced(BigTotal(b), BigTotal(x))
  <2>1. PICK k \in 1 .. Len(b), v \in Bytes : v # b[k] /\ x = [b EXCEPT ![k] = v]
    BY <1>3 DEF Changed
  <2>2. \/ BigTotal(x) = BigTotal(b) + v - b[k]
        \/ BigTotal(x) = BigTotal(b) + 256 * v - 256 * b[k]
    <3> DEFINE c == [b EXCEPT ![k] = v]
    <3>1. b \in Seq(Bytes) /\ k \in 1 .. Len(b) /\ v \in Bytes
      BY <2>1
    <3>2. \/ BigTotal(c) = BigTotal(b) + v - b[k]
          \/ BigTotal(c) = BigTotal(b) + 256 * v - 256 * b[k]
      BY ONLY <3>1, BigTotalChanges
    <3> HIDE DEF c
    <3>3. x = c
      BY <2>1 DEF c
    <3> QED
      BY <3>2, <3>3
  <2>3. b[k] \in Bytes
    BY LenProperties, ElementOfSeq
  <2>4. b[k] \in Nat /\ b[k] <= 255 /\ v \in Nat /\ v <= 255
    BY <2>3, ByteRange
  <2>5. PICK o \in Nat : o = b[k]
    BY <2>4
  <2>6. PICK m, n \in Nat : m = BigTotal(b) /\ n = BigTotal(x)
    BY <1>2
  <2>7. CASE n = m + v - o
    <3>1. n + o = m + v
      BY <2>4, <2>7
    <3>2. Exchanged(o, v)
      BY <2>1, <2>4, <2>5 DEF Exchanged
    <3> QED
      BY <2>4, <2>6, <3>1, <3>2 DEF Replaced
  <2>8. CASE n = m + 256 * v - 256 * o
    <3>1. PICK q, r \in Nat : q = 256 * o /\ r = 256 * v
      BY <2>4
    <3>2. n + q = m + r
      BY <2>8, <3>1
    <3>3. Exchanged(q, r)
      BY <2>1, <2>4, <2>5, <3>1 DEF Exchanged
    <3> QED
      BY <2>6, <3>2, <3>3 DEF Replaced
  <2> QED
    BY <2>2, <2>5, <2>6, <2>7, <2>8
<1> QED
  BY <1>1, <1>2, <1>3

LEMMA PseudoSeesChange ==
  ASSUME NEW s \in Seq(Bytes), NEW d \in Seq(Bytes), NEW seg \in Seq(Bytes),
         Multiple(PseudoTotal(s, d, seg)),
         NEW s2, NEW d2, NEW seg2,
         NEW inS \in BOOLEAN, NEW inD \in BOOLEAN, NEW inSeg \in BOOLEAN,
         Changed(s, s2, inS), Changed(d, d2, inD), Changed(seg, seg2, inSeg),
         ~ (inS /\ inD), ~ (inS /\ inSeg), ~ (inD /\ inSeg)
  PROVE  Multiple(PseudoTotal(s2, d2, seg2)) <=> ~ (inS \/ inD \/ inSeg)
<1> DEFINE t == PseudoTotal(s, d, seg)
           t2 == PseudoTotal(s2, d2, seg2)
<1>1. PICK a, a2 \in Nat : /\ a = BigTotal(s) /\ a2 = BigTotal(s2)
                           /\ ~ inS => a2 = a
                           /\ inS => Replaced(a, a2)
  <2>1. s \in Seq(Bytes) /\ inS \in BOOLEAN /\ Changed(s, s2, inS)
    OBVIOUS
  <2>2. /\ BigTotal(s) \in Nat /\ BigTotal(s2) \in Nat
        /\ ~ inS => BigTotal(s2) = BigTotal(s)
        /\ inS => Replaced(BigTotal(s), BigTotal(s2))
    BY ONLY <2>1, ChangedTotal
  <2> QED
    BY <2>2, Zenon
<1>2. PICK b, b2 \in Nat : /\ b = BigTotal(d) /\ b2 = BigTotal(d2)
                           /\ ~ inD => b2 = b
                           /\ inD => Replaced(b, b2)
  <2>1. d \in Seq(Bytes) /\ inD \in BOOLEAN /\ Changed(d, d2, inD)
    OBVIOUS
  <2>2. /\ BigTotal(d) \in Nat /\ BigTotal(d2) \in Nat
        /\ ~ inD => BigTotal(d2) = BigTotal(d)
        /\ inD => Replaced(BigTotal(d), BigTotal(d2))
    BY ONLY <2>1, ChangedTotal
  <2> QED
    BY <2>2, Zenon
<1>3. PICK c, c2 \in Nat : /\ c = BigTotal(seg) /\ c2 = BigTotal(seg2)
                           /\ ~ inSeg => c2 = c
                           /\ inSeg => Replaced(c, c2)
  <2>1. seg \in Seq(Bytes) /\ inSeg \in BOOLEAN /\ Changed(seg, seg2, inSeg)
    OBVIOUS
  <2>2. /\ BigTotal(seg) \in Nat /\ BigTotal(seg2) \in Nat
        /\ ~ inSeg => BigTotal(seg2) = BigTotal(seg)
        /\ inSeg => Replaced(BigTotal(seg), BigTotal(seg2))
    BY ONLY <2>1, ChangedTotal
  <2> QED
    BY <2>2, Zenon
<1>4. PICK n \in Nat : n = Len(seg)
  BY LenProperties
<1>5. Len(seg2) = n
  BY <1>4 DEF Changed
<1>6. PICK k \in Nat : k = TCP
  BY DEF TCP
<1>7. t = c + k + n + a + b /\ t2 = c2 + k + n + a2 + b2
  BY <1>1, <1>2, <1>3, <1>4, <1>5, <1>6, Zenon DEF PseudoTotal
<1>8. Multiple(t)
  OBVIOUS
<1> HIDE DEF t, t2
<1>9. t \in Nat /\ t2 \in Nat
  BY <1>7
<1>10. ASSUME inS
       PROVE  ~ Multiple(t2)
  <2>1. Replaced(a, a2) /\ b2 = b /\ c2 = c
    BY <1>1, <1>2, <1>3, <1>10, Zenon
  <2>2. PICK r \in Nat : r = c + k + n + b
    OBVIOUS
  <2>3. t = a + r /\ t2 = a2 + r
    BY <1>7, <2>1, <2>2
  <2>4. Replaced(t, t2)
    BY <2>1, <2>3, ReplacedInSum
  <2> QED
    BY <1>8, <1>9, <2>4, ReplacedIsSeen
<1>11. ASSUME inD
       PROVE  ~ Multiple(t2)
  <2>1. Replaced(b, b2) /\ a2 = a /\ c2 = c
    BY <1>1, <1>2, <1>3, <1>11, Zenon
  <2>2. PICK r \in Nat : r = c + k + n + a
    OBVIOUS
  <2>3. t = b + r /\ t2 = b2 + r
    BY <1>7, <2>1, <2>2
  <2>4. Replaced(t, t2)
    BY <2>1, <2>3, ReplacedInSum
  <2> QED
    BY <1>8, <1>9, <2>4, ReplacedIsSeen
<1>12. ASSUME inSeg
       PROVE  ~ Multiple(t2)
  <2>1. Replaced(c, c2) /\ a2 = a /\ b2 = b
    BY <1>1, <1>2, <1>3, <1>12, Zenon
  <2>2. PICK r \in Nat : r = k + n + a + b
    OBVIOUS
  <2>3. t = c + r /\ t2 = c2 + r
    BY <1>7, <2>1, <2>2
  <2>4. Replaced(t, t2)
    BY <2>1, <2>3, ReplacedInSum
  <2> QED
    BY <1>8, <1>9, <2>4, ReplacedIsSeen
<1>13. ASSUME ~ (inS \/ inD \/ inSeg)
       PROVE  Multiple(t2)
  <2>1. a2 = a /\ b2 = b /\ c2 = c
    BY <1>1, <1>2, <1>3, <1>13, Zenon
  <2>2. t2 = t
    BY <1>7, <2>1
  <2> QED
    BY <1>8, <2>2
<1> QED
  BY <1>10, <1>11, <1>12, <1>13 DEF t2

\* What is read of the segment of an arrived packet.
LEMMA TcpArrives ==
  ASSUME NEW p, IsPacket(p), p.sent.type = "IP", p.sent.next.protocol = "TCP",
         p.at \notin {13, 14, 15, 17, 18, 24}
  PROVE  LET a == Arrived(p)
             iHeader == createIpHeader(a)
         IN  /\ iHeader.protocol = TCP
             /\ findTCP_CS(14 + iHeader.headerLen, a, iHeader)
                  = Verdict(p.at \notin tcpArea(p.sent))
<1> DEFINE f  == frameOf(p.sent)
           a  == Arrived(p)
           ip == p.sent.next
           iHeader == createIpHeader(a)
           l  == word(PduLen(ip))
           t  == << 0, 1, 0, 0, ip.ttl, ProtocolByte[ip.protocol] >>
           s  == ip.senderIP
           d  == ip.destIP
           seg == segmentOf(ip)
           H  == HeaderLen(ip)
           L  == Len(seg)
<1>1. IsFrame(p.sent)
  BY DEF IsPacket
<1>2. /\ IsIpPacket(ip) /\ a \in Seq(Bytes) /\ iHeader.headerLen = H
  BY IpArrives
<1>3. /\ f \in Seq(Bytes) /\ Has(f, 14 + H, seg)
  BY <1>1, IpFrameLayout
<1>4. Has(f, 16, l) /\ Has(f, 18, t) /\ Has(f, 26, s) /\ Has(f, 30, d)
  BY <1>1, IpPartsLayout
<1>5. /\ s \in Seq(Bytes) /\ Len(s) = 4 /\ d \in Seq(Bytes) /\ Len(d) = 4
      /\ ip.ttl \in Bytes
  BY <1>2, IpTyped
<1>6. /\ PduLen(ip) \in Words16 /\ L \in Nat /\ PduLen(ip) = H + L /\ Small(seg)
  BY <1>2, IpIsGood
<1>7. l \in Seq(Bytes) /\ Len(l) = 2
  BY <1>6, WordBytes
<1>8. H \in Nat /\ H >= 20 /\ ProtocolByte[ip.protocol] = 6
  <2>1. H \in Nat /\ H >= 20
    BY <1>2, IpNumbers
  <2>2. ProtocolByte[ip.protocol] = 6
    BY DEF ProtocolByte
  <2> QED
    BY <2>1, <2>2
<1>9. t \in Seq(Bytes) /\ Len(t) = 6 /\ t[6] = 6
  <2>1. 0 \in Bytes /\ 1 \in Bytes /\ 6 \in Bytes
    BY ByteIs
  <2>2. t = << 0, 1, 0, 0, ip.ttl, 6 >>
    BY <1>8
  <2> QED
    BY <1>5, <2>1, <2>2
<1>10. seg \in Seq(Bytes) /\ L <= 65535 /\ PseudoTotal(s, d, seg) % 65535 = 0
  <2>1. seg \in Seq(Bytes) /\ L <= 65535
    BY <1>6 DEF Small
  <2>2. NextFields(ip, seg)
    BY <1>2, SegmentLayout
  <2>3. PseudoTotal(s, d, seg) % 65535 = 0
    BY <2>2 DEF NextFields
  <2> QED
    BY <2>1, <2>3
<1>11. tcpArea(p.sent) = 27 .. 34 \cup 14 + H + 1 .. 14 + H + L
  <2>1. tcpStart(p.sent) = 14 + 20 + Len(ip.options)
    BY DEF tcpStart
  <2>2. Len(ip.options) \in Nat
    BY <1>2, IpNumbers
  <2>3. H = 20 + Len(ip.options)
    BY DEF HeaderLen
  <2> HIDE DEF ip, H, seg, L
  <2>4. 14 + 20 + Len(ip.options) = 14 + H
    BY <2>2, <2>3
  <2> QED
    BY <2>1, <2>4 DEF tcpArea, L, seg, ip
<1>12. /\ 16 \in Nat /\ 18 \in Nat /\ 26 \in Nat /\ 30 \in Nat /\ 14 + H \in Nat
       /\ p.at # 18 + 6
  BY <1>8
<1>13. p.at \notin 16 + 1 .. 16 + 2
  OBVIOUS
<1> HIDE DEF f, a, ip, l, t, s, d, seg, H, L
<1>14. Has(a, 16, l)
  BY <1>3, <1>4, <1>7, <1>12, <1>13, Arrives DEF f, a
<1>15. iHeader.pduLen = PduLen(ip)
  <2>1. ntohs(a, 16) = PduLen(ip)
    BY <1>2, <1>6, <1>12, <1>14, HasWord DEF l
  <2>2. iHeader.pduLen = ntohs(a, 16)
    BY DEF createIpHeader
  <2> QED
    BY <2>1, <2>2
<1>16. iHeader.protocol = TCP
  <2>1. 6 \in 1 .. Len(t)
    BY <1>9
  <2>2. a[18 + 6] = 6
    BY <1>3, <1>4, <1>9, <1>12, <2>1, ByteArrives DEF f, a
  <2>3. iHeader.protocol = a[24]
    BY DEF createIpHeader
  <2> QED
    BY <2>2, <2>3 DEF TCP
<1>17. PICK s2 : Has(a, 26, s2) /\ Changed(s, s2, p.at \in 26 + 1 .. 26 + Len(s))
  BY <1>3, <1>4, <1>5, <1>12, ArrivesAs DEF f, a
<1>18. PICK d2 : Has(a, 30, d2) /\ Changed(d, d2, p.at \in 30 + 1 .. 30 + Len(d))
  BY <1>3, <1>4, <1>5, <1>12, ArrivesAs DEF f, a
<1>19. PICK seg2 : /\ Has(a, 14 + H, seg2)
                   /\ Changed(seg, seg2, p.at \in 14 + H + 1 .. 14 + H + Len(seg))
  BY <1>3, <1>10, <1>12, ArrivesAs DEF f, a
<1>20. /\ s2 \in Seq(Bytes) /\ Len(s2) = 4 /\ d2 \in Seq(Bytes) /\ Len(d2) = 4
       /\ seg2 \in Seq(Bytes) /\ Len(seg2) = L
  BY <1>5, <1>17, <1>18, <1>19 DEF Changed, L
<1>21. iHeader.senderIP = s2
  <2>1. octets(a, 26, Len(s2)) = s2
    BY <1>2, <1>12, <1>17, <1>20, HasOctets
  <2>2. iHeader.senderIP = octets(a, 26, 4)
    BY DEF createIpHeader, IP_ADDR_SIZE
  <2> QED
    BY <1>20, <2>1, <2>2
<1>22. iHeader.destIP = d2
  <2>1. octets(a, 30, Len(d2)) = d2
    BY <1>2, <1>12, <1>18, <1>20, HasOctets
  <2>2. iHeader.destIP = octets(a, 26 + 4, 4)
    BY DEF createIpHeader, IP_ADDR_SIZE
  <2>3. 26 + 4 = 30
    OBVIOUS
  <2> QED
    BY <1>20, <2>1, <2>2, <2>3
<1> HIDE DEF iHeader
<1>23. Len(seg2) = (iHeader.pduLen - iHeader.headerLen) % 65536
  <2>1. iHeader.pduLen - iHeader.headerLen = L
    BY <1>2, <1>6, <1>8, <1>15
  <2>2. L % 65536 = L
    BY <1>6, <1>10, Z3
  <2> QED
    BY <1>20, <2>1, <2>2
<1>24. Small(seg2)
  BY <1>10, <1>20 DEF Small
<1> DEFINE v == PseudoTotal(s2, d2, seg2)
<1>25. v \in Nat /\ findTCP_CS(14 + H, a, iHeader) = Verdict(v % 65535 = 0)
  <2>1. /\ a \in Seq(Bytes) /\ 14 + H \in Nat /\ Small(seg2) /\ Has(a, 14 + H, seg2)
        /\ Len(seg2) = (iHeader.pduLen - iHeader.headerLen) % 65536
        /\ iHeader.senderIP \in Seq(Bytes) /\ Len(iHeader.senderIP) = 4
        /\ iHeader.destIP \in Seq(Bytes) /\ Len(iHeader.destIP) = 4
    BY <1>2, <1>12, <1>19, <1>20, <1>21, <1>22, <1>23, <1>24, SMT
  <2>2. /\ PseudoTotal(iHeader.senderIP, iHeader.destIP, seg2) \in Nat
        /\ findTCP_CS(14 + H, a, iHeader)
             = Verdict(PseudoTotal(iHeader.senderIP, iHeader.destIP, seg2) % 65535 = 0)
    BY ONLY <2>1, TcpVerdict
  <2> QED
    BY <1>21, <1>22, <2>2
<1> DEFINE inS == p.at \in 26 + 1 .. 26 + Len(s)
           inD == p.at \in 30 + 1 .. 30 + Len(d)
           inSeg == p.at \in 14 + H + 1 .. 14 + H + Len(seg)
<1>26. ~ (inS /\ inD) /\ ~ (inS /\ inSeg) /\ ~ (inD /\ inSeg)
  <2>1. Len(seg) \in Nat /\ Len(s) = 4 /\ Len(d) = 4 /\ H \in Nat /\ H >= 20
    BY <1>5, <1>6, <1>8 DEF L
  <2> QED
    BY ONLY <2>1
<1>27. inS \/ inD \/ inSeg <=> p.at \in tcpArea(p.sent)
  <2>1. inS \/ inD <=> p.at \in 27 .. 34
    BY <1>5
  <2>2. inSeg <=> p.at \in 14 + H + 1 .. 14 + H + L
    BY DEF L
  <2> HIDE DEF inS, inD, inSeg
  <2> QED
    BY <1>11, <2>1, <2>2
<1>28. v % 65535 = 0 <=> ~ (inS \/ inD \/ inSeg)
  <2>1. inS \in BOOLEAN /\ inD \in BOOLEAN /\ inSeg \in BOOLEAN
    OBVIOUS
  <2>2. Changed(s, s2, inS) /\ Changed(d, d2, inD) /\ Changed(seg, seg2, inSeg)
    BY <1>17, <1>18, <1>19
  <2>3. Multiple(PseudoTotal(s, d, seg))
    BY <1>10 DEF Multiple
  <2> HIDE DEF inS, inD, inSeg
  <2>4. Multiple(v) <=> ~ (inS \/ inD \/ inSeg)
    BY ONLY <1>5, <1>10, <1>26, <2>1, <2>2, <2>3, PseudoSeesChange DEF v
  <2> QED
    BY <2>4 DEF Multiple
<1> HIDE DEF v, inS, inD, inSeg
<1>29. findTCP_CS(14 + H, a, iHeader) = Verdict(p.at \notin tcpArea(p.sent))
  BY <1>25, <1>27, <1>28 DEF Verdict
<1> QED
  BY <1>2, <1>16, <1>29 DEF iHeader, a

LEMMA TcpDamage ==
  ASSUME NEW p, IsPacket(p), p.sent.type = "IP", p.sent.next.protocol = "TCP",
         p.at \notin {13, 14, 15, 17, 18, 24}, NEW len, NEW i
  PROVE  printHeader(Arrived(p), len, i)[3].verdict = Verdict(p.at \notin tcpArea(p.sent))
<1> DEFINE a == Arrived(p)
           iHeader == createIpHeader(a)
           at == 14 + iHeader.headerLen
<1>1. createEthHeader(a).type = IP
  BY IpArrives
<1>2. iHeader.protocol = TCP /\ findTCP_CS(at, a, iHeader) = Verdict(p.at \notin tcpArea(p.sent))
  BY TcpArrives
<1>3. printHeader(a, len, i)
        = << outputEthHeader(a, len, i), printIpHeader(iHeader), printTCPHeader(at, a, iHeader) >>
  <2> HIDE DEF a
  <2> QED
    BY <1>1, <1>2, IpReports
<1>4. printTCPHeader(at, a, iHeader).verdict = findTCP_CS(at, a, iHeader)
  BY DEF printTCPHeader
<1> HIDE DEF a, iHeader, at
<1>5. PICK e, h, t : /\ printHeader(a, len, i) = << e, h, t >>
                    /\ t = printTCPHeader(at, a, iHeader)
  BY <1>3, Zenon
<1>6. printHeader(a, len, i)[3] = printTCPHeader(at, a, iHeader)
  <2>1. << e, h, t >>[3] = t
    OBVIOUS
  <2> QED
    BY <1>5, <2>1, Zenon
<1> QED
  BY <1>2, <1>4, <1>6 DEF a

-----------------------------------------------------------------------------
(* The report of a packet that arrived as it was sent. *)

LEMMA EthIsRight ==
  ASSUME NEW p, IsFrame(p), frameOf(p) \in Seq(Bytes), EthFields(frameOf(p), p), NEW number
  PROVE  outputEthHeader(frameOf(p), Len(frameOf(p)), number) = EthReport(p, number)
<1> DEFINE f == frameOf(p)
<1>1. /\ p.dst \in Seq(Bytes) /\ Len(p.dst) = 6 /\ p.src \in Seq(Bytes) /\ Len(p.src) = 6
      /\ p.type \in {"IP", "ARP", "Unknown"}
  BY FrameTyped, Zenon
<1>2. /\ f \in Seq(Bytes) /\ Has(f, 0, p.dst) /\ Has(f, 6, p.src)
      /\ Has(f, 12, EthernetType[p.type])
  BY Zenon DEF EthFields
<1> HIDE DEF f
<1>3. 0 \in Nat /\ 6 \in Nat
  OBVIOUS
<1>4. octets(f, 0, 6) = p.dst /\ octets(f, 6, 6) = p.src
  <2>1. octets(f, 0, Len(p.dst)) = p.dst
    BY <1>1, <1>2, <1>3, HasOctets
  <2>2. octets(f, 6, Len(p.src)) = p.src
    BY <1>1, <1>2, <1>3, HasOctets
  <2> QED
    BY <1>1, <2>1, <2>2
<1>5. findEthType(createEthHeader(f).type) = p.type
  BY <1>1, <1>2, EthRead
<1>6. createEthHeader(f).dst = p.dst /\ createEthHeader(f).src = p.src
  BY <1>4 DEF createEthHeader, ETHER_ADDR_SIZE
<1>7. outputEthHeader(f, Len(f), number)
        = [number |-> number, len |-> Len(f), dst |-> createEthHeader(f).dst,
           src |-> createEthHeader(f).src, type |-> findEthType(createEthHeader(f).type)]
  BY Zenon DEF outputEthHeader
<1> QED
  BY <1>5, <1>6, <1>7 DEF EthReport, f

\* What the protocols are called.
LEMMA ProtocolNames ==
  ASSUME NEW x \in {"TCP", "ICMP", "UDP", "Unknown"}
  PROVE  /\ toWord(ProtocolByte[x]) = x
         /\ ProtocolByte[x] = TCP <=> x = "TCP"
         /\ ProtocolByte[x] = ICMP <=> x = "ICMP"
         /\ ProtocolByte[x] = UDP <=> x = "UDP"
<1>1. TCP = 6 /\ ICMP = 1 /\ UDP = 17
  BY DEF TCP, ICMP, UDP
<1>2. /\ ProtocolByte["TCP"] = 6 /\ ProtocolByte["ICMP"] = 1 /\ ProtocolByte["UDP"] = 17
      /\ ProtocolByte["Unknown"] = 254
  BY DEF ProtocolByte
<1> QED
  BY <1>1, <1>2 DEF toWord

\* The fields of the IP header, read back.
LEMMA IpRead ==
  ASSUME NEW p, IsPacket(p), p.at = 0, p.sent.type = "IP"
  PROVE  LET f  == frameOf(p.sent)
             ip == p.sent.next
             iHeader == createIpHeader(f)
         IN  /\ iHeader.headerLen = HeaderLen(ip) /\ iHeader.tos = ip.tos
             /\ iHeader.pduLen = PduLen(ip) /\ iHeader.ttl = ip.ttl
             /\ iHeader.protocol = ProtocolByte[ip.protocol]
             /\ iHeader.checksum = swap(ipChecksum(ip))
             /\ iHeader.checksum_flg = "Correct"
             /\ iHeader.senderIP = ip.senderIP /\ iHeader.destIP = ip.destIP
<1> DEFINE f  == frameOf(p.sent)
           ip == p.sent.next
           iHeader == createIpHeader(f)
           b == << FirstByte(ip), ip.tos >>
           t == << 0, 1, 0, 0, ip.ttl, ProtocolByte[ip.protocol] >>
           c == ipChecksum(ip)
<1>1. IsFrame(p.sent) /\ Arrived(p) = f
  BY DEF IsPacket, Arrived
<1>2. /\ IsIpPacket(ip) /\ f \in Seq(Bytes) /\ iHeader.headerLen = HeaderLen(ip)
      /\ iHeader.checksum_flg = "Correct"
  <2>1. p.at \notin {13, 14, 15}
    OBVIOUS
  <2>2. p.at \notin ipArea(p.sent)
    <3>1. 15 .. 14 + 20 + Len(p.sent.next.options) = ipArea(p.sent)
      BY DEF ipArea
    <3>2. IsIpPacket(p.sent.next)
      BY <2>1, IpArrives
    <3>3. Len(p.sent.next.options) \in Nat
      BY <3>2, IpNumbers
    <3> QED
      BY <3>1, <3>3
  <2>3. /\ IsIpPacket(ip) /\ f \in Seq(Bytes) /\ iHeader.headerLen = HeaderLen(ip)
        /\ iHeader.checksum_flg = Verdict(p.at \notin ipArea(p.sent))
    BY <1>1, <2>1, IpArrives
  <2> QED
    BY <2>2, <2>3 DEF Verdict
<1>3. /\ Has(f, 14, b) /\ Has(f, 16, word(PduLen(ip))) /\ Has(f, 18, t)
      /\ Has(f, 24, word(c)) /\ Has(f, 26, ip.senderIP) /\ Has(f, 30, ip.destIP)
  BY <1>1, IpPartsLayout
<1>4. /\ ip.senderIP \in Seq(Bytes) /\ Len(ip.senderIP) = 4
      /\ ip.destIP \in Seq(Bytes) /\ Len(ip.destIP) = 4
  BY <1>2, IpTyped
<1>5. PduLen(ip) \in Words16 /\ c \in Words16
  BY <1>2, IpIsGood
<1>6. /\ 16 \in Nat /\ 24 \in Nat /\ 26 \in Nat /\ 30 \in Nat
      /\ 14 + 2 = 16 /\ 18 + 5 = 23 /\ 18 + 6 = 24 /\ 26 + 4 = 30
  OBVIOUS
<1>7. /\ Len(b) = 2 /\ b[2] = ip.tos /\ Len(t) = 6 /\ t[5] = ip.ttl
      /\ t[6] = ProtocolByte[ip.protocol]
  OBVIOUS
<1> HIDE DEF b, t, c
<1>8. f[16] = ip.tos /\ f[23] = ip.ttl /\ f[24] = ProtocolByte[ip.protocol]
  <2>1. 2 \in 1 .. Len(b) /\ 5 \in 1 .. Len(t) /\ 6 \in 1 .. Len(t)
    BY <1>7
  <2>2. f[14 + 2] = b[2] /\ f[18 + 5] = t[5] /\ f[18 + 6] = t[6]
    BY <1>3, <2>1, Zenon DEF Has
  <2> QED
    BY <1>6, <1>7, <2>2, Zenon
<1>9. ntohs(f, 16) = PduLen(ip)
  BY <1>2, <1>3, <1>5, <1>6, HasWord
<1>10. 256 * f[26] + f[25] = swap(c)
  <2>1. Len(word(c)) = 2
    BY <1>5, WordBytes
  <2>2. f[24 + 1] = word(c)[1] /\ f[24 + 2] = word(c)[2]
    <3>1. 1 \in 1 .. Len(word(c)) /\ 2 \in 1 .. Len(word(c))
      BY <2>1
    <3> QED
      BY <1>3, <3>1, Zenon DEF Has
  <2>3. word(c)[1] = c \div 256 /\ word(c)[2] = c % 256
    BY DEF word
  <2>4. 24 + 1 = 25 /\ 24 + 2 = 26
    OBVIOUS
  <2> QED
    BY <2>2, <2>3, <2>4 DEF swap
<1>11. octets(f, 26, 4) = ip.senderIP /\ octets(f, 30, 4) = ip.destIP
  <2>1. octets(f, 26, Len(ip.senderIP)) = ip.senderIP
    BY <1>2, <1>3, <1>4, <1>6, HasOctets
  <2>2. octets(f, 30, Len(ip.destIP)) = ip.destIP
    BY <1>2, <1>3, <1>4, <1>6, HasOctets
  <2> QED
    BY <1>4, <2>1, <2>2
<1>12. /\ iHeader.tos = f[16] /\ iHeader.pduLen = ntohs(f, 16) /\ iHeader.ttl = f[23]
       /\ iHeader.protocol = f[24] /\ iHeader.checksum = 256 * f[26] + f[25]
       /\ iHeader.senderIP = octets(f, 26, 4) /\ iHeader.destIP = octets(f, 26 + 4, 4)
  BY DEF createIpHeader, IP_ADDR_SIZE
<1> HIDE DEF iHeader, f, ip
<1>13. iHeader.destIP = ip.destIP /\ iHeader.senderIP = ip.senderIP
  BY <1>6, <1>11, <1>12
<1>14. iHeader.checksum = swap(c) /\ iHeader.pduLen = PduLen(ip)
  BY <1>9, <1>10, <1>12, Zenon
<1>15. /\ iHeader.tos = ip.tos /\ iHeader.ttl = ip.ttl
       /\ iHeader.protocol = ProtocolByte[ip.protocol]
  BY <1>8, <1>12, Zenon
<1> QED
  BY <1>2, <1>13, <1>14, <1>15, Zenon DEF c, iHeader, f, ip

LEMMA IpIsRight ==
  ASSUME NEW p, IsPacket(p), p.at = 0, p.sent.type = "IP"
  PROVE  printIpHeader(createIpHeader(frameOf(p.sent))) = IpReport(p.sent.next)
<1> DEFINE f  == frameOf(p.sent)
           ip == p.sent.next
           h == createIpHeader(f)
<1>1. /\ h.headerLen = HeaderLen(ip) /\ h.tos = ip.tos
      /\ h.pduLen = PduLen(ip) /\ h.ttl = ip.ttl
      /\ h.protocol = ProtocolByte[ip.protocol]
      /\ h.checksum = swap(ipChecksum(ip)) /\ h.checksum_flg = "Correct"
      /\ h.senderIP = ip.senderIP /\ h.destIP = ip.destIP
  BY IpRead
<1>2. h = [headerLen |-> h.headerLen, tos |-> h.tos, pduLen |-> h.pduLen, ttl |-> h.ttl,
           protocol |-> h.protocol, checksum |-> h.checksum,
           checksum_flg |-> h.checksum_flg, senderIP |-> h.senderIP, destIP |-> h.destIP]
  BY DEF createIpHeader
<1>3. toWord(ProtocolByte[ip.protocol]) = ip.protocol
  <2>1. IsIpPacket(ip)
    <3>1. p.at \notin {13, 14, 15}
      OBVIOUS
    <3> QED
      BY <3>1, IpArrives
  <2> QED
    BY <2>1, IpTyped, ProtocolNames
<1> HIDE DEF h
<1>4. h = [headerLen |-> HeaderLen(ip), tos |-> ip.tos, pduLen |-> PduLen(ip), ttl |-> ip.ttl,
           protocol |-> ProtocolByte[ip.protocol], checksum |-> swap(ipChecksum(ip)),
           checksum_flg |-> "Correct", senderIP |-> ip.senderIP, destIP |-> ip.destIP]
  BY <1>1, <1>2, Zenon
<1>5. printIpHeader(h)
        = [headerLen |-> HeaderLen(ip), tos |-> ip.tos, pduLen |-> PduLen(ip), ttl |-> ip.ttl,
           protocol |-> toWord(ProtocolByte[ip.protocol]), checksum |-> swap(ipChecksum(ip)),
           checksum_flg |-> "Correct", senderIP |-> ip.senderIP, destIP |-> ip.destIP]
  BY <1>4 DEF printIpHeader
<1>6. printIpHeader(h) = IpReport(ip)
  BY <1>3, <1>5, Zenon DEF IpReport, HeaderLen, PduLen
<1> QED
  BY <1>6 DEF h

\* What is behind the IP header, in the frame.
LEMMA SegmentRead ==
  ASSUME NEW p, IsFrame(p), p.type = "IP"
  PROVE  LET f  == frameOf(p)
             ip == p.next
             at == 14 + HeaderLen(ip)
         IN  /\ f \in Seq(Bytes) /\ at \in Nat /\ IsIpPacket(ip)
             /\ NextFields(ip, segmentOf(ip))
             /\ \A m \in Nat, x \in Seq(Bytes) :
                  Has(segmentOf(ip), m, x) => Has(f, at + m, x)
             /\ \A m \in Nat, w \in Words16 :
                  Has(segmentOf(ip), m, word(w)) => ntohs(f, at + m) = w
<1> DEFINE f  == frameOf(p)
           ip == p.next
           at == 14 + HeaderLen(ip)
           seg == segmentOf(ip)
<1>1. IsIpPacket(ip)
  BY FrameTyped, Zenon
<1>2. at \in Nat
  BY <1>1, IpNumbers
<1>3. f \in Seq(Bytes) /\ Has(f, at, seg)
  BY IpFrameLayout
<1>4. seg \in Seq(Bytes) /\ NextFields(ip, seg)
  BY <1>1, SegmentLayout
<1> HIDE DEF f, at, seg
<1>5. \A m \in Nat, x \in Seq(Bytes) : Has(seg, m, x) => Has(f, at + m, x)
  BY <1>2, <1>3, <1>4, HasInside
<1>6. ASSUME NEW m \in Nat, NEW w \in Words16, Has(seg, m, word(w))
      PROVE  ntohs(f, at + m) = w
  <2>1. word(w) \in Seq(Bytes)
    BY WordBytes
  <2>2. Has(f, at + m, word(w)) /\ at + m \in Nat
    BY <1>2, <1>5, <1>6, <2>1
  <2> QED
    BY <1>3, <2>2, HasWord
<1> QED
  BY <1>1, <1>2, <1>3, <1>4, <1>5, <1>6, Zenon DEF f, at, seg, ip

LEMMA TcpIsRight ==
  ASSUME NEW p, IsPacket(p), p.at = 0, p.sent.type = "IP", p.sent.next.protocol = "TCP"
  PROVE  LET f  == frameOf(p.sent)
             ip == p.sent.next
         IN  printTCPHeader(14 + HeaderLen(ip), f, createIpHeader(f)) = TcpReport(ip.next, ip)
<1> DEFINE f  == frameOf(p.sent)
           ip == p.sent.next
           t  == ip.next
           at == 14 + HeaderLen(ip)
           h  == createIpHeader(f)
           seg == segmentOf(ip)
           flgs == ntohs(f, at + 12)
<1>1. IsFrame(p.sent) /\ Arrived(p) = f
  BY DEF IsPacket, Arrived
<1>2. /\ f \in Seq(Bytes) /\ at \in Nat /\ IsIpPacket(ip) /\ NextFields(ip, seg)
      /\ \A m \in Nat, x \in Seq(Bytes) : Has(seg, m, x) => Has(f, at + m, x)
      /\ \A m \in Nat, w \in Words16 : Has(seg, m, word(w)) => ntohs(f, at + m) = w
  BY <1>1, SegmentRead
<1>3. t \in TcpHeaders
  BY <1>2, NextTyped
<1>4. /\ t.src \in Words16 /\ t.dst \in Words16
      /\ t.sqNum \in Words16 \X Words16 /\ t.ackNum \in Words16 \X Words16
      /\ t.winSize \in Words16 /\ t.flags \in SUBSET AllFlags
  BY <1>3, TcpTyped
<1>5. findTCP_CS(at, f, h) = "Correct"
  <2>1. p.at \notin {13, 14, 15, 17, 18, 24}
    OBVIOUS
  <2>2. p.at \notin tcpArea(p.sent)
    <3>1. Len(ip.options) \in Nat
      BY <1>2, IpNumbers
    <3>2. tcpStart(p.sent) \in Nat
      BY <3>1 DEF tcpStart
    <3>3. 0 \notin tcpStart(p.sent) + 1 .. tcpStart(p.sent) + Len(segmentOf(p.sent.next))
      BY <3>2
    <3>4. 0 \notin 27 .. 34
      OBVIOUS
    <3> QED
      BY <3>3, <3>4 DEF tcpArea
  <2>3. findTCP_CS(14 + h.headerLen, f, h) = Verdict(p.at \notin tcpArea(p.sent))
    BY <1>1, <2>1, TcpArrives
  <2>4. h.headerLen = HeaderLen(ip)
    BY IpRead
  <2> QED
    BY <2>2, <2>3, <2>4 DEF Verdict
<1>6. /\ tcpChecksum(t, ip) \in Words16
      /\ TcpFields(seg, t) /\ Has(seg, 16, word(tcpChecksum(t, ip)))
  BY <1>2 DEF NextFields
<1>7. /\ Has(seg, 0, word(t.src)) /\ Has(seg, 2, word(t.dst))
      /\ Has(seg, 4, word(t.sqNum[1])) /\ Has(seg, 6, word(t.sqNum[2]))
      /\ Has(seg, 8, word(t.ackNum[1])) /\ Has(seg, 10, word(t.ackNum[2]))
      /\ Has(seg, 12, << 80, SumSet(t.flags) >>) /\ Has(seg, 14, word(t.winSize))
  BY <1>6 DEF TcpFields
<1> DEFINE ck == tcpChecksum(t, ip)
<1> HIDE DEF f, at, seg, h, t, ck
<1>8. /\ 0 \in Nat /\ 2 \in Nat /\ 4 \in Nat /\ 6 \in Nat /\ 8 \in Nat /\ 10 \in Nat
      /\ 12 \in Nat /\ 14 \in Nat /\ 16 \in Nat
  OBVIOUS
<1>9. /\ t.sqNum[1] \in Words16 /\ t.sqNum[2] \in Words16
      /\ t.ackNum[1] \in Words16 /\ t.ackNum[2] \in Words16
      /\ t.sqNum = << t.sqNum[1], t.sqNum[2] >> /\ t.ackNum = << t.ackNum[1], t.ackNum[2] >>
  BY <1>4
<1>10. /\ ntohs(f, at + 0) = t.src /\ ntohs(f, at + 2) = t.dst
       /\ ntohs(f, at + 4) = t.sqNum[1] /\ ntohs(f, at + 6) = t.sqNum[2]
       /\ ntohs(f, at + 8) = t.ackNum[1] /\ ntohs(f, at + 10) = t.ackNum[2]
       /\ ntohs(f, at + 14) = t.winSize /\ ntohs(f, at + 16) = ck
  BY <1>2, <1>4, <1>6, <1>7, <1>8, <1>9, Zenon DEF ck
<1>11. at + 0 = at /\ (at + 4) + 2 = at + 6 /\ (at + 8) + 2 = at + 10
  BY <1>2
<1>12. ntohl(f, at + 4) = t.sqNum /\ ntohl(f, at + 8) = t.ackNum
  <2>1. /\ ntohl(f, at + 4) = << ntohs(f, at + 4), ntohs(f, at + 6) >>
        /\ ntohl(f, at + 8) = << ntohs(f, at + 8), ntohs(f, at + 10) >>
    BY <1>11, Zenon DEF ntohl
  <2> QED
    BY <1>9, <1>10, <2>1, Zenon
<1> DEFINE both == 256 * 80 + SumSet(t.flags)
<1>13. SumSet(t.flags) \in Bytes
       /\ \A b \in {1, 2, 4, 16} : Bit(both, b) <=> b \in t.flags
  BY <1>4, FlagsAreRead
<1>14. flgs = both
  <2> DEFINE fl == << 80, SumSet(t.flags) >>
  <2>1. 80 \in Bytes
    BY ByteIs
  <2>2. fl \in Seq(Bytes) /\ Len(fl) = 2 /\ fl[1] = 80 /\ fl[2] = SumSet(t.flags)
    BY <1>13, <2>1
  <2>3. Has(seg, 12, fl)
    BY <1>7
  <2> HIDE DEF fl
  <2>4. Has(f, at + 12, fl)
    BY <1>2, <1>8, <2>2, <2>3, Zenon
  <2>5. 1 \in 1 .. Len(fl) /\ 2 \in 1 .. Len(fl)
    BY <2>2
  <2>6. f[(at + 12) + 1] = 80 /\ f[(at + 12) + 2] = SumSet(t.flags)
    BY <2>2, <2>4, <2>5, Zenon DEF Has
  <2>7. flgs = 256 * f[(at + 12) + 1] + f[(at + 12) + 2]
    BY Zenon DEF ntohs
  <2> QED
    BY <2>6, <2>7
<1> HIDE DEF flgs, both
<1>15. \A b \in {1, 2, 4, 16} : Bit(flgs, b) <=> b \in t.flags
  BY ONLY <1>13, <1>14
<1>16. {b \in {16, 2, 4, 1} : Bit(flgs, b)} = t.flags \cap {16, 4, 2, 1}
  BY <1>15
<1>17. printACKNum(t.ackNum, flgs)
         = IF 16 \in t.flags /\ t.ackNum # << 0, 0 >> THEN t.ackNum ELSE << >>
  <2>1. Bit(flgs, 16) <=> 16 \in t.flags
    BY <1>15
  <2> QED
    BY <2>1 DEF printACKNum
<1>18. printTCPHeader(at, f, h)
         = [header |-> "TCP", src |-> ntohs(f, at), dst |-> ntohs(f, at + 2),
            sqNum |-> ntohl(f, at + 4), ackNum |-> printACKNum(ntohl(f, at + 8), flgs),
            flags |-> {b \in {16, 2, 4, 1} : Bit(flgs, b)}, winSize |-> ntohs(f, at + 14),
            checksum |-> ntohs(f, at + 16), verdict |-> findTCP_CS(at, f, h)]
  BY Zenon DEF printTCPHeader, flgs
<1> DEFINE ack == IF 16 \in t.flags /\ t.ackNum # << 0, 0 >> THEN t.ackNum ELSE << >>
<1>19. TcpReport(t, ip)
         = [header |-> "TCP", src |-> t.src, dst |-> t.dst, sqNum |-> t.sqNum,
            ackNum |-> ack, flags |-> t.flags \cap {16, 4, 2, 1}, winSize |-> t.winSize,
            checksum |-> ck, verdict |-> "Correct"]
  BY Zenon DEF TcpReport, ck
<1>20. printACKNum(ntohl(f, at + 8), flgs) = ack
  BY <1>12, <1>17, Zenon
<1>21. ntohs(f, at) = t.src
  BY <1>10, <1>11, Zenon
<1> HIDE DEF ack
<1>22. printTCPHeader(at, f, h) = TcpReport(t, ip)
  BY <1>5, <1>10, <1>12, <1>16, <1>18, <1>19, <1>20, <1>21, Zenon
<1> QED
  BY <1>22 DEF at, f, h, t, ip

LEMMA UdpIsRight ==
  ASSUME NEW p, IsFrame(p), p.type = "IP", p.next.protocol = "UDP"
  PROVE  printUDPHeader(14 + HeaderLen(p.next), frameOf(p)) = UdpReport(p.next.next)
<1> DEFINE f  == frameOf(p)
           ip == p.next
           t  == ip.next
           at == 14 + HeaderLen(ip)
           seg == segmentOf(ip)
<1>1. /\ at \in Nat /\ IsIpPacket(ip) /\ NextFields(ip, seg)
      /\ \A m \in Nat, w \in Words16 : Has(seg, m, word(w)) => ntohs(f, at + m) = w
  BY SegmentRead
<1>2. t \in UdpHeaders
  BY <1>1, NextTyped
<1>3. t.src \in Words16 /\ t.dst \in Words16
  BY <1>2, Zenon DEF UdpHeaders
<1>4. Has(seg, 0, word(t.src)) /\ Has(seg, 2, word(t.dst))
  BY <1>1 DEF NextFields
<1> HIDE DEF f, at, seg, t
<1>5. 0 \in Nat /\ 2 \in Nat
  OBVIOUS
<1>6. ntohs(f, at + 0) = t.src /\ ntohs(f, at + 2) = t.dst
  BY <1>1, <1>3, <1>4, <1>5, Zenon
<1>7. at + 0 = at
  BY <1>1
<1>8. printUDPHeader(at, f) = UdpReport(t)
  BY <1>6, <1>7, Zenon DEF printUDPHeader, UdpReport
<1> QED
  BY <1>8 DEF at, f, t, ip

LEMMA IcmpIsRight ==
  ASSUME NEW p, IsFrame(p), p.type = "IP", p.next.protocol = "ICMP"
  PROVE  printICMPHeader(14 + HeaderLen(p.next), frameOf(p)) = IcmpReport(p.next.next)
<1> DEFINE f  == frameOf(p)
           ip == p.next
           t  == ip.next
           at == 14 + HeaderLen(ip)
           seg == segmentOf(ip)
           b  == << t.type, 0, 0, 0 >>
<1>1. /\ at \in Nat /\ IsIpPacket(ip) /\ NextFields(ip, seg)
      /\ \A m \in Nat, x \in Seq(Bytes) : Has(seg, m, x) => Has(f, at + m, x)
  BY SegmentRead
<1>2. t \in IcmpHeaders
  BY <1>1, NextTyped
<1>3. t.type \in Bytes
  BY <1>2, Zenon DEF IcmpHeaders
<1>4. Has(seg, 0, b)
  BY <1>1 DEF NextFields
<1>5. b \in Seq(Bytes) /\ Len(b) = 4 /\ b[1] = t.type
  <2>1. 0 \in Bytes
    BY ByteIs
  <2> QED
    BY <1>3, <2>1
<1> HIDE DEF f, at, seg, t, b
<1>6. 0 \in Nat /\ 1 \in 1 .. Len(b)
  BY <1>5
<1>7. Has(f, at + 0, b)
  BY <1>1, <1>4, <1>5, <1>6, Zenon
<1>8. f[(at + 0) + 1] = t.type
  BY <1>5, <1>6, <1>7, Zenon DEF Has
<1>9. (at + 0) + 1 = at + 1
  BY <1>1
<1>10. getPingType(t.type)
         = IF t.type = 0 THEN "Reply" ELSE IF t.type = 8 THEN "Request" ELSE "109"
  BY DEF getPingType
<1>11. printICMPHeader(at, f) = IcmpReport(t)
  BY <1>8, <1>9, <1>10, Zenon DEF printICMPHeader, IcmpReport
<1> QED
  BY <1>11 DEF at, f, t, ip

\* The fields of ARP in its bytes, and the bytes in the frame.
ArpFields(h, a) ==
  /\ Has(h, 6, OpcodeWord[a.opcode]) /\ Has(h, 8, a.senderMac) /\ Has(h, 14, a.senderIP)
  /\ Has(h, 18, a.targetMac) /\ Has(h, 24, a.targetIP)

LEMMA ArpTyped ==
  ASSUME NEW a \in ArpHeaders
  PROVE  /\ a.opcode \in {"Request", "Reply", "Unknown"}
         /\ a.senderMac \in Seq(Bytes) /\ Len(a.senderMac) = 6
         /\ a.senderIP \in Seq(Bytes) /\ Len(a.senderIP) = 4
         /\ a.targetMac \in Seq(Bytes) /\ Len(a.targetMac) = 6
         /\ a.targetIP \in Seq(Bytes) /\ Len(a.targetIP) = 4
         /\ OpcodeWord[a.opcode] \in Seq(Bytes) /\ Len(OpcodeWord[a.opcode]) = 2
         /\ a = [opcode |-> a.opcode, senderMac |-> a.senderMac, senderIP |-> a.senderIP,
                 targetMac |-> a.targetMac, targetIP |-> a.targetIP]
<1>1. /\ a.opcode \in DOMAIN OpcodeWord
      /\ a.senderMac \in BytesOf(6) /\ a.senderIP \in BytesOf(4)
      /\ a.targetMac \in BytesOf(6) /\ a.targetIP \in BytesOf(4)
  BY Zenon DEF ArpHeaders
<1>2. a = [opcode |-> a.opcode, senderMac |-> a.senderMac, senderIP |-> a.senderIP,
           targetMac |-> a.targetMac, targetIP |-> a.targetIP]
  BY DEF ArpHeaders
<1>3. a.opcode \in {"Request", "Reply", "Unknown"}
  BY <1>1 DEF OpcodeWord
<1>4. /\ OpcodeWord["Request"] = << 0, 1 >> /\ OpcodeWord["Reply"] = << 0, 2 >>
      /\ OpcodeWord["Unknown"] = << 1, 1 >>
  BY DEF OpcodeWord
<1>5. 0 \in Bytes /\ 1 \in Bytes /\ 2 \in Bytes
  BY ByteIs
<1>6. /\ << 0, 1 >> \in Seq(Bytes) /\ Len(<< 0, 1 >>) = 2
      /\ << 0, 2 >> \in Seq(Bytes) /\ Len(<< 0, 2 >>) = 2
      /\ << 1, 1 >> \in Seq(Bytes) /\ Len(<< 1, 1 >>) = 2
  BY <1>5
<1>7. OpcodeWord[a.opcode] \in Seq(Bytes) /\ Len(OpcodeWord[a.opcode]) = 2
  BY <1>3, <1>4, <1>6, Zenon
<1>8. /\ a.senderMac \in Seq(Bytes) /\ Len(a.senderMac) = 6
      /\ a.senderIP \in Seq(Bytes) /\ Len(a.senderIP) = 4
      /\ a.targetMac \in Seq(Bytes) /\ Len(a.targetMac) = 6
      /\ a.targetIP \in Seq(Bytes) /\ Len(a.targetIP) = 4
  BY <1>1 DEF BytesOf
<1> QED
  BY <1>2, <1>3, <1>7, <1>8, Zenon

LEMMA ArpLayout ==
  ASSUME NEW a \in ArpHeaders
  PROVE  arpBytes(a) \in Seq(Bytes) /\ ArpFields(arpBytes(a), a)
<1> DEFINE c  == << 0, 1, 8, 0, 6, 4 >>
           o  == OpcodeWord[a.opcode]
           sm == a.senderMac
           si == a.senderIP
           tm == a.targetMac
           ti == a.targetIP
           h2 == c \o o
           h3 == h2 \o sm
           h4 == h3 \o si
           h5 == h4 \o tm
           h6 == h5 \o ti
<1>1. /\ sm \in Seq(Bytes) /\ Len(sm) = 6 /\ si \in Seq(Bytes) /\ Len(si) = 4
      /\ tm \in Seq(Bytes) /\ Len(tm) = 6 /\ ti \in Seq(Bytes) /\ Len(ti) = 4
      /\ o \in Seq(Bytes) /\ Len(o) = 2
  BY ArpTyped, Zenon
<1>2. c \in Seq(Bytes) /\ Len(c) = 6
  <2>1. 0 \in Bytes /\ 1 \in Bytes /\ 8 \in Bytes /\ 6 \in Bytes /\ 4 \in Bytes
    BY ByteIs
  <2> QED
    BY <2>1
<1> HIDE DEF c, o, sm, si, tm, ti
<1>3. h2 \in Seq(Bytes) /\ Len(h2) = 8 /\ Has(h2, 6, o)
  <2>1. h2 \in Seq(Bytes) /\ Len(h2) = Len(c) + Len(o) /\ Has(h2, Len(c), o)
    BY <1>1, <1>2, KeepsBehind
  <2> QED
    BY <1>1, <1>2, <2>1
<1> HIDE DEF h2
<1>4. h3 \in Seq(Bytes) /\ Len(h3) = 14 /\ Has(h3, 8, sm) /\ Keeps(h2, h3)
  <2>1. /\ h3 \in Seq(Bytes) /\ Len(h3) = Len(h2) + Len(sm) /\ Has(h3, Len(h2), sm)
        /\ Keeps(h2, h3)
    BY <1>1, <1>3, KeepsBehind
  <2> QED
    BY <1>1, <1>3, <2>1
<1> HIDE DEF h3
<1>5. h4 \in Seq(Bytes) /\ Len(h4) = 18 /\ Has(h4, 14, si) /\ Keeps(h3, h4)
  <2>1. /\ h4 \in Seq(Bytes) /\ Len(h4) = Len(h3) + Len(si) /\ Has(h4, Len(h3), si)
        /\ Keeps(h3, h4)
    BY <1>1, <1>4, KeepsBehind
  <2> QED
    BY <1>1, <1>4, <2>1
<1> HIDE DEF h4
<1>6. h5 \in Seq(Bytes) /\ Len(h5) = 24 /\ Has(h5, 18, tm) /\ Keeps(h4, h5)
  <2>1. /\ h5 \in Seq(Bytes) /\ Len(h5) = Len(h4) + Len(tm) /\ Has(h5, Len(h4), tm)
        /\ Keeps(h4, h5)
    BY <1>1, <1>5, KeepsBehind
  <2> QED
    BY <1>1, <1>5, <2>1
<1> HIDE DEF h5
<1>7. h6 \in Seq(Bytes) /\ Has(h6, 24, ti) /\ Keeps(h5, h6)
  <2>1. h6 \in Seq(Bytes) /\ Has(h6, Len(h5), ti) /\ Keeps(h5, h6)
    BY <1>1, <1>6, KeepsBehind
  <2> QED
    BY <1>6, <2>1
<1>8. h6 = arpBytes(a)
  BY Zenon DEF h6, h5, h4, h3, h2, c, o, sm, si, tm, ti, arpBytes
<1> HIDE DEF h6
<1>9. /\ 6 \in Nat /\ 8 \in Nat /\ 14 \in Nat /\ 18 \in Nat
  OBVIOUS
<1>10. Has(h6, 6, o) /\ Has(h6, 8, sm) /\ Has(h6, 14, si) /\ Has(h6, 18, tm)
  BY <1>1, <1>3, <1>4, <1>5, <1>6, <1>7, <1>9, Zenon DEF Keeps
<1> QED
  BY <1>7, <1>8, <1>10, Zenon DEF ArpFields, o, sm, si, tm, ti

LEMMA ArpFrameLayout ==
  ASSUME NEW p, IsFrame(p), p.type = "ARP"
  PROVE  /\ frameOf(p) \in Seq(Bytes) /\ EthFields(frameOf(p), p)
         /\ Has(frameOf(p), 20, OpcodeWord[p.next.opcode])
         /\ Has(frameOf(p), 22, p.next.senderMac) /\ Has(frameOf(p), 28, p.next.senderIP)
         /\ Has(frameOf(p), 32, p.next.targetMac) /\ Has(frameOf(p), 38, p.next.targetIP)
<1> DEFINE a == p.next
           b == arpBytes(a)
           d == p.padding
           r == b \o d
           f == frameOf(p)
<1>1. a \in ArpHeaders /\ d \in Seq(Bytes)
  BY FrameTyped, Zenon
<1>2. b \in Seq(Bytes) /\ ArpFields(b, a)
  BY <1>1, ArpLayout
<1>3. f = p.dst \o p.src \o EthernetType[p.type] \o r
  BY Zenon DEF frameOf
<1>4. /\ a.senderMac \in Seq(Bytes) /\ a.senderIP \in Seq(Bytes) /\ a.targetMac \in Seq(Bytes)
      /\ a.targetIP \in Seq(Bytes) /\ OpcodeWord[a.opcode] \in Seq(Bytes)
  BY <1>1, ArpTyped, Zenon
<1> HIDE DEF a, b, d, f
<1>5. r \in Seq(Bytes) /\ Keeps(b, r)
  BY <1>1, <1>2, KeepsBehind
<1> HIDE DEF r
<1>6. f \in Seq(Bytes) /\ EthFields(f, p) /\ Has(f, 14, r)
  BY <1>3, <1>5, EthLayout
<1>7. \A n \in Nat, x \in Seq(Bytes) : Has(r, n, x) => Has(f, 14 + n, x)
  <2>1. 14 \in Nat
    OBVIOUS
  <2> QED
    BY <1>5, <1>6, <2>1, HasInside
<1>8. /\ 6 \in Nat /\ 8 \in Nat /\ 14 \in Nat /\ 18 \in Nat /\ 24 \in Nat
      /\ 14 + 6 = 20 /\ 14 + 8 = 22 /\ 14 + 14 = 28 /\ 14 + 18 = 32 /\ 14 + 24 = 38
  OBVIOUS
<1>9. /\ Has(b, 6, OpcodeWord[a.opcode]) /\ Has(b, 8, a.senderMac) /\ Has(b, 14, a.senderIP)
      /\ Has(b, 18, a.targetMac) /\ Has(b, 24, a.targetIP)
  BY <1>2 DEF ArpFields
<1>10. /\ Has(r, 6, OpcodeWord[a.opcode]) /\ Has(r, 8, a.senderMac) /\ Has(r, 14, a.senderIP)
       /\ Has(r, 18, a.targetMac) /\ Has(r, 24, a.targetIP)
  BY <1>4, <1>5, <1>8, <1>9, Zenon DEF Keeps
<1>11. /\ Has(f, 14 + 6, OpcodeWord[a.opcode]) /\ Has(f, 14 + 8, a.senderMac)
       /\ Has(f, 14 + 14, a.senderIP)
       /\ Has(f, 14 + 18, a.targetMac) /\ Has(f, 14 + 24, a.targetIP)
  BY <1>4, <1>7, <1>8, <1>10, Zenon
<1> QED
  BY <1>6, <1>8, <1>11 DEF f, a

LEMMA ArpIsRight ==
  ASSUME NEW p, IsFrame(p), p.type = "ARP"
  PROVE  outputArpHeader(frameOf(p)) = p.next
<1> DEFINE f == frameOf(p)
           a == p.next
           o == OpcodeWord[a.opcode]
<1>1. a \in ArpHeaders
  BY FrameTyped, Zenon
<1>2. /\ f \in Seq(Bytes) /\ Has(f, 20, o)
      /\ Has(f, 22, a.senderMac) /\ Has(f, 28, a.senderIP)
      /\ Has(f, 32, a.targetMac) /\ Has(f, 38, a.targetIP)
  BY ArpFrameLayout
<1>3. /\ a.senderMac \in Seq(Bytes) /\ Len(a.senderMac) = 6
      /\ a.senderIP \in Seq(Bytes) /\ Len(a.senderIP) = 4
      /\ a.targetMac \in Seq(Bytes) /\ Len(a.targetMac) = 6
      /\ a.targetIP \in Seq(Bytes) /\ Len(a.targetIP) = 4
      /\ Len(o) = 2 /\ a.opcode \in {"Request", "Reply", "Unknown"}
  BY <1>1, ArpTyped, Zenon
<1> HIDE DEF f
<1>4. 22 \in Nat /\ 28 \in Nat /\ 32 \in Nat /\ 38 \in Nat
  OBVIOUS
<1>5. /\ octets(f, 22, Len(a.senderMac)) = a.senderMac
      /\ octets(f, 28, Len(a.senderIP)) = a.senderIP
      /\ octets(f, 32, Len(a.targetMac)) = a.targetMac
      /\ octets(f, 38, Len(a.targetIP)) = a.targetIP
  <2> HIDE DEF a
  <2> QED
    BY <1>2, <1>3, <1>4, HasOctets
<1>6. opCodeToStr(ntohs(f, 20)) = a.opcode
  <2>1. 1 \in 1 .. Len(o) /\ 2 \in 1 .. Len(o)
    BY <1>3
  <2>2. f[20 + 1] = o[1] /\ f[20 + 2] = o[2]
    BY <1>2, <2>1, Zenon DEF Has
  <2>3. /\ OpcodeWord["Request"] = << 0, 1 >> /\ OpcodeWord["Reply"] = << 0, 2 >>
        /\ OpcodeWord["Unknown"] = << 1, 1 >>
    BY DEF OpcodeWord
  <2>4. ntohs(f, 20) = 256 * o[1] + o[2]
    BY <2>2, Zenon DEF ntohs
  <2>5. \/ a.opcode = "Request" /\ o[1] = 0 /\ o[2] = 1
        \/ a.opcode = "Reply" /\ o[1] = 0 /\ o[2] = 2
        \/ a.opcode = "Unknown" /\ o[1] = 1 /\ o[2] = 1
    BY <1>3, <2>3
  <2> HIDE DEF o, a
  <2>6. \/ a.opcode = "Request" /\ ntohs(f, 20) = 1
        \/ a.opcode = "Reply" /\ ntohs(f, 20) = 2
        \/ a.opcode = "Unknown" /\ ntohs(f, 20) = 257
    BY <2>4, <2>5
  <2> QED
    BY <2>6 DEF opCodeToStr
<1> DEFINE h == createArpHeader(f)
<1>7. h = [opcode |-> ntohs(f, 20), senderMac |-> octets(f, 22, 6), targetMac |-> octets(f, 32, 6),
           senderIP |-> octets(f, 28, 4), targetIP |-> octets(f, 38, 4)]
  BY DEF createArpHeader, OPCODE_OFFSET, ETHER_ADDR_SIZE, ARP_IP_OFFSET, IP_ADDR_SIZE
<1> HIDE DEF h
<1>8. h = [opcode |-> ntohs(f, 20), senderMac |-> a.senderMac, targetMac |-> a.targetMac,
           senderIP |-> a.senderIP, targetIP |-> a.targetIP]
  BY <1>3, <1>5, <1>7, Zenon
<1>9. outputArpHeader(f) = [h EXCEPT !.opcode = opCodeToStr(@)]
  BY Zenon DEF outputArpHeader, h
<1>10. outputArpHeader(f)
         = [opcode |-> opCodeToStr(ntohs(f, 20)), senderMac |-> a.senderMac,
            targetMac |-> a.targetMac, senderIP |-> a.senderIP, targetIP |-> a.targetIP]
  BY <1>8, <1>9
<1>11. a = [opcode |-> a.opcode, senderMac |-> a.senderMac, senderIP |-> a.senderIP,
            targetMac |-> a.targetMac, targetIP |-> a.targetIP]
  BY <1>1, ArpTyped, Zenon
<1>12. outputArpHeader(f) = a
  <2> HIDE DEF a
  <2> QED
    BY <1>6, <1>10, <1>11
<1> QED
  BY <1>12 DEF f, a

\* All of it.
LEMMA ReportIsRight ==
  ASSUME NEW p, IsPacket(p), p.at = 0, NEW k
  PROVE  printHeader(Arrived(p), Len(Arrived(p)), k) = Expected(p.sent, k)
<1> DEFINE q == p.sent
           f == frameOf(q)
           e == outputEthHeader(f, Len(f), k)
<1>1. IsFrame(q) /\ Arrived(p) = f
  BY DEF IsPacket, Arrived
<1>2. q.type \in {"IP", "ARP", "Unknown"}
  BY <1>1, FrameTyped, Zenon
<1>3. f \in Seq(Bytes) /\ EthFields(f, q)
  <2>1. CASE q.type = "IP"
    BY <1>1, <2>1, IpFrameLayout
  <2>2. CASE q.type = "ARP"
    BY <1>1, <2>2, ArpFrameLayout
  <2>3. CASE q.type = "Unknown"
    <3>1. f = q.dst \o q.src \o EthernetType[q.type] \o q.padding
      BY <2>3 DEF frameOf
    <3>2. q.padding \in Seq(Bytes)
      BY <1>1, FrameTyped, Zenon
    <3> HIDE DEF f
    <3> QED
      BY <1>1, <3>1, <3>2, EthLayout
  <2> QED
    BY <1>2, <2>1, <2>2, <2>3
<1>4. e = EthReport(q, k)
  BY <1>1, <1>3, EthIsRight
<1>5. /\ q.type = "IP" => createEthHeader(f).type = IP
      /\ q.type = "ARP" => createEthHeader(f).type = ARP
      /\ q.type = "Unknown" => createEthHeader(f).type \notin {IP, ARP}
  <2>1. Has(f, 12, EthernetType[q.type])
    BY <1>3 DEF EthFields
  <2> HIDE DEF f, q
  <2> QED
    BY <1>2, <2>1, EthRead
<1>6. CASE q.type = "ARP"
  <2>1. printHeader(f, Len(f), k) = << e >> \o << outputArpHeader(f) >>
    <3>1. createEthHeader(f).type = ARP
      BY <1>5, <1>6
    <3> HIDE DEF f
    <3> QED
      BY <3>1 DEF printHeader, ARP, IP
  <2>2. outputArpHeader(f) = q.next
    BY <1>1, <1>6, ArpIsRight
  <2>3. Expected(q, k) = << EthReport(q, k) >> \o << q.next >>
    <3> HIDE DEF q
    <3> QED
      BY <1>6 DEF Expected
  <2> HIDE DEF f, q, e
  <2>4. printHeader(f, Len(f), k) = Expected(q, k)
    BY <1>4, <2>1, <2>2, <2>3, Zenon
  <2> QED
    BY <1>1, <2>4 DEF q
<1>7. CASE q.type = "Unknown"
  <2>1. printHeader(f, Len(f), k) = << e >> \o << >>
    <3>1. createEthHeader(f).type # ARP /\ createEthHeader(f).type # IP
      BY <1>5, <1>7
    <3> HIDE DEF f
    <3> QED
      BY <3>1 DEF printHeader
  <2>2. Expected(q, k) = << EthReport(q, k) >> \o << >>
    <3> HIDE DEF q
    <3> QED
      BY <1>7 DEF Expected
  <2> HIDE DEF f, q, e
  <2>3. printHeader(f, Len(f), k) = Expected(q, k)
    BY <1>4, <2>1, <2>2, Zenon
  <2> QED
    BY <1>1, <2>3 DEF q
<1>8. CASE q.type = "IP"
  <2> DEFINE ip == q.next
             h == createIpHeader(f)
             at == 14 + HeaderLen(ip)
  <2>1. IsIpPacket(ip)
    BY <1>1, <1>8, FrameTyped, Zenon
  <2>2. ip.protocol \in {"TCP", "ICMP", "UDP", "Unknown"}
    BY <2>1, IpTyped
  <2>3. h.headerLen = HeaderLen(ip) /\ h.protocol = ProtocolByte[ip.protocol]
    BY <1>8, IpRead
  <2>4. printIpHeader(h) = IpReport(ip)
    BY <1>8, IpIsRight
  <2>5. /\ h.protocol = TCP => printHeader(f, Len(f), k)
                                = << e, printIpHeader(h), printTCPHeader(at, f, h) >>
        /\ h.protocol = ICMP => printHeader(f, Len(f), k)
                                 = << e, printIpHeader(h), printICMPHeader(at, f) >>
        /\ h.protocol = UDP => printHeader(f, Len(f), k)
                                = << e, printIpHeader(h), printUDPHeader(at, f) >>
        /\ h.protocol \notin {TCP, ICMP, UDP} =>
             printHeader(f, Len(f), k) = << e, printIpHeader(h) >>
    <3>1. createEthHeader(f).type = IP
      BY <1>5, <1>8
    <3>2. at = 14 + h.headerLen
      BY <2>3
    <3> HIDE DEF f, at
    <3> QED
      BY <3>1, <3>2, IpReports, Zenon
  <2>6. /\ ip.protocol = "TCP" => printTCPHeader(at, f, h) = TcpReport(ip.next, ip)
        /\ ip.protocol = "UDP" => printUDPHeader(at, f) = UdpReport(ip.next)
        /\ ip.protocol = "ICMP" => printICMPHeader(at, f) = IcmpReport(ip.next)
    BY <1>1, <1>8, TcpIsRight, UdpIsRight, IcmpIsRight, Zenon
  <2>7. /\ h.protocol = TCP <=> ip.protocol = "TCP"
        /\ h.protocol = ICMP <=> ip.protocol = "ICMP"
        /\ h.protocol = UDP <=> ip.protocol = "UDP"
    BY <2>2, <2>3, ProtocolNames
  <2> DEFINE next == CASE ip.protocol = "TCP"  -> << TcpReport(ip.next, ip) >>
                       [] ip.protocol = "UDP"  -> << UdpReport(ip.next) >>
                       [] ip.protocol = "ICMP" -> << IcmpReport(ip.next) >>
                       [] OTHER -> << >>
             r == IpReport(ip)
             g == EthReport(q, k)
  <2>8. Expected(q, k) = << g >> \o (<< r >> \o next)
    <3> HIDE DEF q
    <3> QED
      BY <1>8 DEF Expected
  <2>9. /\ ip.protocol = "TCP" => next = << TcpReport(ip.next, ip) >>
        /\ ip.protocol = "UDP" => next = << UdpReport(ip.next) >>
        /\ ip.protocol = "ICMP" => next = << IcmpReport(ip.next) >>
        /\ ip.protocol = "Unknown" => next = << >>
    <3> HIDE DEF ip
    <3> QED
      OBVIOUS
  <2> HIDE DEF f, q, e, ip, h, at, next, r, g
  <2>10. ASSUME NEW x
         PROVE  << g >> \o (<< r >> \o << x >>) = << g, r, x >>
    <3>1. << r >> \o << x >> = << r, x >> /\ << g >> \o << r, x >> = << g, r, x >>
      BY Reports, Zenon
    <3> QED
      BY <3>1, Zenon
  <2>11. << g >> \o (<< r >> \o << >>) = << g, r >>
    <3>1. << r >> \o << >> = << r >> /\ << g >> \o << r >> = << g, r >>
      BY Reports, Zenon
    <3> QED
      BY <3>1, Zenon
  <2>12. e = g /\ printIpHeader(h) = r
    BY <1>4, <2>4 DEF g, r
  <2>13. CASE ip.protocol = "TCP"
    <3>1. printHeader(f, Len(f), k) = << g, r, TcpReport(ip.next, ip) >>
      BY <2>5, <2>6, <2>7, <2>12, <2>13, Zenon
    <3>2. Expected(q, k) = << g, r, TcpReport(ip.next, ip) >>
      BY <2>8, <2>9, <2>10, <2>13, Zenon
    <3> QED
      BY <1>1, <3>1, <3>2, Zenon DEF q
  <2>14. CASE ip.protocol = "UDP"
    <3>1. printHeader(f, Len(f), k) = << g, r, UdpReport(ip.next) >>
      BY <2>5, <2>6, <2>7, <2>12, <2>14, Zenon
    <3>2. Expected(q, k) = << g, r, UdpReport(ip.next) >>
      BY <2>8, <2>9, <2>10, <2>14, Zenon
    <3> QED
      BY <1>1, <3>1, <3>2, Zenon DEF q
  <2>15. CASE ip.protocol = "ICMP"
    <3>1. printHeader(f, Len(f), k) = << g, r, IcmpReport(ip.next) >>
      BY <2>5, <2>6, <2>7, <2>12, <2>15, Zenon
    <3>2. Expected(q, k) = << g, r, IcmpReport(ip.next) >>
      BY <2>8, <2>9, <2>10, <2>15, Zenon
    <3> QED
      BY <1>1, <3>1, <3>2, Zenon DEF q
  <2>16. CASE ip.protocol = "Unknown"
    <3>1. h.protocol \notin {TCP, ICMP, UDP}
      BY <2>7, <2>16
    <3>2. printHeader(f, Len(f), k) = << g, r >>
      BY <2>5, <2>12, <3>1, Zenon
    <3>3. Expected(q, k) = << g, r >>
      BY <2>8, <2>9, <2>11, <2>16, Zenon
    <3> QED
      BY <1>1, <3>2, <3>3, Zenon DEF q
  <2> QED
    BY <2>2, <2>13, <2>14, <2>15, <2>16
<1> QED
  BY <1>2, <1>6, <1>7, <1>8

-----------------------------------------------------------------------------
\* The report of the k-th packet of the capture
ReportOf(p, k) == printHeader(Arrived(p), Len(Arrived(p)), k)

\* The reports of the packets captured, in their order
Reported(packets) == [k \in 1 .. Len(packets) |-> ReportOf(packets[k], k)]

\* What every state of the printer satisfies: a capture of packets, all of them
\* reported, and one report more at most, of a capture that broke off.
TraceInv ==
  /\ captured \in Seq(Packets)
  /\ ret \in {0, 1, -1, -2}
  /\ \/ shown = Reported(captured)
     \/ ret = -1 /\ shown = Append(Reported(captured), Garbage)

LEMMA ReportedIs ==
  ASSUME NEW packets \in Seq(Packets), NEW e
  PROVE  \E S : Reported(packets) \in Seq(S) /\ e \in S
<1> DEFINE r == Reported(packets)
           S == {r[k] : k \in 1 .. Len(packets)} \cup {e}
<1>1. Len(packets) \in Nat
  BY LenProperties
<1>2. DOMAIN r = 1 .. Len(packets) /\ \A k \in 1 .. Len(packets) : r[k] \in S
  BY DEF Reported
<1>3. r \in [1 .. Len(packets) -> S]
  BY <1>2 DEF Reported
<1>4. r \in Seq(S)
  BY <1>1, <1>3, SeqDef
<1> QED
  BY <1>4

LEMMA ReportedLen ==
  ASSUME NEW packets \in Seq(Packets)
  PROVE  /\ Len(Reported(packets)) = Len(packets) /\ Len(packets) \in Nat
         /\ \A k \in 1 .. Len(packets) : Reported(packets)[k] = ReportOf(packets[k], k)
<1>1. Len(packets) \in Nat
  BY LenProperties
<1>2. PICK S : Reported(packets) \in Seq(S)
  BY ReportedIs
<1>3. DOMAIN Reported(packets) = 1 .. Len(packets)
  BY DEF Reported
<1>4. Len(Reported(packets)) \in Nat /\ DOMAIN Reported(packets) = 1 .. Len(Reported(packets))
  BY <1>2, LenProperties
<1>5. Len(Reported(packets)) = Len(packets)
  BY <1>1, <1>3, <1>4
<1> QED
  BY <1>1, <1>5 DEF Reported

LEMMA ReportedMore ==
  ASSUME NEW packets \in Seq(Packets), NEW p \in Packets
  PROVE  Reported(Append(packets, p))
           = Append(Reported(packets), ReportOf(p, Len(packets) + 1))
<1> DEFINE n == Len(packets)
           e == ReportOf(p, n + 1)
           more == Append(packets, p)
<1>1. n \in Nat /\ Len(Reported(packets)) = n
  BY ReportedLen
<1>2. PICK S : Reported(packets) \in Seq(S) /\ e \in S
  BY ReportedIs
<1>3. /\ Len(Append(Reported(packets), e)) = n + 1
      /\ Append(Reported(packets), e) \in Seq(S)
      /\ \A k \in 1 .. n : Append(Reported(packets), e)[k] = Reported(packets)[k]
      /\ Append(Reported(packets), e)[n + 1] = e
  BY <1>1, <1>2, AppendProperties
<1>4. /\ more \in Seq(Packets) /\ Len(more) = n + 1
      /\ \A k \in 1 .. n : more[k] = packets[k]
      /\ more[n + 1] = p
  BY AppendProperties
<1>5. /\ Len(Reported(more)) = n + 1
      /\ \A k \in 1 .. n + 1 : Reported(more)[k] = ReportOf(more[k], k)
  BY <1>4, ReportedLen
<1>6. PICK T : Reported(more) \in Seq(T)
  BY <1>4, ReportedIs
<1>7. \A k \in 1 .. n : Reported(packets)[k] = ReportOf(packets[k], k)
  BY ReportedLen
<1> DEFINE old == Append(Reported(packets), e)
           new == Reported(more)
<1> HIDE DEF n, more, old, new
<1>8. \A k \in 1 .. n + 1 : new[k] = old[k]
  <2>1. ASSUME NEW k \in 1 .. n + 1
        PROVE  new[k] = old[k]
    <3>1. CASE k \in 1 .. n
      BY <1>3, <1>4, <1>5, <1>7, <3>1 DEF new, old
    <3>2. CASE k = n + 1
      BY <1>3, <1>4, <1>5, <3>2 DEF new, old, e
    <3> QED
      BY <1>1, <3>1, <3>2
  <2> QED
    BY <2>1
<1>9. new \in Seq(S \cup T) /\ old \in Seq(S \cup T) /\ Len(new) = Len(old)
  BY <1>3, <1>5, <1>6 DEF new, old
<1>10. Len(new) = n + 1
  BY <1>5 DEF new
<1>11. new = old
  BY <1>8, <1>9, <1>10, SeqEqual
<1> QED
  BY <1>11 DEF new, old, more, n

\* Every step of printAllHeaders() reports the packet it has read.
THEOREM TraceInvHolds == Spec => []TraceInv
<1>1. Init => TraceInv
  <2>1. << >> \in Seq(Packets) /\ Len(<< >>) = 0
    OBVIOUS
  <2>2. Reported(<< >>) = << >>
    <3>1. 1 .. 0 = {}
      OBVIOUS
    <3> QED
      BY <2>1, <3>1 DEF Reported
  <2> QED
    BY <2>1, <2>2 DEF Init, TraceInv
<1>2. TraceInv /\ [Next]_vars => TraceInv'
  <2> SUFFICES ASSUME TraceInv, [Next]_vars
               PROVE  TraceInv'
    OBVIOUS
  <2>1. CASE OpenFails \/ OpenCapture \/ EndOfCapture
    BY <2>1 DEF TraceInv, OpenFails, OpenCapture, EndOfCapture
  <2>2. CASE PrintNext
    <3>1. PICK p \in Packets : captured' = Append(captured, p) /\ Shows(p)
      BY <2>2 DEF PrintNext
    <3>2. shown = Reported(captured) /\ ret' = ret /\ ret = 1
      BY <2>2 DEF PrintNext, TraceInv
    <3>3. captured \in Seq(Packets) /\ Len(shown) = Len(captured)
      BY <3>2, ReportedLen DEF TraceInv
    <3>4. shown' = Append(Reported(captured), ReportOf(p, Len(captured) + 1))
      BY <3>1, <3>2, <3>3 DEF Shows, ReportOf
    <3>5. shown' = Reported(captured')
      BY <3>1, <3>3, <3>4, ReportedMore
    <3>6. captured' \in Seq(Packets)
      BY <3>1, <3>3, AppendProperties
    <3> QED
      BY <3>2, <3>5, <3>6 DEF TraceInv
  <2>3. CASE BrokenCapture
    BY <2>3 DEF TraceInv, BrokenCapture
  <2>4. CASE UNCHANGED vars
    BY <2>4 DEF TraceInv, vars
  <2> QED
    BY <2>1, <2>2, <2>3, <2>4 DEF Next
<1> QED
  BY <1>1, <1>2, PTL DEF Spec

\* What the invariant says of one packet and of how many reports there are.
LEMMA Shown ==
  ASSUME TraceInv
  PROVE  /\ \A k \in DOMAIN captured :
              captured[k] \in Packets /\ shown[k] = ReportOf(captured[k], k)
         /\ Len(shown) \in Len(captured) .. Len(captured) + (IF ret = -1 THEN 1 ELSE 0)
<1>1. captured \in Seq(Packets)
  BY DEF TraceInv
<1> DEFINE n == Len(captured)
           r == Reported(captured)
<1>2. /\ n \in Nat /\ DOMAIN captured = 1 .. n
      /\ \A k \in 1 .. n : captured[k] \in Packets
  BY <1>1, LenProperties, ElementOfSeq
<1>3. Len(r) = n /\ \A k \in 1 .. n : r[k] = ReportOf(captured[k], k)
  BY <1>1, ReportedLen
<1>4. PICK S : r \in Seq(S) /\ Garbage \in S
  BY <1>1, ReportedIs
<1> HIDE DEF n, r
<1>5. /\ Len(shown) \in n .. n + (IF ret = -1 THEN 1 ELSE 0)
      /\ \A k \in 1 .. n : shown[k] = r[k]
  <2>1. CASE shown = r
    BY <1>2, <1>3, <2>1
  <2>2. CASE ret = -1 /\ shown = Append(r, Garbage)
    <3>1. Len(shown) = n + 1 /\ \A k \in 1 .. n : shown[k] = r[k]
      BY <1>3, <1>4, <2>2, AppendProperties
    <3> QED
      BY <1>2, <2>2, <3>1
  <2> QED
    BY <2>1, <2>2 DEF TraceInv, r
<1> QED
  BY <1>2, <1>3, <1>5 DEF n, r

\* The verdict on a checksum tells whether a byte it covers has changed: findIP_CS()
\* and findTCP_CS() over every frame and every byte.
THEOREM DamageSeen == Spec => []DamageIsSeen
<1>1. TraceInv => DamageIsSeen
  <2> SUFFICES ASSUME TraceInv, NEW k \in DOMAIN captured
               PROVE  LET p == captured[k]
                          report == shown[k]
                          isIp == p.at \notin {13, 14} /\ p.sent.type = "IP"
                      IN  /\ isIp /\ p.at # 15 =>
                               report[2].checksum_flg = Verdict(p.at \notin ipArea(p.sent))
                          /\ isIp /\ p.sent.next.protocol = "TCP"
                               /\ p.at \notin {15, 17, 18, 24} =>
                               report[3].verdict = Verdict(p.at \notin tcpArea(p.sent))
    BY DEF DamageIsSeen
  <2> DEFINE p == captured[k]
             pkt == Arrived(p)
  <2>1. p \in Packets /\ shown[k] = printHeader(pkt, Len(pkt), k)
    BY Shown DEF ReportOf
  <2>2. IsPacket(p)
    BY <2>1, TraceAssumption
  <2>3. ASSUME p.sent.type = "IP", p.at \notin {13, 14, 15}
        PROVE  shown[k][2].checksum_flg = Verdict(p.at \notin ipArea(p.sent))
    <3> HIDE DEF p
    <3>1. printHeader(pkt, Len(pkt), k)[2].checksum_flg = Verdict(p.at \notin ipArea(p.sent))
      BY <2>2, <2>3, IpDamage
    <3> QED
      BY <2>1, <3>1
  <2>4. ASSUME p.sent.type = "IP", p.sent.next.protocol = "TCP",
               p.at \notin {13, 14, 15, 17, 18, 24}
        PROVE  shown[k][3].verdict = Verdict(p.at \notin tcpArea(p.sent))
    <3> HIDE DEF p
    <3>1. printHeader(pkt, Len(pkt), k)[3].verdict = Verdict(p.at \notin tcpArea(p.sent))
      BY <2>2, <2>4, TcpDamage
    <3> QED
      BY <2>1, <3>1
  <2> QED
    BY <2>3, <2>4
<1> QED
  BY <1>1, TraceInvHolds, PTL

\* What printAllHeaders() prints are the fields of each packet, in order, once each.
THEOREM ReportsRight == Spec => []ReportsArePackets
<1>1. TraceInv => ReportsArePackets
  <2> SUFFICES ASSUME TraceInv
               PROVE  /\ \A k \in DOMAIN captured :
                           captured[k].at = 0 => shown[k] = Expected(captured[k].sent, k)
                      /\ Len(shown) \in
                           Len(captured) .. Len(captured) + (IF ret = -1 THEN 1 ELSE 0)
    BY DEF ReportsArePackets
  <2>1. Len(shown) \in Len(captured) .. Len(captured) + (IF ret = -1 THEN 1 ELSE 0)
    BY Shown
  <2>2. ASSUME NEW k \in DOMAIN captured, captured[k].at = 0
        PROVE  shown[k] = Expected(captured[k].sent, k)
    <3> DEFINE p == captured[k]
    <3>1. p \in Packets /\ shown[k] = printHeader(Arrived(p), Len(Arrived(p)), k)
      BY Shown DEF ReportOf
    <3>2. IsPacket(p)
      BY <3>1, TraceAssumption
    <3>3. p.at = 0
      BY <2>2
    <3> HIDE DEF p
    <3>4. printHeader(Arrived(p), Len(Arrived(p)), k) = Expected(p.sent, k)
      BY <3>2, <3>3, ReportIsRight
    <3> QED
      BY <3>1, <3>4 DEF p
  <2> QED
    BY <2>1, <2>2
<1> QED
  BY <1>1, TraceInvHolds, PTL
=============================================================================

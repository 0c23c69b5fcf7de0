------------------------------ MODULE DataLemmas ------------------------------
(***************************************************************************)
(* Facts about integers and sequences that the proofs share.                 *)
(*                                                                           *)
(* Why a ring buffer indexed by sequence number modulo its size works: fewer *)
(* than W apart, two numbers share a slot only if they are equal; W in a row *)
(* take every slot.  The provers know no nonlinear arithmetic, so a product  *)
(* is hidden behind "is a multiple of".                                      *)
(*                                                                           *)
(* And what is left of a channel or a list when its i-th element is taken,   *)
(* and induction, from the order of Nat being well-founded.                  *)
(*                                                                           *)
(* Then the folds of the library as sums of a function, element by element,  *)
(* and what in_cksum() makes of such a sum: it is 0 exactly when the sum of  *)
(* the words is a multiple of 2^16 - 1 and not 0, and another byte always    *)
(* spoils that.  Numerals like 65536 are for the SMT solver only.            *)
(***************************************************************************)
EXTENDS InCksum, Integers, Sequences, SequencesExt, SequenceTheorems,
        FiniteSetTheorems, WellFoundedInduction, TLAPS

-----------------------------------------------------------------------------
(* Remainders. *)

IsMultiple(x, W) == \E q \in Int : x = W * q

\* Division with remainder.
LEMMA DivMod ==
  ASSUME NEW a \in Int, NEW W \in Nat \ {0}
  PROVE  \E x \in Int : /\ IsMultiple(x, W)
                        /\ a = x + (a % W)
                        /\ a % W \in 0 .. W - 1
<1>1. /\ a = W * (a \div W) + (a % W)
      /\ a % W \in 0 .. W - 1
      /\ a \div W \in Int
      /\ W * (a \div W) \in Int
  BY Z3
<1> QED
  BY <1>1, Zenon DEF IsMultiple

\* A multiple of W strictly between -W and W is 0.
LEMMA MultipleGap ==
  ASSUME NEW W \in Nat \ {0}, NEW x \in Int, IsMultiple(x, W), x < W, -W < x
  PROVE  x = 0
  BY Z3 DEF IsMultiple

\* The difference of two multiples is a multiple.
LEMMA MultipleDiff ==
  ASSUME NEW W \in Int, NEW x \in Int, NEW y \in Int,
         IsMultiple(x, W), IsMultiple(y, W)
  PROVE  IsMultiple(x - y, W)
<1>1. PICK q \in Int : x = W * q
  BY DEF IsMultiple
<1>2. PICK r \in Int : y = W * r
  BY DEF IsMultiple
<1>3. q - r \in Int /\ x - y = W * (q - r)
  BY <1>1, <1>2, Z3
<1> QED
  BY <1>3, Zenon DEF IsMultiple

\* The next multiple.
LEMMA MultipleNext ==
  ASSUME NEW W \in Int, NEW x \in Int, IsMultiple(x, W)
  PROVE  IsMultiple(x + W, W)
<1>1. PICK q \in Int : x = W * q
  BY DEF IsMultiple
<1>2. q + 1 \in Int /\ x + W = W * (q + 1)
  BY <1>1, Z3
<1> QED
  BY <1>2, Zenon DEF IsMultiple

\* A multiple of W plus a number below W leaves that number.
LEMMA ModUnique ==
  ASSUME NEW W \in Nat \ {0}, NEW x \in Int, IsMultiple(x, W),
         NEW i \in 0 .. W - 1
  PROVE  (x + i) % W = i
<1>1. PICK y \in Int : /\ IsMultiple(y, W)
                       /\ x + i = y + ((x + i) % W)
                       /\ (x + i) % W \in 0 .. W - 1
  <2>1. x + i \in Int
    OBVIOUS
  <2> QED
    BY <2>1, DivMod
<1>2. IsMultiple(x - y, W)
  BY <1>1, MultipleDiff
<1>3. x - y \in Int /\ x - y < W /\ -W < x - y
  BY <1>1
<1>4. x - y = 0
  BY <1>2, <1>3, MultipleGap
<1> QED
  BY <1>1, <1>4

\* The remainder is a slot of the ring.
LEMMA ModRange ==
  ASSUME NEW a \in Int, NEW W \in Nat \ {0}
  PROVE  a % W \in 0 .. W - 1
  BY Z3

\* Two numbers less than W apart that share a slot are equal.
LEMMA ModInjective ==
  ASSUME NEW W \in Nat \ {0}, NEW a \in Int, NEW b \in Int,
         a % W = b % W, a - b < W, b - a < W
  PROVE  a = b
<1>1. PICK x \in Int : /\ IsMultiple(x, W)
                       /\ a = x + (a % W)
                       /\ a % W \in 0 .. W - 1
  BY DivMod
<1>2. PICK y \in Int : IsMultiple(y, W) /\ b = y + (b % W)
  BY DivMod
<1>3. IsMultiple(x - y, W)
  BY <1>1, <1>2, MultipleDiff
<1>4. x - y \in Int /\ x - y < W /\ -W < x - y
  BY <1>1, <1>2
<1>5. x - y = 0
  BY <1>3, <1>4, MultipleGap
<1> QED
  BY <1>1, <1>2, <1>5

\* W numbers in a row take every slot.
LEMMA ModSurjective ==
  ASSUME NEW W \in Nat \ {0}, NEW l \in Int, NEW i \in 0 .. W - 1
  PROVE  \E s \in l .. l + W - 1 : s % W = i
<1>1. PICK x \in Int : /\ IsMultiple(x, W)
                       /\ l = x + (l % W)
                       /\ l % W \in 0 .. W - 1
  BY DivMod
<1>2. CASE i >= l % W
  <2>1. (x + i) % W = i
    BY <1>1, ModUnique
  <2>2. x + i \in l .. l + W - 1
    BY <1>1, <1>2
  <2> QED
    BY <2>1, <2>2
<1>3. CASE i < l % W
  <2>1. x + W \in Int /\ IsMultiple(x + W, W)
    BY <1>1, MultipleNext
  <2>2. ((x + W) + i) % W = i
    BY <2>1, ModUnique
  <2>3. (x + W) + i \in l .. l + W - 1
    BY <1>1, <1>3
  <2> QED
    BY <2>2, <2>3
<1> QED
  BY <1>1, <1>2, <1>3

-----------------------------------------------------------------------------
(* Sequences. *)

\* RemoveAt leaves the other elements, in their order.
LEMMA RemoveEffect ==
  ASSUME NEW S, NEW ch \in Seq(S), NEW i \in 1 .. Len(ch)
  PROVE  /\ RemoveAt(ch, i) \in Seq(S)
         /\ Len(RemoveAt(ch, i)) = Len(ch) - 1
         /\ \A j \in 1 .. Len(ch) - 1 :
               RemoveAt(ch, i)[j] = IF j < i THEN ch[j] ELSE ch[j + 1]
<1> DEFINE front == SubSeq(ch, 1, i - 1)
           back  == SubSeq(ch, i + 1, Len(ch))
<1>1. Len(ch) \in Nat /\ \A j \in 1 .. Len(ch) : ch[j] \in S
  BY LenProperties, ElementOfSeq
<1>2. /\ front \in Seq(S)
      /\ Len(front) = i - 1
      /\ \A j \in 1 .. i - 1 : front[j] = ch[j]
  <2>1. \A j \in 1 .. i - 1 : ch[j] \in S
    BY <1>1
  <2> QED
    BY <1>1, <2>1, SubSeqProperties
<1>3. /\ back \in Seq(S)
      /\ Len(back) = Len(ch) - i
      /\ \A j \in 1 .. Len(ch) - i : back[j] = ch[j + i]
  <2>1. \A j \in i + 1 .. Len(ch) : ch[j] \in S
    BY <1>1
  <2>2. /\ back \in Seq(S)
        /\ Len(back) = IF i + 1 <= Len(ch) THEN Len(ch) - (i + 1) + 1 ELSE 0
        /\ \A j \in 1 .. Len(ch) - (i + 1) + 1 : back[j] = ch[(i + 1) + j - 1]
    BY <1>1, <2>1, SubSeqProperties
  <2> HIDE DEF back
  <2> QED
    BY <1>1, <2>2
<1> HIDE DEF front, back
<1>4. /\ front \o back \in Seq(S)
      /\ Len(front \o back) = Len(front) + Len(back)
      /\ \A j \in 1 .. Len(front) + Len(back) :
            (front \o back)[j] = IF j <= Len(front) THEN front[j]
                                                    ELSE back[j - Len(front)]
  BY <1>2, <1>3, ConcatProperties
<1>5. \A j \in 1 .. Len(ch) - 1 :
         (front \o back)[j] = IF j < i THEN ch[j] ELSE ch[j + 1]
  <2> DEFINE whole == front \o back
  <2> SUFFICES ASSUME NEW j \in 1 .. Len(ch) - 1
               PROVE  whole[j] = IF j < i THEN ch[j] ELSE ch[j + 1]
    BY Zenon
  <2>1. whole[j] = IF j <= i - 1 THEN front[j] ELSE back[j - (i - 1)]
    BY <1>1, <1>2, <1>3, <1>4
  <2> HIDE DEF whole
  <2>2. CASE j < i
    BY <2>1, <2>2, <1>1, <1>2
  <2>3. CASE ~ (j < i)
    <3>1. back[j - (i - 1)] = ch[(j - (i - 1)) + i]
      BY <2>3, <1>1, <1>3
    <3>2. (j - (i - 1)) + i = j + 1
      BY <1>1
    <3> QED
      BY <2>1, <2>3, <3>1, <3>2, <1>1
  <2> QED
    BY <2>2, <2>3
<1>6. RemoveAt(ch, i) = front \o back
  BY DEF RemoveAt, front, back
<1>7. Len(front) + Len(back) = Len(ch) - 1
  BY <1>1, <1>2, <1>3
<1> QED
  BY <1>4, <1>5, <1>6, <1>7

-----------------------------------------------------------------------------
(* Induction. *)

\* A set of numbers that is not empty has a least one.
LEMMA Least ==
  ASSUME NEW T \in SUBSET Nat, T # {}
  PROVE \E x \in T : \A y \in T : x <= y
<1> DEFINE R == {ss \in Nat \X Nat : ss[1] < ss[2]}
<1>1. IsWellFoundedOn(R, Nat)
  BY NatLessThanWellFounded DEF OpToRel
<1> HIDE DEF R
<1>2. PICK x \in T : \A y \in T : ~ (<<y, x>> \in R)
  BY <1>1, WFMin
<1>3. \A y \in T : y < x => <<y, x>> \in R
  BY DEF R
<1>4. \A y \in T : x \in Nat /\ y \in Nat /\ ~ (y < x)
  BY <1>2, <1>3
<1> QED
  BY <1>4

\* Induction, for a set in place of a formula: the provers take no operator.
LEMMA NatIsInductive ==
  ASSUME NEW Q, 0 \in Q, \A n \in Nat : n \in Q => n + 1 \in Q
  PROVE  \A n \in Nat : n \in Q
<1> SUFFICES ASSUME NEW m \in Nat, m \notin Q
             PROVE  FALSE
  OBVIOUS
<1>1. PICK n \in Nat \ Q : \A y \in Nat \ Q : n <= y
  BY Least
<1>2. n - 1 \in Nat /\ n - 1 \in Q
  BY <1>1
<1>3. (n - 1) + 1 \in Q /\ (n - 1) + 1 = n
  BY <1>2
<1> QED
  BY <1>1, <1>3

\* The element the folds of the library take next.
Chosen(s) == CHOOSE x \in s : TRUE

\* Induction over the subsets of a finite set in the order of those folds.
LEMMA SubsetsInduct ==
  ASSUME NEW D, IsFiniteSet(D), NEW Q, {} \in Q,
         \A s \in SUBSET D : s # {} /\ s \ {Chosen(s)} \in Q => s \in Q
  PROVE  \A s \in SUBSET D : s \in Q
<1> SUFFICES ASSUME NEW t \in SUBSET D, t \notin Q
             PROVE  FALSE
  OBVIOUS
<1> DEFINE Bad == {s \in SUBSET D : s \notin Q}
           Sizes == {Cardinality(s) : s \in Bad}
<1>1. \A s \in SUBSET D : IsFiniteSet(s) /\ Cardinality(s) \in Nat
  BY FS_Subset, FS_CardinalityType
<1>2. PICK s \in Bad : \A u \in Bad : Cardinality(s) <= Cardinality(u)
  <2>1. Sizes \in SUBSET Nat /\ Sizes # {}
    BY <1>1
  <2>2. PICK n \in Sizes : \A m \in Sizes : n <= m
    <3> HIDE DEF Sizes
    <3> QED BY <2>1, Least
  <2> QED
    BY <2>2
<1>3. s # {} /\ Chosen(s) \in s
  BY DEF Chosen
<1>4. Cardinality(s \ {Chosen(s)}) = Cardinality(s) - 1
  BY <1>1, <1>3, FS_RemoveElement
<1>5. s \ {Chosen(s)} \in Bad
  BY <1>3
<1> QED
  BY <1>1, <1>2, <1>4, <1>5

\* Each value of g is made from the one before.
StepsBy(g, T, a, b) == \A i \in a + 1 .. b : g[i] = T[i][g[i - 1]]

\* A recursive function over an interval exists.
LEMMA RecExists ==
  ASSUME NEW a \in Int, NEW n \in Nat, NEW D, NEW x \in D, NEW T \in [Int -> [D -> D]]
  PROVE  \E g \in [a .. a + n -> D] : g[a] = x /\ StepsBy(g, T, a, a + n)
<1> DEFINE Upto(g, m) == g[a] = x /\ \A i \in a + 1 .. a + m : g[i] = T[i][g[i - 1]]
           Q == {m \in Nat : \E g \in [a .. a + m -> D] : Upto(g, m)}
<1>1. 0 \in Q
  <2> DEFINE g == [i \in a .. a + 0 |-> x]
  <2>1. a \in a .. a + 0 /\ a + 1 .. a + 0 = {}
    OBVIOUS
  <2>2. g \in [a .. a + 0 -> D] /\ Upto(g, 0)
    BY <2>1
  <2> QED
    BY <2>2
<1>2. ASSUME NEW m \in Nat, m \in Q
      PROVE  m + 1 \in Q
  <2>1. PICK f \in [a .. a + m -> D] : Upto(f, m)
    BY <1>2
  <2> DEFINE e == a + m + 1
             g == [i \in a .. a + (m + 1) |-> IF i = e THEN T[e][f[a + m]] ELSE f[i]]
  <2>2. /\ e \in Int /\ a + m \in a .. a + m /\ a + (m + 1) = e /\ a # e
        /\ \A i \in a .. a + (m + 1) : i = e \/ i \in a .. a + m
        /\ \A i \in a + 1 .. a + m : i # e /\ i - 1 # e /\ i \in a .. e /\ i - 1 \in a .. e
        /\ e - 1 = a + m /\ e - 1 # e /\ e - 1 \in a .. e /\ e \in a .. e /\ a \in a .. e
        /\ \A i \in a + 1 .. a + (m + 1) : i = e \/ i \in a + 1 .. a + m
    OBVIOUS
  <2> HIDE DEF e
  <2>3. T[e][f[a + m]] \in D
    BY <2>2
  <2>4. g \in [a .. a + (m + 1) -> D]
    BY <2>2, <2>3
  <2>5. g[a] = x
    BY <2>1, <2>2
  <2>6. ASSUME NEW i \in a + 1 .. a + (m + 1)
        PROVE  g[i] = T[i][g[i - 1]]
    <3>1. CASE i = e
      BY <2>2, <3>1
    <3>2. CASE i \in a + 1 .. a + m
      BY <2>1, <2>2, <3>2
    <3> QED
      BY <2>2, <2>6, <3>1, <3>2
  <2> HIDE DEF g
  <2>7. Upto(g, m + 1)
    BY <2>5, <2>6
  <2> HIDE DEF Upto
  <2> QED
    BY <2>4, <2>7
<1>3. n \in Q
  <2> HIDE DEF Q
  <2>1. \A m \in Nat : m \in Q
    BY <1>1, <1>2, NatIsInductive
  <2> QED
    BY <2>1
<1>4. PICK g \in [a .. a + n -> D] : Upto(g, n)
  BY <1>3
<1> QED
  BY <1>4 DEF StepsBy

-----------------------------------------------------------------------------
(* Where the parts of a sequence are. *)

LEMMA SubSeqOf ==
  ASSUME NEW S, NEW s \in Seq(S), NEW i \in Nat, NEW j \in Nat, i >= 1, j <= Len(s), i <= j + 1
  PROVE  /\ SubSeq(s, i, j) \in Seq(S) /\ Len(SubSeq(s, i, j)) = j - i + 1
         /\ \A k \in 1 .. j - i + 1 : SubSeq(s, i, j)[k] = s[i + k - 1]
<1>1. Len(s) \in Nat /\ \A k \in 1 .. Len(s) : s[k] \in S
  BY LenProperties, ElementOfSeq
<1>2. \A k \in i .. j : s[k] \in S
  BY <1>1
<1>3. i \in Int /\ j \in Int
  OBVIOUS
<1>4. /\ SubSeq(s, i, j) \in Seq(S)
      /\ Len(SubSeq(s, i, j)) = IF i <= j THEN j - i + 1 ELSE 0
      /\ \A k \in 1 .. j - i + 1 : SubSeq(s, i, j)[k] = s[i + k - 1]
  BY <1>2, <1>3, SubSeqProperties
<1> QED
  BY <1>4

\* b is in f behind its first n.
Has(f, n, b) == n + Len(b) <= Len(f) /\ \A i \in 1 .. Len(b) : f[n + i] = b[i]

\* What is put behind others, and where the others stay.
LEMMA Appended ==
  ASSUME NEW S, NEW f \in Seq(S), NEW b \in Seq(S)
  PROVE  /\ f \o b \in Seq(S) /\ Len(f \o b) = Len(f) + Len(b)
         /\ Has(f \o b, Len(f), b) /\ Has(f \o b, 0, f)
         /\ \A n \in Nat, x \in Seq(S) : Has(f, n, x) => Has(f \o b, n, x)
<1> DEFINE h == f \o b
<1>1. /\ h \in Seq(S) /\ Len(h) = Len(f) + Len(b)
      /\ \A i \in 1 .. Len(f) + Len(b) : h[i] = IF i <= Len(f) THEN f[i] ELSE b[i - Len(f)]
  BY ConcatProperties
<1>2. Len(f) \in Nat /\ Len(b) \in Nat
  BY LenProperties
<1> HIDE DEF h
<1>4. Has(h, Len(f), b)
  <2>1. ASSUME NEW i \in 1 .. Len(b)
        PROVE  h[Len(f) + i] = b[i]
    <3>1. /\ Len(f) + i \in 1 .. Len(f) + Len(b) /\ ~ (Len(f) + i <= Len(f))
          /\ (Len(f) + i) - Len(f) = i
      BY <1>2
    <3> QED
      BY <1>1, <3>1
  <2> QED
    BY <1>1, <1>2, <2>1 DEF Has
<1>5. ASSUME NEW n \in Nat, NEW x \in Seq(S), Has(f, n, x)
      PROVE  Has(h, n, x)
  <2>1. Len(x) \in Nat
    BY LenProperties
  <2>2. ASSUME NEW i \in 1 .. Len(x)
        PROVE  h[n + i] = x[i]
    <3>1. n + i \in 1 .. Len(f) + Len(b) /\ n + i <= Len(f) /\ f[n + i] = x[i]
      BY <1>2, <1>5, <2>1 DEF Has
    <3> QED
      BY <1>1, <3>1
  <2> QED
    BY <1>1, <1>2, <1>5, <2>1, <2>2 DEF Has
<1>6. Has(f, 0, f)
  BY <1>2 DEF Has
<1>7. Has(h, 0, f)
  BY <1>5, <1>6
<1> QED
  BY <1>1, <1>4, <1>5, <1>7 DEF h

\* A part of a part.
LEMMA PartOfPart ==
  ASSUME NEW S, NEW f \in Seq(S), NEW n \in Nat, NEW b \in Seq(S), Has(f, n, b),
         NEW m \in Nat, NEW x \in Seq(S), Has(b, m, x)
  PROVE  Has(f, n + m, x)
<1>1. Len(f) \in Nat /\ Len(b) \in Nat /\ Len(x) \in Nat
  BY LenProperties
<1>2. ASSUME NEW i \in 1 .. Len(x)
      PROVE  f[(n + m) + i] = x[i]
  <2>1. m + i \in 1 .. Len(b) /\ b[m + i] = x[i]
    BY <1>1 DEF Has
  <2>2. f[n + (m + i)] = b[m + i]
    BY <2>1 DEF Has
  <2>3. n + (m + i) = (n + m) + i
    OBVIOUS
  <2> QED
    BY <2>1, <2>2, <2>3
<1> QED
  BY <1>1, <1>2 DEF Has

\* Reading a part.
LEMMA PartRead ==
  ASSUME NEW S, NEW f \in Seq(S), NEW n \in Nat, NEW b \in Seq(S), Has(f, n, b)
  PROVE  SubSeq(f, n + 1, n + Len(b)) = b
<1> DEFINE N == Len(b)
           s == SubSeq(f, n + 1, n + N)
<1>1. N \in Nat /\ Len(f) \in Nat
  BY LenProperties
<1>2. n + N <= Len(f) /\ \A i \in 1 .. N : f[n + i] = b[i]
  BY DEF Has
<1>3. /\ s \in Seq(S) /\ Len(s) = (n + N) - (n + 1) + 1
      /\ \A i \in 1 .. (n + N) - (n + 1) + 1 : s[i] = f[(n + 1) + i - 1]
  <2> HIDE DEF N
  <2>1. /\ n + 1 \in Nat /\ n + N \in Nat /\ n + 1 >= 1 /\ n + N <= Len(f)
        /\ n + 1 <= (n + N) + 1
    BY <1>1, <1>2
  <2> QED
    BY <2>1, SubSeqOf
<1> HIDE DEF s, N
<1>4. (n + N) - (n + 1) + 1 = N /\ \A i \in 1 .. N : (n + 1) + i - 1 = n + i
  BY <1>1
<1>5. Len(s) = Len(b) /\ \A i \in 1 .. Len(s) : s[i] = b[i]
  BY <1>2, <1>3, <1>4 DEF N
<1>6. s = b
  BY <1>3, <1>5, SeqEqual
<1> QED
  BY <1>6 DEF s, N

-----------------------------------------------------------------------------
(* Sums.  MapThenSumSet() is a fold, and a fold the function that an equation *)
(* defines: here for the sum of f[i] over the i of a subset of f's domain.    *)

SumEq(g, f, D) ==
  [s \in SUBSET D |-> IF s = {} THEN 0 ELSE f[Chosen(s)] + g[s \ {Chosen(s)}]]

\* What the fold takes for it.
Sums(f) == CHOOSE g : g = SumEq(g, f, DOMAIN f)

Sum(f) == Sums(f)[DOMAIN f]

\* g is the sum for s, from that without one element.
SumUpTo(g, f, s) ==
  g[s] = IF s = {} THEN 0 ELSE f[Chosen(s)] + g[s \ {Chosen(s)}]

\* The equation has a solution for every finite set.
LEMMA SumExists ==
  ASSUME NEW D, IsFiniteSet(D), NEW f
  PROVE  \E g : g = SumEq(g, f, D)
<1> DEFINE Upto(g, n) == \A s \in SUBSET D : Cardinality(s) <= n => SumUpTo(g, f, s)
           Q == {n \in Nat : \E g : Upto(g, n)}
<1>1. \A s \in SUBSET D : IsFiniteSet(s) /\ Cardinality(s) \in Nat
  BY FS_Subset, FS_CardinalityType
<1>2. 0 \in Q
  <2>1. Upto([s \in SUBSET D |-> 0], 0)
    BY <1>1, FS_EmptySet DEF SumUpTo
  <2> QED
    BY <2>1
<1>3. ASSUME NEW n \in Nat, n \in Q
      PROVE  n + 1 \in Q
  <2>1. PICK h : Upto(h, n)
    BY <1>3
  <2> DEFINE g == [s \in SUBSET D |->
                     IF Cardinality(s) <= n THEN h[s]
                     ELSE f[Chosen(s)] + h[s \ {Chosen(s)}]]
  <2>2. ASSUME NEW s \in SUBSET D, Cardinality(s) <= n + 1
        PROVE  SumUpTo(g, f, s)
    <3>1. CASE s = {}
      <4>1. Cardinality(s) = 0
        BY <3>1, FS_EmptySet
      <4> QED
        BY <3>1, <4>1, <2>1 DEF SumUpTo
    <3>2. CASE s # {}
      <4>1. Chosen(s) \in s
        BY <3>2 DEF Chosen
      <4>2. Cardinality(s \ {Chosen(s)}) = Cardinality(s) - 1
        BY <1>1, <4>1, FS_RemoveElement
      <4>3. g[s \ {Chosen(s)}] = h[s \ {Chosen(s)}]
        BY <4>2, <2>2, <1>1
      <4>4. CASE Cardinality(s) <= n
        BY <4>4, <4>3, <3>2, <2>1 DEF SumUpTo
      <4>5. CASE ~ (Cardinality(s) <= n)
        BY <4>5, <4>3, <3>2 DEF SumUpTo
      <4> QED
        BY <4>4, <4>5
    <3> QED
      BY <3>1, <3>2
  <2>3. Upto(g, n + 1)
    BY <2>2
  <2> QED
    <3> HIDE DEF g
    <3> QED BY <2>3
<1>4. Cardinality(D) \in Q
  <2>1. \A n \in Nat : n \in Q
    <3> HIDE DEF Q
    <3> QED BY <1>2, <1>3, NatIsInductive
  <2> QED
    BY <2>1, <1>1
<1>5. PICK h : Upto(h, Cardinality(D))
  BY <1>4
<1>6. \A s \in SUBSET D : SumUpTo(h, f, s)
  BY <1>5, FS_Subset
<1> DEFINE g == [s \in SUBSET D |-> h[s]]
<1>7. g = SumEq(g, f, D)
  BY <1>6 DEF SumUpTo, SumEq
<1> HIDE DEF g
<1> QED
  BY <1>7

\* Its value, in the order of the fold.
LEMMA SumSteps ==
  ASSUME NEW f, IsFiniteSet(DOMAIN f), NEW s \in SUBSET DOMAIN f
  PROVE  Sums(f)[s] = IF s = {} THEN 0 ELSE f[Chosen(s)] + Sums(f)[s \ {Chosen(s)}]
<1> DEFINE D == DOMAIN f
           G == Sums(f)
<1>1. \E g : g = SumEq(g, f, D)
  BY SumExists
<1>2. G = SumEq(G, f, D)
  BY <1>1 DEF Sums
<1> HIDE DEF G
<1>3. G[s] = SumEq(G, f, D)[s]
  BY <1>2
<1>4. SumEq(G, f, D)[s] = IF s = {} THEN 0 ELSE f[Chosen(s)] + G[s \ {Chosen(s)}]
  BY DEF SumEq
<1> QED
  BY <1>3, <1>4 DEF G

\* And in any other: every element can be the last.
SumOfParts(g, f, u) == g[u] \in Int /\ \A x \in u : g[u] = f[x] + g[u \ {x}]

LEMMA SumParts ==
  ASSUME NEW D, IsFiniteSet(D), NEW f \in [D -> Int]
  PROVE  \A s \in SUBSET D : SumOfParts(Sums(f), f, s)
<1> DEFINE G == Sums(f)
           Q == {n \in Nat : \A u \in SUBSET D :
                               Cardinality(u) <= n => SumOfParts(G, f, u)}
<1>1. \A u \in SUBSET D : IsFiniteSet(u) /\ Cardinality(u) \in Nat
  BY FS_Subset, FS_CardinalityType
<1>2. SumOfParts(G, f, {})
  <2>1. G[{}] = 0
    BY SumSteps
  <2> QED
    BY <2>1 DEF SumOfParts
<1>3. ASSUME NEW u \in SUBSET D, u # {}
      PROVE  /\ Chosen(u) \in u /\ f[Chosen(u)] \in Int
             /\ G[u] = f[Chosen(u)] + G[u \ {Chosen(u)}]
  <2>1. Chosen(u) \in u
    BY <1>3 DEF Chosen
  <2>2. DOMAIN f = D
    OBVIOUS
  <2>3. G[u] = f[Chosen(u)] + G[u \ {Chosen(u)}]
    BY <1>3, <2>2, SumSteps
  <2> QED
    BY <2>1, <2>3
<1>4. ASSUME NEW u \in SUBSET D, NEW x \in u
      PROVE  Cardinality(u \ {x}) = Cardinality(u) - 1
  BY <1>1, FS_RemoveElement
<1> HIDE DEF G
<1>5. 0 \in Q
  <2>1. ASSUME NEW u \in SUBSET D, Cardinality(u) <= 0
        PROVE  u = {}
    BY <1>1, <2>1, FS_EmptySet
  <2> QED
    BY <1>2, <2>1
<1>6. ASSUME NEW n \in Nat, n \in Q
      PROVE  n + 1 \in Q
  <2>1. ASSUME NEW u \in SUBSET D, Cardinality(u) <= n
        PROVE  SumOfParts(G, f, u)
    BY <1>6, <2>1
  <2>2. ASSUME NEW u \in SUBSET D, Cardinality(u) <= n + 1, NEW x \in u
        PROVE  SumOfParts(G, f, u \ {x})
    <3>1. u \ {x} \in SUBSET D /\ Cardinality(u \ {x}) <= n
      BY <1>1, <1>4, <2>2
    <3> QED
      BY <2>1, <3>1
  <2>3. ASSUME NEW u \in SUBSET D, Cardinality(u) <= n + 1, u # {}
        PROVE  SumOfParts(G, f, u)
    <3> DEFINE c == Chosen(u)
    <3>1. c \in u /\ f[c] \in Int /\ G[u] = f[c] + G[u \ {c}]
      BY <1>3, <2>3
    <3> HIDE DEF c
    <3>2. G[u] \in Int
      BY <2>2, <2>3, <3>1 DEF SumOfParts
    <3>3. ASSUME NEW x \in u, x # c
          PROVE  G[u] = f[x] + G[u \ {x}]
      <4>1. SumOfParts(G, f, u \ {x}) /\ SumOfParts(G, f, u \ {c})
        BY <2>2, <2>3, <3>1
      <4>2. c \in u \ {x} /\ x \in u \ {c} /\ (u \ {c}) \ {x} = (u \ {x}) \ {c}
        BY <3>1, <3>3
      <4>3. G[u \ {x}] = f[c] + G[(u \ {x}) \ {c}]
        BY <4>1, <4>2 DEF SumOfParts
      <4>4. G[u \ {c}] = f[x] + G[(u \ {x}) \ {c}]
        BY <4>1, <4>2 DEF SumOfParts
      <4>5. G[u \ {x}] \in Int /\ G[u \ {c}] \in Int
        BY <4>1 DEF SumOfParts
      <4>6. G[(u \ {x}) \ {c}] \in Int
        <5>1. u \ {x} \in SUBSET D /\ Cardinality(u \ {x}) <= n + 1
          BY <1>1, <1>4, <2>3
        <5> QED
          BY <2>2, <4>2, <5>1 DEF SumOfParts
      <4>7. f[x] \in Int
        OBVIOUS
      <4> QED
        BY <3>1, <4>3, <4>4, <4>5, <4>6, <4>7
    <3> QED
      BY <3>1, <3>2, <3>3 DEF SumOfParts
  <2>4. \A u \in SUBSET D : Cardinality(u) <= n + 1 => SumOfParts(G, f, u)
    BY <1>2, <2>3
  <2> QED
    BY <2>4
<1>7. \A n \in Nat : n \in Q
  <2> HIDE DEF Q
  <2> QED
    BY <1>5, <1>6, NatIsInductive
<1>8. ASSUME NEW s \in SUBSET D
      PROVE  SumOfParts(G, f, s)
  <2>1. Cardinality(s) \in Nat
    BY <1>1
  <2>2. Cardinality(s) \in Q /\ Cardinality(s) <= Cardinality(s)
    <3> HIDE DEF Q
    <3> QED
      BY <1>7, <2>1
  <2> QED
    BY <2>2
<1> QED
  BY <1>8 DEF G

LEMMA SumTakes ==
  ASSUME NEW D, IsFiniteSet(D), NEW f \in [D -> Int], NEW s \in SUBSET D, NEW x \in s
  PROVE  /\ Sums(f)[s] \in Int /\ Sums(f)[s \ {x}] \in Int
         /\ Sums(f)[s] = f[x] + Sums(f)[s \ {x}]
<1>1. s \ {x} \in SUBSET D
  OBVIOUS
<1>2. SumOfParts(Sums(f), f, s) /\ SumOfParts(Sums(f), f, s \ {x})
  BY <1>1, SumParts
<1> QED
  BY <1>2 DEF SumOfParts

\* The sum of no elements.
LEMMA SumOfNone ==
  ASSUME NEW f, IsFiniteSet(DOMAIN f)
  PROVE  Sums(f)[{}] = 0
  BY SumSteps

\* A sum of small numbers is bounded by how many there are.
LEMMA SumRange ==
  ASSUME NEW D, IsFiniteSet(D), NEW f \in [D -> Int], NEW m \in Nat,
         \A i \in D : 0 <= f[i] /\ f[i] <= m
  PROVE  /\ Sum(f) \in Nat /\ Cardinality(D) \in Nat
         /\ m * Cardinality(D) \in Nat /\ Sum(f) <= m * Cardinality(D)
<1> DEFINE G == Sums(f)
           Q == {s \in SUBSET D : G[s] \in Nat /\ m * Cardinality(s) \in Nat
                                    /\ G[s] <= m * Cardinality(s)}
<1>1. \A s \in SUBSET D : IsFiniteSet(s) /\ Cardinality(s) \in Nat
  BY FS_Subset, FS_CardinalityType
<1>2. {} \in Q
  <2>1. G[{}] = 0
    BY SumOfNone
  <2>2. Cardinality({}) = 0
    BY FS_EmptySet
  <2>3. m * 0 = 0
    OBVIOUS
  <2> HIDE DEF G
  <2> QED
    BY <2>1, <2>2, <2>3
<1>3. ASSUME NEW s \in SUBSET D, s # {}, s \ {Chosen(s)} \in Q
      PROVE  s \in Q
  <2> DEFINE c == Chosen(s)
             n == Cardinality(s \ {c})
  <2>1. c \in s
    BY <1>3 DEF Chosen
  <2>2. Cardinality(s) = n + 1 /\ n \in Nat
    BY <1>1, <2>1, FS_RemoveElement
  <2>3. G[s] = f[c] + G[s \ {c}]
    <3> HIDE DEF c
    <3> QED
      BY <2>1, SumTakes
  <2>4. f[c] \in Int /\ 0 <= f[c] /\ f[c] <= m
    BY <2>1
  <2>5. G[s \ {c}] \in Nat /\ m * n \in Nat /\ G[s \ {c}] <= m * n
    BY <1>3
  <2> HIDE DEF G, c, n
  <2>6. m * (n + 1) = m * n + m
    BY <2>2
  <2> QED
    BY <2>2, <2>3, <2>4, <2>5, <2>6
<1>4. \A s \in SUBSET D : s \in Q
  <2> HIDE DEF Q
  <2> QED
    BY <1>2, <1>3, SubsetsInduct
<1>5. D \in Q
  BY <1>4
<1> QED
  BY <1>1, <1>5 DEF Sum

\* When f changes at k only, its sum changes by the same.
LEMMA SumChanges ==
  ASSUME NEW D, IsFiniteSet(D), NEW f \in [D -> Int], NEW g \in [D -> Int],
         NEW k \in D, \A i \in D : i # k => g[i] = f[i]
  PROVE  Sum(f) \in Int /\ Sum(g) = Sum(f) + g[k] - f[k]
<1> DEFINE F == Sums(f)
           G == Sums(g)
           Q == {s \in SUBSET D : k \in s \/ G[s] = F[s]}
<1>1. {} \in Q
  <2>1. F[{}] = 0 /\ G[{}] = 0
    BY SumOfNone
  <2> QED
    BY <2>1
<1>2. ASSUME NEW s \in SUBSET D, s # {}, s \ {Chosen(s)} \in Q
      PROVE  s \in Q
  <2> DEFINE c == Chosen(s)
  <2>1. c \in s
    BY <1>2 DEF Chosen
  <2>2. F[s] = f[c] + F[s \ {c}] /\ G[s] = g[c] + G[s \ {c}]
    <3> HIDE DEF c, Q
    <3>1. Sums(f)[s] = f[c] + Sums(f)[s \ {c}]
      BY <2>1, SumTakes
    <3>2. Sums(g)[s] = g[c] + Sums(g)[s \ {c}]
      <4>1. IsFiniteSet(D) /\ g \in [D -> Int] /\ s \in SUBSET D /\ c \in s
        BY <2>1
      <4> QED
        BY ONLY <4>1, SumTakes
    <3> QED
      BY <3>1, <3>2
  <2> HIDE DEF F, G
  <2> QED
    BY <1>2, <2>1, <2>2
<1>3. \A s \in SUBSET D : s \in Q
  <2> HIDE DEF Q
  <2> QED
    BY <1>1, <1>2, SubsetsInduct
<1>4. G[D \ {k}] = F[D \ {k}]
  <2>1. D \ {k} \in Q
    BY <1>3
  <2> QED
    BY <2>1
<1>5. F[D] = f[k] + F[D \ {k}] /\ G[D] = g[k] + G[D \ {k}] /\ F[D \ {k}] \in Int
  BY SumTakes
<1>6. f[k] \in Int /\ g[k] \in Int
  OBVIOUS
<1> HIDE DEF F, G
<1>7. F[D] \in Int /\ G[D] = F[D] + g[k] - f[k]
  BY <1>4, <1>5, <1>6
<1> QED
  BY <1>7 DEF Sum, F, G

\* The sum over a sequence, element by element.
LEMMA SumExtends ==
  ASSUME NEW n \in Nat, NEW f \in [1 .. n -> Int], NEW k \in Nat, k < n
  PROVE  /\ Sums(f)[1 .. k] \in Int /\ f[k + 1] \in Int
         /\ Sums(f)[1 .. k + 1] = Sums(f)[1 .. k] + f[k + 1]
<1> DEFINE D == 1 .. n
           G == Sums(f)
<1>1. IsFiniteSet(D) /\ 1 .. k + 1 \in SUBSET D /\ 1 .. k \in SUBSET D
  BY FS_Interval
<1>2. \A s \in SUBSET D : SumOfParts(G, f, s)
  BY <1>1, SumParts
<1>3. f[k + 1] \in Int
  OBVIOUS
<1> HIDE DEF D, G
<1>4. SumOfParts(G, f, 1 .. k + 1) /\ SumOfParts(G, f, 1 .. k)
  BY <1>1, <1>2
<1>5. k + 1 \in 1 .. k + 1 /\ (1 .. k + 1) \ {k + 1} = 1 .. k
  OBVIOUS
<1>6. G[1 .. k + 1] = f[k + 1] + G[1 .. k] /\ G[1 .. k] \in Int
  <2>1. \A x \in 1 .. k + 1 : G[1 .. k + 1] = f[x] + G[(1 .. k + 1) \ {x}]
    BY <1>4 DEF SumOfParts
  <2>2. G[1 .. k + 1] = f[k + 1] + G[(1 .. k + 1) \ {k + 1}]
    BY <1>5, <2>1
  <2> QED
    BY <1>4, <1>5, <2>2 DEF SumOfParts
<1> QED
  BY <1>3, <1>6 DEF G

-----------------------------------------------------------------------------
(* The sum of in_cksum(). *)

\* What byte i adds to it.
WordOf(addr, i) == IF i % 2 = 1 THEN addr[i] ELSE 256 * addr[i]
Words(addr) == [i \in DOMAIN addr |-> WordOf(addr, i)]

\* The sum of all words.
Total(addr) == Sum(Words(addr))

\* The fold of in_cksum().
ByteSums(addr) ==
  CHOOSE g : g = [s \in SUBSET DOMAIN addr |->
                    IF s = {} THEN 0
                    ELSE WordOf(addr, Chosen(s)) + g[s \ {Chosen(s)}]]

LEMMA SumIs ==
  ASSUME NEW addr
  PROVE  ByteSums(addr)[DOMAIN addr] = Total(addr)
<1> DEFINE D == DOMAIN addr
           Eq(g) == [s \in SUBSET D |->
                       IF s = {} THEN 0 ELSE WordOf(addr, Chosen(s)) + g[s \ {Chosen(s)}]]
<1>1. ASSUME NEW g
      PROVE  Eq(g) = SumEq(g, Words(addr), D)
  <2>1. ASSUME NEW s \in SUBSET D, s # {}
        PROVE  Words(addr)[Chosen(s)] = WordOf(addr, Chosen(s))
     BY <2>1 DEF Chosen, Words
  <2> QED
    BY <2>1 DEF SumEq
<1>2. DOMAIN Words(addr) = D
  BY DEF Words
<1>3. ByteSums(addr) = CHOOSE g : g = Eq(g)
  BY DEF ByteSums
<1> HIDE DEF Eq
<1>4. (CHOOSE g : g = Eq(g)) = (CHOOSE g : g = SumEq(g, Words(addr), D))
  BY <1>1
<1> QED
  BY <1>2, <1>3, <1>4 DEF Total, Sum, Sums

LEMMA ByteRange == \A x \in Bytes : x \in Nat /\ x <= 255
  BY Z3 DEF Bytes

LEMMA RangeByte == \A x \in Nat : x <= 255 => x \in Bytes
  BY Z3 DEF Bytes

\* A byte adds less than a word.
LEMMA WordRange ==
  ASSUME NEW addr \in Seq(Bytes)
  PROVE  /\ Words(addr) \in [DOMAIN addr -> Int]
         /\ \A i \in DOMAIN addr :
              WordOf(addr, i) \in Nat /\ WordOf(addr, i) <= 65280
              /\ Words(addr)[i] = WordOf(addr, i)
<1>1. ASSUME NEW i \in DOMAIN addr
      PROVE  WordOf(addr, i) \in Nat /\ WordOf(addr, i) <= 65280
  <2>1. addr[i] \in Bytes
    BY LenProperties, ElementOfSeq
  <2>2. addr[i] \in Nat /\ addr[i] <= 255
    BY <2>1, ByteRange
  <2> QED
    BY <2>2, SMT DEF WordOf
<1> QED
  BY <1>1 DEF Words

\* The positions of a datagram.
LEMMA BytesFinite ==
  ASSUME NEW addr \in Seq(Bytes)
  PROVE  /\ DOMAIN addr = 1 .. Len(addr) /\ Len(addr) \in Nat
         /\ IsFiniteSet(DOMAIN addr)
         /\ Cardinality(DOMAIN addr) = Len(addr)
<1>1. DOMAIN addr = 1 .. Len(addr) /\ Len(addr) \in Nat
  BY LenProperties
<1> QED
  BY <1>1, FS_Interval

\* The sum is bounded by the length.
LEMMA TotalRange ==
  ASSUME NEW addr \in Seq(Bytes)
  PROVE  Total(addr) \in Nat /\ Total(addr) <= 65280 * Len(addr)
<1> DEFINE f == Words(addr)
           D == DOMAIN addr
<1>1. IsFiniteSet(D) /\ Cardinality(D) = Len(addr) /\ f \in [D -> Int]
  <2>1. IsFiniteSet(D) /\ Cardinality(D) = Len(addr)
    BY BytesFinite
  <2>2. f \in [D -> Int]
    BY WordRange
  <2> QED
    BY <2>1, <2>2
<1>2. \A i \in D : f[i] \in Nat /\ f[i] <= 65280
  <2>1. \A i \in D : /\ WordOf(addr, i) \in Nat /\ WordOf(addr, i) <= 65280
                     /\ f[i] = WordOf(addr, i)
    BY WordRange
  <2> HIDE DEF f, D
  <2> QED
    BY <2>1, SMT
<1>3. 65280 \in Nat /\ \A i \in D : 0 <= f[i] /\ f[i] <= 65280
  <2> HIDE DEF f, D
  <2> QED
    BY <1>2, Z3
<1> HIDE DEF f, D
<1>4. Sum(f) \in Nat /\ Sum(f) <= 65280 * Cardinality(D)
  BY <1>1, <1>3, SumRange
<1> QED
  BY <1>1, <1>4 DEF Total, f

\* Another byte at k changes the sum by the difference of what it adds.
LEMMA TotalChanges ==
  ASSUME NEW addr \in Seq(Bytes), NEW k \in DOMAIN addr, NEW v \in Bytes
  PROVE  LET b == [addr EXCEPT ![k] = v]
         IN  /\ b \in Seq(Bytes) /\ Len(b) = Len(addr)
             /\ Total(b) = Total(addr) + WordOf(b, k) - WordOf(addr, k)
<1> DEFINE b == [addr EXCEPT ![k] = v]
           D == DOMAIN addr
           f == Words(addr)
           g == Words(b)
<1>1. b \in Seq(Bytes) /\ Len(b) = Len(addr) /\ DOMAIN b = D
  BY ExceptSeq
<1> HIDE DEF b
<1>2. f \in [D -> Int] /\ g \in [D -> Int] /\ IsFiniteSet(D) /\ k \in D
  BY <1>1, WordRange, BytesFinite
<1>3. f[k] = WordOf(addr, k) /\ g[k] = WordOf(b, k)
  BY <1>1, WordRange
<1>4. \A i \in D : i # k => g[i] = f[i]
  BY <1>1 DEF Words, WordOf, b
<1> HIDE DEF f, g, D
<1>5. Sum(g) = Sum(f) + g[k] - f[k]
  BY <1>2, <1>4, SumChanges
<1> QED
  BY <1>1, <1>3, <1>5 DEF Total, b, f, g

\* The carries of the sum added twice, and the complement.
Folded(sum) ==
  LET low == sum \div 65536 + (sum % 65536)
  IN  65535 - ((low + low \div 65536) % 65536)

\* This is in_cksum().
LEMMA CksumFolds ==
  ASSUME NEW addr
  PROVE  in_cksum(addr) = Folded(Total(addr))
<1>1. in_cksum(addr) = Folded(ByteSums(addr)[DOMAIN addr])
  BY SMT DEF in_cksum, MapThenSumSet, MapThenFoldSet, ByteSums, Chosen, WordOf, Folded
<1> QED
  BY <1>1, SumIs, Zenon

\* The two halves of a sum of 32 bits.
LEMMA Halves ==
  ASSUME NEW s \in Nat, s < 4294967296
  PROVE  /\ s \div 65536 \in Nat /\ s \div 65536 <= 65535
         /\ s % 65536 \in Nat /\ s % 65536 <= 65535
         /\ s = 65536 * (s \div 65536) + (s % 65536)
  BY Z3
\* The second addition of the carry.
LEMMA EndAround ==
  ASSUME NEW low \in Nat, low <= 131070
  PROVE  /\ (low + low \div 65536) % 65536 \in Nat
         /\ (low + low \div 65536) % 65536 <= 65535
         /\ low <= 65535 => (low + low \div 65536) % 65536 = low
         /\ low > 65535 => (low + low \div 65536) % 65536 = low - 65535
<1>1. CASE low <= 65535
  <2>1. low \div 65536 = 0
    BY <1>1, Z3
  <2>2. low % 65536 = low
    BY <1>1, Z3
  <2> QED
    BY <1>1, <2>1, <2>2, Z3
<1>2. CASE low > 65535
  <2>1. low \div 65536 = 1
    BY <1>2, Z3
  <2>2. (low + 1) % 65536 = low - 65535
    BY <1>2, Z3
  <2> QED
    BY <1>2, <2>1, <2>2, Z3
<1> QED
  BY <1>1, <1>2, Z3
\* Modulo 65535 the folding changes nothing.
LEMMA FoldedSplits ==
  ASSUME NEW s \in Nat, s < 4294967296
  PROVE \E a, low \in Nat : 
     /\ s = 65535 * a + low /\ low <= 131070 /\ (s = 0 <=> low = 0) /\ a <= 65535
     /\ low <= 65535 => Folded(s) = 65535 - low
     /\ low > 65535 => Folded(s) = 131070 - low
<1>1. PICK low \in Nat : low = s \div 65536 + (s % 65536)
  BY Halves, Z3
<1>2. low <= 131070 /\ s = 65535 * (s \div 65536) + low /\ (s = 0 <=> low = 0)
  BY Halves, <1>1, Z3
<1>3. Folded(s) = 65535 - ((low + low \div 65536) % 65536)
  BY <1>1, Z3 DEF Folded
<1>4. /\ low <= 65535 => Folded(s) = 65535 - low
      /\ low > 65535 => Folded(s) = 131070 - low
  BY <1>1, <1>2, <1>3, EndAround, Z3
<1>5. s \div 65536 \in Nat /\ s \div 65536 <= 65535
  BY Halves, Z3
<1>6. PICK a \in Nat : a = s \div 65536
  BY <1>5, Z3
<1> WITNESS a \in Nat, low \in Nat
<1> QED
  BY <1>1, <1>2, <1>4, <1>5, <1>6, Z3
\* A checksum is good when the sum is a multiple of 65535, and not zero.
LEMMA FoldedZero ==
  ASSUME NEW s \in Nat, s < 4294967296
  PROVE  Folded(s) = 0 <=> s # 0 /\ s % 65535 = 0
<1>1. PICK a \in Nat, low \in Nat : 
     /\ s = 65535 * a + low /\ low <= 131070 /\ (s = 0 <=> low = 0) /\ a <= 65535
     /\ low <= 65535 => Folded(s) = 65535 - low
     /\ low > 65535 => Folded(s) = 131070 - low
  BY FoldedSplits, Z3
<1>2. s % 65535 = 0 <=> low = 0 \/ low = 65535 \/ low = 131070
  BY <1>1, Z3
<1> QED
  BY <1>1, <1>2, Z3
\* The checksum makes it one.
LEMMA FoldedCompletes ==
  ASSUME NEW s \in Nat, s < 4294967296
  PROVE  /\ Folded(s) \in Nat /\ Folded(s) <= 65535
         /\ s + Folded(s) # 0
         /\ (s + Folded(s)) % 65535 = 0
<1>1. PICK a \in Nat, low \in Nat : 
     /\ s = 65535 * a + low /\ low <= 131070 /\ (s = 0 <=> low = 0) /\ a <= 65535
     /\ low <= 65535 => Folded(s) = 65535 - low
     /\ low > 65535 => Folded(s) = 131070 - low
  BY FoldedSplits, Z3
<1>2. Folded(s) \in Nat /\ Folded(s) <= 65535 /\ s + Folded(s) # 0
  BY <1>1, Z3
<1>3. s + Folded(s) = 65535 * (a + 1) \/ s + Folded(s) = 65535 * (a + 2)
  BY <1>1, Z3
<1>4. (65535 * (a + 1)) % 65535 = 0 /\ (65535 * (a + 2)) % 65535 = 0
  BY Z3
<1> QED
  BY <1>2, <1>3, <1>4, Z3

-----------------------------------------------------------------------------
(* Bytes with a checksum. *)

\* No more than an IP datagram has
Small(addr) == addr \in Seq(Bytes) /\ Len(addr) <= 65535

\* The sum of a datagram has 32 bits, with its checksum too.
LEMMA SmallTotal ==
  ASSUME NEW addr, Small(addr)
  PROVE  Total(addr) \in Nat /\ Total(addr) < 4294967296 - 65536
<1>1. Total(addr) \in Nat /\ Total(addr) <= 65280 * Len(addr)
  BY TotalRange DEF Small
<1>2. Len(addr) \in Nat /\ Len(addr) <= 65535
  BY LenProperties DEF Small
<1> QED
  BY <1>1, <1>2, Z3

\* A good checksum.
LEMMA GoodCksum ==
  ASSUME NEW addr, Small(addr)
  PROVE  in_cksum(addr) = 0 <=> Total(addr) # 0 /\ Total(addr) % 65535 = 0
<1>1. Total(addr) \in Nat /\ Total(addr) < 4294967296
  BY SmallTotal, Z3
<1> QED
  BY <1>1, FoldedZero, CksumFolds, Z3

\* Two halves of a checksum put where they count for their weight.
LEMMA CksumHalves ==
  ASSUME NEW c \in Nat, c <= 65535
  PROVE  /\ c % 256 \in Nat /\ c % 256 <= 255
         /\ c \div 256 \in Nat /\ c \div 256 <= 255
         /\ c = (c % 256) + 256 * (c \div 256)
  BY Z3

\* What another byte does to the sum is no multiple of 65535.
LEMMA AnotherByte ==
  ASSUME NEW t \in Nat, NEW u \in Nat, NEW x \in Nat, x <= 255, NEW v \in Nat, v <= 255,
         v # x, t % 65535 = 0, u = t + v - x \/ u = t + 256 * v - 256 * x
  PROVE  u % 65535 # 0
<1>1. PICK q \in Nat : t = 65535 * q
  <2>1. t \div 65535 \in Nat /\ t = 65535 * (t \div 65535)
    BY Z3
  <2> QED
    BY <2>1
<1> SUFFICES ASSUME u % 65535 = 0
             PROVE  FALSE
  OBVIOUS
<1>2. PICK r \in Nat : u = 65535 * r
  <2>1. u \div 65535 \in Nat /\ u = 65535 * (u \div 65535)
    BY Z3
  <2> QED
    BY <2>1
<1>3. 65535 * (r - q) = v - x \/ 65535 * (r - q) = 256 * (v - x)
  BY <1>1, <1>2, Z3
<1>4. r - q = 0
  BY <1>3, Z3
<1> QED
  BY <1>3, <1>4, Z3

\* The change of one byte is always seen.
LEMMA ChangeIsSeen ==
  ASSUME NEW addr, Small(addr), in_cksum(addr) = 0,
         NEW k \in 1 .. Len(addr), NEW v \in Bytes, v # addr[k]
  PROVE  /\ Small([addr EXCEPT ![k] = v])
         /\ in_cksum([addr EXCEPT ![k] = v]) # 0
<1> DEFINE x == addr[k]
           b == [addr EXCEPT ![k] = v]
<1>1. /\ addr \in Seq(Bytes) /\ DOMAIN addr = 1 .. Len(addr) /\ Len(addr) \in Nat
      /\ x \in Bytes
  BY LenProperties, ElementOfSeq DEF Small
<1>2. x \in Nat /\ x <= 255 /\ v \in Nat /\ v <= 255
  BY <1>1, ByteRange
<1>4. /\ b \in Seq(Bytes) /\ Len(b) = Len(addr)
      /\ Total(b) = Total(addr) + WordOf(b, k) - WordOf(addr, k)
  BY <1>1, TotalChanges
<1>5. b[k] = v
  BY <1>1
<1>6. Small(b)
  BY <1>4 DEF Small
<1>7. Total(b) \in Nat /\ Total(addr) \in Nat
  <2> HIDE DEF b
  <2> QED
    BY <1>6, SmallTotal
<1>8. Total(addr) % 65535 = 0
  BY GoodCksum
<1>9. \/ WordOf(b, k) = v /\ WordOf(addr, k) = x
      \/ WordOf(b, k) = 256 * v /\ WordOf(addr, k) = 256 * x
  <2>1. x = addr[k]
    OBVIOUS
  <2> HIDE DEF b, x
  <2> QED
    BY <1>5, <2>1 DEF WordOf
<1>10. Total(b) % 65535 # 0
  <2>2. v # x
    OBVIOUS
  <2> HIDE DEF b, x
  <2>1. Total(b) = Total(addr) + v - x \/ Total(b) = Total(addr) + 256 * v - 256 * x
    BY <1>4, <1>9
  <2> QED
    BY <1>2, <1>7, <1>8, <2>1, <2>2, AnotherByte
<1>11. in_cksum(b) # 0
  <2> HIDE DEF b
  <2> QED
    BY <1>6, <1>10, GoodCksum
<1> QED
  BY <1>6, <1>11
=============================================================================

---------------------------- MODULE ChatWireProofs ----------------------------
(***************************************************************************)
(* The four properties of ChatWire, for every line, handle and size.  First   *)
(* the parser, which cuts words off the front of a string, is shown to be at   *)
(* the k-th word of the line that the properties speak of (Cursor); then the  *)
(* reader of a message is shown to find each part where the writer has put     *)
(* it (Has); then each variable is what was computed from those before it.    *)
(***************************************************************************)
EXTENDS ChatWire, DataLemmas

-----------------------------------------------------------------------------
(* Strings.  A pointer into the line is what is left of it from there on. *)

Suffix(s, i) == SubSeq(s, i, Len(s))

\* A suffix is a string; where its characters are.
LEMMA SuffixIs ==
  ASSUME NEW s \in Seq(1 .. 127), NEW i \in 1 .. Len(s) + 1
  PROVE  /\ Suffix(s, i) \in Seq(1 .. 127) /\ Len(Suffix(s, i)) = Len(s) + 1 - i
         /\ Len(s) \in Nat /\ i \in Nat
         /\ \A k \in 1 .. Len(s) + 1 - i : Suffix(s, i)[k] = s[i + k - 1]
         /\ Suffix(s, i) # NULL
         /\ Suffix(s, i) = << >> <=> i = Len(s) + 1
<1> DEFINE n == Len(s)
           t == Suffix(s, i)
<1>1. n \in Nat /\ i \in Nat /\ i >= 1 /\ i <= n + 1
  BY LenProperties
<1>2. /\ t \in Seq(1 .. 127) /\ Len(t) = n - i + 1
      /\ \A k \in 1 .. n - i + 1 : t[k] = s[i + k - 1]
  <2>1. n <= Len(s)
    BY <1>1
  <2> QED
    BY <1>1, <2>1, SubSeqOf DEF Suffix
<1>3. n - i + 1 = n + 1 - i
  BY <1>1
<1>4. t # NULL
  <2>1. SUFFICES ASSUME t = NULL
                 PROVE  FALSE
    OBVIOUS
  <2>2. Len(NULL) = 1 /\ NULL[1] = 0
    BY DEF NULL
  <2>3. Len(t) = 1 /\ t[1] = 0
    BY <2>1, <2>2
  <2>4. \A k \in 1 .. Len(t) : t[k] \in 1 .. 127
    BY ONLY <1>2, ElementOfSeq
  <2>5. 1 \in 1 .. Len(t)
    BY ONLY <2>3
  <2>6. 0 \in 1 .. 127
    BY ONLY <2>3, <2>4, <2>5
  <2> QED
    BY ONLY <2>6
<1>5. t = << >> <=> i = n + 1
  <2>1. t = << >> <=> Len(t) = 0
    BY <1>2, EmptySeq
  <2> QED
    BY <1>1, <1>2, <2>1
<1> QED
  BY <1>1, <1>2, <1>3, <1>4, <1>5

\* What is dropped from a suffix leaves a later one.
LEMMA DropSuffix ==
  ASSUME NEW s \in Seq(1 .. 127), NEW i \in 1 .. Len(s) + 1, NEW n \in 0 .. Len(s) + 1 - i
  PROVE  i + n \in 1 .. Len(s) + 1 /\ Drop(Suffix(s, i), n) = Suffix(s, i + n)
<1> DEFINE N == Len(s)
           t == Suffix(s, i)
           d == Drop(t, n)
           u == Suffix(s, i + n)
<1>1. N \in Nat /\ i \in Nat /\ n \in Nat /\ i >= 1 /\ i + n <= N + 1 /\ i + n \in 1 .. N + 1
  BY LenProperties
<1>2. /\ t \in Seq(1 .. 127) /\ Len(t) = N + 1 - i
      /\ \A k \in 1 .. N + 1 - i : t[k] = s[i + k - 1]
  BY SuffixIs
<1>3. /\ u \in Seq(1 .. 127) /\ Len(u) = N + 1 - (i + n)
      /\ \A k \in 1 .. N + 1 - (i + n) : u[k] = s[(i + n) + k - 1]
  BY <1>1, SuffixIs
<1> HIDE DEF t, u, N
<1>4. /\ d \in Seq(1 .. 127) /\ Len(d) = Len(t) - (n + 1) + 1
      /\ \A k \in 1 .. Len(t) - (n + 1) + 1 : d[k] = t[(n + 1) + k - 1]
  <2>1. /\ n + 1 \in Nat /\ Len(t) \in Nat /\ n + 1 >= 1 /\ Len(t) <= Len(t)
        /\ n + 1 <= Len(t) + 1
    BY <1>1, <1>2
  <2> QED
    BY <1>2, <2>1, SubSeqOf, ZenonT(40) DEF Drop
<1> HIDE DEF d
<1>5. Len(d) = Len(u)
  BY <1>1, <1>2, <1>3, <1>4
<1>6. ASSUME NEW k \in 1 .. Len(u)
      PROVE  d[k] = u[k]
  <2>1. /\ k \in 1 .. Len(t) - (n + 1) + 1 /\ (n + 1) + k - 1 = n + k
        /\ n + k \in 1 .. N + 1 - i /\ i + (n + k) - 1 = (i + n) + k - 1
        /\ k \in 1 .. N + 1 - (i + n)
    <3>1. k \in 1 .. N + 1 - (i + n) /\ Len(t) = N + 1 - i
      BY <1>2, <1>3
    <3>2. N \in Nat /\ i \in Nat /\ n \in Nat /\ i >= 1
      BY <1>1
    <3> QED
      BY ONLY <3>1, <3>2
  <2> QED
    BY <1>2, <1>3, <1>4, <2>1
<1>7. d = u
  BY <1>3, <1>4, <1>5, <1>6, SeqEqual
<1> QED
  BY <1>1, <1>7 DEF d, t, u, N

\* What PrefixIn() returns.
LEMMA PrefixIs ==
  ASSUME NEW S, NEW s \in Seq(S), NEW chars
  PROVE  LET n == Len(PrefixIn(s, chars))
         IN  /\ n \in 0 .. Len(s) /\ PrefixIn(s, chars) = SubSeq(s, 1, n)
             /\ PrefixIn(s, chars) \in Seq(S)
             /\ \A i \in 1 .. n : s[i] \in chars
             /\ n < Len(s) => s[n + 1] \notin chars
<1> DEFINE N == Len(s)
           Good(k) == /\ \A i \in 1 .. k : s[i] \in chars
                      /\ k < N => s[k + 1] \notin chars
           m == CHOOSE k \in 0 .. N : Good(k)
           T == {k \in 0 .. N : k < N => s[k + 1] \notin chars}
<1>1. N \in Nat
  BY LenProperties
<1>2. \E k \in 0 .. N : Good(k)
  <2>1. T \in SUBSET Nat /\ N \in T
    BY <1>1
  <2>2. PICK k \in T : \A y \in T : k <= y
    BY <2>1, Least
  <2>3. ASSUME NEW i \in 1 .. k, s[i] \notin chars
        PROVE  FALSE
    <3>1. i - 1 \in T /\ i \in Nat /\ k \in Nat /\ i <= k
      BY <1>1, <2>2, <2>3
    <3> HIDE DEF T
    <3>2. k <= i - 1
      BY <2>2, <3>1
    <3> QED
      BY ONLY <3>1, <3>2
  <2> QED
    BY <2>2, <2>3
<1>3. m \in 0 .. N /\ Good(m)
  <2> HIDE DEF Good
  <2> QED
    BY <1>2
<1>4. PrefixIn(s, chars) = SubSeq(s, 1, m)
  BY DEF PrefixIn
<1> HIDE DEF m
<1>5. SubSeq(s, 1, m) \in Seq(S) /\ Len(SubSeq(s, 1, m)) = m
  <2>1. m \in Nat /\ 1 \in Nat /\ 1 >= 1 /\ m <= Len(s) /\ 1 <= m + 1 /\ m - 1 + 1 = m
    BY <1>1, <1>3
  <2> QED
    BY <2>1, SubSeqOf
<1> QED
  BY <1>3, <1>4, <1>5

\* skipSpaces() goes to the next character that is no space, or to the end.
LEMMA SkipIs ==
  ASSUME NEW s \in Seq(1 .. 127), NEW i \in 1 .. Len(s) + 1
  PROVE  \E j \in i .. Len(s) + 1 :
           /\ j \in 1 .. Len(s) + 1
           /\ \A x \in i .. j - 1 : s[x] = SPACE
           /\ j <= Len(s) => s[j] # SPACE
           /\ skipSpaces(Suffix(s, i)) = Suffix(s, j)
<1> DEFINE N == Len(s)
           t == Suffix(s, i)
           n == Len(PrefixIn(t, {SPACE}))
<1>1. /\ t \in Seq(1 .. 127) /\ Len(t) = N + 1 - i /\ N \in Nat /\ i \in Nat
      /\ \A k \in 1 .. N + 1 - i : t[k] = s[i + k - 1]
  BY SuffixIs
<1>2. n \in 0 .. Len(t) /\ (\A k \in 1 .. n : t[k] \in {SPACE})
      /\ (n < Len(t) => t[n + 1] \notin {SPACE})
  BY <1>1, PrefixIs
<1>3. skipSpaces(t) = Drop(t, n)
  BY DEF skipSpaces
<1> HIDE DEF n
<1>4. i + n \in 1 .. N + 1 /\ Drop(t, n) = Suffix(s, i + n)
  <2>1. n \in 0 .. Len(s) + 1 - i
    BY <1>1, <1>2
  <2> QED
    BY <2>1, DropSuffix
<1> HIDE DEF t, N
<1>5. ASSUME NEW x \in i .. (i + n) - 1
      PROVE  s[x] = SPACE
  <2>1. x - i + 1 \in 1 .. n /\ x - i + 1 \in 1 .. N + 1 - i /\ i + (x - i + 1) - 1 = x
    BY <1>1, <1>2
  <2> QED
    BY <1>1, <1>2, <2>1
<1>6. ASSUME i + n <= N
      PROVE  s[i + n] # SPACE
  <2>1. n < Len(t) /\ n + 1 \in 1 .. N + 1 - i /\ i + (n + 1) - 1 = i + n
    BY <1>1, <1>2, <1>6
  <2> QED
    BY <1>1, <1>2, <2>1
<1>7. i + n \in i .. N + 1
  BY <1>1, <1>2, <1>4
<1> QED
  BY <1>3, <1>4, <1>5, <1>6, <1>7 DEF t, N

\* wordOf() goes to the next space, or to the end.
LEMMA WordIs ==
  ASSUME NEW s \in Seq(1 .. 127), NEW i \in 1 .. Len(s) + 1
  PROVE  \E e \in i .. Len(s) + 1 :
           /\ e \in 1 .. Len(s) + 1
           /\ \A x \in i .. e - 1 : s[x] # SPACE
           /\ e <= Len(s) => s[e] = SPACE
           /\ wordOf(Suffix(s, i)) = SubSeq(s, i, e - 1)
           /\ Drop(Suffix(s, i), Len(wordOf(Suffix(s, i)))) = Suffix(s, e)
<1> DEFINE N == Len(s)
           t == Suffix(s, i)
           Others == 0 .. 255 \ {SPACE}
           w == PrefixIn(t, Others)
           n == Len(w)
<1>1. /\ t \in Seq(1 .. 127) /\ Len(t) = N + 1 - i /\ N \in Nat /\ i \in Nat
      /\ \A k \in 1 .. N + 1 - i : t[k] = s[i + k - 1]
  BY SuffixIs
<1>2. /\ n \in 0 .. Len(t) /\ w = SubSeq(t, 1, n) /\ (\A k \in 1 .. n : t[k] \in Others)
      /\ (n < Len(t) => t[n + 1] \notin Others)
  <2>1. t \in Seq(1 .. 127)
    BY <1>1
  <2> HIDE DEF t, Others
  <2> QED
    BY ONLY <2>1, PrefixIs
<1>3. wordOf(t) = w
  BY DEF wordOf
<1>4. \A k \in 1 .. N : s[k] \in 1 .. 127
  BY ElementOfSeq
<1> HIDE DEF n, w
<1>5. i + n \in 1 .. N + 1 /\ Drop(t, n) = Suffix(s, i + n)
  <2>1. n \in 0 .. Len(s) + 1 - i
    BY <1>1, <1>2
  <2> QED
    BY <2>1, DropSuffix
<1> HIDE DEF t, N
<1>6. ASSUME NEW x \in i .. (i + n) - 1
      PROVE  s[x] # SPACE
  <2>1. x - i + 1 \in 1 .. n /\ x - i + 1 \in 1 .. N + 1 - i /\ i + (x - i + 1) - 1 = x
    BY <1>1, <1>2
  <2> QED
    BY <1>1, <1>2, <2>1
<1>7. ASSUME i + n <= N
      PROVE  s[i + n] = SPACE
  <2>1. n < Len(t) /\ n + 1 \in 1 .. N + 1 - i /\ i + (n + 1) - 1 = i + n
    BY <1>1, <1>2, <1>7
  <2>2. s[i + n] \notin Others
    BY <1>1, <1>2, <2>1
  <2>3. s[i + n] \in 1 .. 127
    BY <1>1, <1>2, <1>4, <1>7
  <2> QED
    BY <2>2, <2>3
<1>8. i + n \in i .. N + 1
  BY <1>1, <1>2, <1>5
<1>9. w = SubSeq(s, i, (i + n) - 1)
  <2> DEFINE v == SubSeq(s, i, (i + n) - 1)
  <2>1. /\ w \in Seq(1 .. 127) /\ Len(w) = n
        /\ \A k \in 1 .. n : w[k] = t[1 + k - 1]
    <3>1. 1 \in Nat /\ n \in Nat /\ 1 >= 1 /\ n <= Len(t) /\ 1 <= n + 1 /\ n - 1 + 1 = n
      BY <1>1, <1>2
    <3>2. /\ SubSeq(t, 1, n) \in Seq(1 .. 127) /\ Len(SubSeq(t, 1, n)) = n - 1 + 1
          /\ \A k \in 1 .. n - 1 + 1 : SubSeq(t, 1, n)[k] = t[1 + k - 1]
      <4>1. t \in Seq(1 .. 127)
        BY <1>1
      <4> QED
        BY ONLY <3>1, <4>1, SubSeqOf
    <3> QED
      BY <1>2, <3>1, <3>2
  <2>2. /\ v \in Seq(1 .. 127) /\ Len(v) = n
        /\ \A k \in 1 .. n : v[k] = s[i + k - 1]
    <3>1. /\ i \in Nat /\ (i + n) - 1 \in Nat /\ i >= 1 /\ (i + n) - 1 <= Len(s)
          /\ i <= ((i + n) - 1) + 1 /\ ((i + n) - 1) - i + 1 = n
      BY <1>1, <1>2 DEF N
    <3>2. /\ v \in Seq(1 .. 127) /\ Len(v) = ((i + n) - 1) - i + 1
          /\ \A k \in 1 .. ((i + n) - 1) - i + 1 : v[k] = s[i + k - 1]
      BY <3>1, SubSeqOf
    <3> QED
      BY <3>1, <3>2
  <2> HIDE DEF v
  <2>3. ASSUME NEW k \in 1 .. n
        PROVE  w[k] = v[k]
    <3>1. 1 + k - 1 = k /\ k \in 1 .. N + 1 - i
      BY <1>1, <1>2
    <3> QED
      BY <1>1, <2>1, <2>2, <3>1
  <2>4. w = v
    BY <1>2, <2>1, <2>2, <2>3, SeqEqual
  <2> QED
    BY <2>4 DEF v
<1>10. n = Len(w)
  BY DEF n
<1> QED
  BY <1>3, <1>5, <1>6, <1>7, <1>8, <1>9, <1>10 DEF t, N

\* At a character that is no space skipSpaces() stays.
LEMMA SkipNone ==
  ASSUME NEW s \in Seq(1 .. 127), NEW i \in 1 .. Len(s) + 1, i <= Len(s) => s[i] # SPACE
  PROVE  skipSpaces(Suffix(s, i)) = Suffix(s, i)
<1>1. PICK j \in i .. Len(s) + 1 : /\ \A x \in i .. j - 1 : s[x] = SPACE
                                   /\ skipSpaces(Suffix(s, i)) = Suffix(s, j)
  BY SkipIs
<1>2. Len(s) \in Nat /\ i \in Nat
  BY SuffixIs
<1>3. ASSUME j # i
      PROVE  FALSE
  <2>1. i \in i .. j - 1 /\ i <= Len(s)
    BY <1>2, <1>3
  <2> QED
    BY <1>1, <2>1
<1> QED
  BY <1>1, <1>3

-----------------------------------------------------------------------------
(* The words of a line. *)

\* The words that begin before a.
Before(s, a) == {j \in WordStarts(s) : j < a}

\* a is where the k-th word begins.
AtWord(a, k) == a \in WordStarts(line) /\ Cardinality(Before(line, a)) = k - 1

\* The starts of words are finitely many places of the line.
LEMMA StartsFinite ==
  ASSUME NEW s \in Seq(1 .. 127)
  PROVE  /\ IsFiniteSet(WordStarts(s)) /\ Cardinality(WordStarts(s)) \in Nat
         /\ \A i \in WordStarts(s) : i \in 1 .. Len(s) /\ s[i] # SPACE
         /\ \A a : IsFiniteSet(Before(s, a)) /\ Cardinality(Before(s, a)) \in Nat
<1>1. Len(s) \in Nat /\ DOMAIN s = 1 .. Len(s)
  BY LenProperties
<1>2. IsFiniteSet(1 .. Len(s))
  BY <1>1, FS_Interval
<1>3. WordStarts(s) \in SUBSET (1 .. Len(s)) /\ \A i \in WordStarts(s) : s[i] # SPACE
  BY <1>1 DEF WordStarts, IsSpace
<1>4. IsFiniteSet(WordStarts(s))
  BY <1>2, <1>3, FS_Subset
<1>5. ASSUME NEW a
      PROVE  IsFiniteSet(Before(s, a))
  <2>1. Before(s, a) \in SUBSET WordStarts(s)
    BY DEF Before
  <2> QED
    BY <1>4, <2>1, FS_Subset
<1> QED
  BY <1>3, <1>4, <1>5, FS_CardinalityType

\* With the word that begins at a they are one more.
LEMMA BeforeMore ==
  ASSUME NEW s \in Seq(1 .. 127), NEW a \in WordStarts(s), NEW T, IsFiniteSet(T),
         Before(s, a) \cup {a} \subseteq T
  PROVE  Cardinality(Before(s, a)) + 1 <= Cardinality(T)
<1> DEFINE B == Before(s, a)
           U == B \cup {a}
<1>1. IsFiniteSet(B) /\ Cardinality(B) \in Nat
  BY StartsFinite
<1>2. a \notin B
  <2>1. a \in Nat
    BY StartsFinite
  <2> QED
    BY <2>1 DEF Before
<1> HIDE DEF B
<1>3. Cardinality(U) = Cardinality(B) + 1
  BY <1>1, <1>2, FS_AddElement
<1>4. U \in SUBSET T
  BY DEF B
<1> HIDE DEF U
<1>5. Cardinality(U) <= Cardinality(T)
  BY <1>4, FS_Subset
<1> QED
  BY <1>3, <1>5 DEF B

\* A start with k - 1 others before it is the one StartOf() chooses.
LEMMA AtWordIs ==
  ASSUME line \in Seq(1 .. 127), NEW k \in Nat, NEW a, AtWord(a, k)
  PROVE  k <= WordCount /\ StartOf(k) = a
<1> DEFINE W == WordStarts(line)
           C(i) == Cardinality({j \in W : j < i})
<1>1. /\ IsFiniteSet(W) /\ Cardinality(W) \in Nat /\ \A i \in W : i \in Nat
      /\ \A i : IsFiniteSet(Before(line, i)) /\ C(i) = Cardinality(Before(line, i))
  <2>1. \A i : C(i) = Cardinality(Before(line, i))
    BY DEF Before
  <2> HIDE DEF C
  <2>2. \A i \in W : i \in 1 .. Len(line)
    BY StartsFinite
  <2>3. \A i \in W : i \in Nat
    BY <2>2
  <2> QED
    BY <2>1, <2>3, StartsFinite
<1>2. a \in W /\ C(a) = k - 1
  BY DEF AtWord, Before
<1>3. k <= WordCount
  <2>1. Before(line, a) \cup {a} \subseteq W
    BY <1>2 DEF Before
  <2>2. Cardinality(Before(line, a)) + 1 <= Cardinality(W)
    BY <1>1, <1>2, <2>1, BeforeMore
  <2> QED
    BY <1>1, <1>2, <2>2 DEF WordCount
<1>4. ASSUME NEW x \in W, NEW y \in W, x < y
      PROVE  C(x) # C(y)
  <2>1. Before(line, x) \cup {x} \subseteq Before(line, y)
    BY <1>1, <1>4 DEF Before
  <2>2. Cardinality(Before(line, x)) + 1 <= Cardinality(Before(line, y))
    BY <1>1, <2>1, BeforeMore
  <2>3. Cardinality(Before(line, x)) \in Nat
    BY StartsFinite
  <2> QED
    BY <1>1, <2>2, <2>3
<1>5. StartOf(k) = CHOOSE i \in W : C(i) = k - 1
  BY DEF StartOf
<1> HIDE DEF C, W
<1>6. \A x \in W : C(x) = k - 1 => x = a
  BY <1>1, <1>2, <1>4
<1>7. StartOf(k) = a
  BY <1>2, <1>5, <1>6
<1> QED
  BY <1>3, <1>7

\* From one word to the next: a word that ends before e, and spaces up to f.
LEMMA NextWord ==
  ASSUME line \in Seq(1 .. 127), NEW k \in Nat, NEW a, AtWord(a, k),
         NEW e \in a + 1 .. Len(line) + 1, NEW f \in e .. Len(line) + 1,
         \A x \in a .. e - 1 : line[x] # SPACE,
         \A x \in e .. f - 1 : line[x] = SPACE,
         f <= Len(line) => e < f /\ line[f] # SPACE
  PROVE  /\ f <= Len(line) => AtWord(f, k + 1)
         /\ f = Len(line) + 1 => WordCount = k
<1> DEFINE W == WordStarts(line)
           N == Len(line)
           B == Before(line, a)
           U == B \cup {a}
<1>1. /\ a \in W /\ Cardinality(B) = k - 1 /\ IsFiniteSet(B)
      /\ a \in Nat /\ a >= 1 /\ N \in Nat /\ DOMAIN line = 1 .. N
      /\ \A i \in W : i \in 1 .. N
  BY StartsFinite, LenProperties DEF AtWord
<1>2. e \in Nat /\ f \in Nat /\ a < e /\ e <= f /\ f <= N + 1
  BY <1>1
<1>3. ASSUME NEW j \in W, j < f
      PROVE  j \in U
  <2>1. /\ j \in Nat /\ j >= 1 /\ line[j] # SPACE /\ (j = 1 \/ line[j - 1] = SPACE)
    BY <1>1 DEF WordStarts, IsSpace
  <2>2. ~ (j \in e .. f - 1)
    BY <2>1
  <2>3. ~ (j - 1 \in a .. e - 1) \/ j = 1
    BY <2>1
  <2>4. j < a \/ j = a
    BY <1>1, <1>2, <1>3, <2>1, <2>2, <2>3
  <2> QED
    BY <2>4 DEF Before
<1>4. \A j \in U : j \in W /\ j < f
  BY <1>1, <1>2 DEF Before
<1>5. Before(line, f) = U
  BY <1>3, <1>4 DEF Before
<1>6. Cardinality(U) = k
  <2>1. a \notin B
    BY <1>1 DEF Before
  <2> HIDE DEF B
  <2>2. Cardinality(U) = Cardinality(B) + 1
    BY <1>1, <2>1, FS_AddElement
  <2> QED
    BY ONLY <1>1, <2>2, k \in Nat
<1>7. ASSUME f <= N
      PROVE  AtWord(f, k + 1)
  <2>1. f - 1 \in e .. f - 1 /\ f \in 1 .. N
    BY <1>1, <1>2, <1>7
  <2>2. f \in W
    BY <1>1, <1>7, <2>1 DEF WordStarts, IsSpace
  <2> QED
    BY <1>5, <1>6, <2>2 DEF AtWord
<1>8. ASSUME f = N + 1
      PROVE  WordCount = k
  <2>1. \A j \in W : j < f
    BY <1>1, <1>8
  <2>2. W = Before(line, f)
    BY <2>1 DEF Before
  <2> QED
    BY <1>5, <1>6, <2>2 DEF WordCount
<1> QED
  BY <1>7, <1>8

\* The first word.
LEMMA FirstWord ==
  ASSUME line \in Seq(1 .. 127), NEW f \in 1 .. Len(line) + 1,
         \A x \in 1 .. f - 1 : line[x] = SPACE,
         f <= Len(line) => line[f] # SPACE
  PROVE  /\ f <= Len(line) => AtWord(f, 1)
         /\ f = Len(line) + 1 => WordCount = 0
<1> DEFINE W == WordStarts(line)
           N == Len(line)
<1>1. N \in Nat /\ DOMAIN line = 1 .. N /\ \A i \in W : i \in 1 .. N /\ line[i] # SPACE
  BY StartsFinite, LenProperties
<1>2. \A j \in W : ~ (j < f)
  <2>1. ASSUME NEW j \in W, j < f
        PROVE  FALSE
    <3>1. j \in 1 .. f - 1
      BY <1>1, <2>1
    <3> QED
      BY <1>1, <3>1
  <2> QED
    BY <2>1
<1>3. Before(line, f) = {}
  BY <1>2 DEF Before
<1>4. Cardinality({}) = 0
  BY FS_EmptySet
<1>5. ASSUME f <= N
      PROVE  AtWord(f, 1)
  <2>1. f \in 1 .. N /\ (f = 1 \/ f - 1 \in 1 .. f - 1)
    BY <1>1, <1>5
  <2>2. f \in W
    BY <1>1, <1>5, <2>1 DEF WordStarts, IsSpace
  <2> QED
    BY <1>3, <1>4, <2>2 DEF AtWord
<1>6. ASSUME f = N + 1
      PROVE  WordCount = 0
  <2>1. W = {}
    BY <1>1, <1>2, <1>6
  <2> QED
    BY <1>4, <2>1 DEF WordCount
<1> QED
  BY <1>5, <1>6

-----------------------------------------------------------------------------
(* What the parser reads of them. *)

\* The empty sequence, which is not the NULL of a string function.
LEMMA NoneSeq ==
  ASSUME NEW S
  PROVE  << >> \in Seq(S) /\ Len(<< >>) = 0 /\ << >> # NULL
<1>1. << >> \in Seq(S) /\ Len(<< >>) = 0
  BY EmptySeq
<1>2. Len(NULL) = 1
  BY DEF NULL
<1> QED
  BY <1>1, <1>2

\* A string cut at n characters.
LEMMA TakeIs ==
  ASSUME NEW S, NEW s \in Seq(S), NEW n \in Nat
  PROVE  /\ Take(s, n) \in Seq(S) /\ Len(s) \in Nat
         /\ Len(Take(s, n)) = IF n < Len(s) THEN n ELSE Len(s)
         /\ \A k \in 1 .. Len(Take(s, n)) : Take(s, n)[k] = s[k]
         /\ Len(s) <= n => Take(s, n) = s
<1> DEFINE N == Len(s)
           m == IF n < N THEN n ELSE N
           t == Take(s, n)
<1>1. N \in Nat
  BY LenProperties
<1>2. m \in Nat /\ m <= N /\ t = SubSeq(s, 1, m)
  BY <1>1 DEF Take
<1> HIDE DEF m, t
<1>3. /\ SubSeq(s, 1, m) \in Seq(S) /\ Len(SubSeq(s, 1, m)) = m - 1 + 1
      /\ \A k \in 1 .. m - 1 + 1 : SubSeq(s, 1, m)[k] = s[1 + k - 1]
  <2>1. m \in Nat /\ 1 \in Nat /\ 1 >= 1 /\ m <= Len(s) /\ 1 <= m + 1
    BY <1>2
  <2>2. s \in Seq(S)
    OBVIOUS
  <2> QED
    BY ONLY <2>1, <2>2, SubSeqOf
<1>4. m - 1 + 1 = m /\ \A k \in 1 .. m : 1 + k - 1 = k
  BY <1>2
<1>5. t \in Seq(S) /\ Len(t) = m /\ \A k \in 1 .. m : t[k] = s[k]
  BY <1>2, <1>3, <1>4
<1>6. ASSUME N <= n
      PROVE  t = s
  <2>1. m = N
    BY <1>1, <1>6 DEF m
  <2>2. \A k \in 1 .. Len(t) : t[k] = s[k]
    BY <1>5
  <2> QED
    BY <1>5, <2>1, <2>2, SeqEqual
<1> QED
  BY <1>1, <1>5, <1>6 DEF t, m

\* What the string functions give for an empty string.
LEMMA NoneReads ==
  /\ wordOf(<< >>) = << >> /\ skipSpaces(<< >>) = << >>
  /\ Drop(<< >>, Len(wordOf(<< >>))) = << >>
  /\ \A n \in Nat : Take(<< >>, n) = << >>
<1> DEFINE S == 1 .. 127
<1>1. << >> \in Seq(S) /\ Len(<< >>) = 0
  BY NoneSeq
<1>2. ASSUME NEW chars
      PROVE  PrefixIn(<< >>, chars) = << >>
  <2> DEFINE p == PrefixIn(<< >>, chars)
  <2>1. Len(p) \in 0 .. Len(<< >>) /\ p \in Seq(S)
    BY <1>1, PrefixIs
  <2>2. Len(p) = 0
    BY <1>1, <2>1
  <2> QED
    BY <2>1, <2>2, EmptySeq
<1>4. ASSUME NEW n \in Nat
      PROVE  Take(<< >>, n) = << >>
  <2> DEFINE t == Take(<< >>, n)
  <2>1. t \in Seq(S) /\ Len(t) = IF n < Len(<< >>) THEN n ELSE Len(<< >>)
    BY <1>1, TakeIs
  <2>2. Len(t) = 0
    BY <1>1, <2>1
  <2> QED
    BY <2>1, <2>2, EmptySeq
<1>3. Drop(<< >>, 0) = << >>
  <2>1. Drop(<< >>, 0) = SubSeq(<< >>, 1, 0)
    BY <1>1 DEF Drop
  <2>2. Take(<< >>, 0) = SubSeq(<< >>, 1, 0)
    BY <1>1 DEF Take
  <2>3. Take(<< >>, 0) = << >>
    BY <1>4
  <2> QED
    BY <2>1, <2>2, <2>3
<1> QED
  BY <1>1, <1>2, <1>3, <1>4 DEF wordOf, skipSpaces

\* What the string functions give for the line from its k-th word on:
\* the word, and the line from its end on.
LEMMA WordAt ==
  ASSUME line \in Seq(1 .. 127), NEW k \in Nat, NEW a, AtWord(a, k)
  PROVE  \E e \in a + 1 .. Len(line) + 1 :
           /\ a \in 1 .. Len(line) + 1 /\ e \in 1 .. Len(line) + 1
           /\ \A x \in a .. e - 1 : line[x] # SPACE
           /\ e <= Len(line) => line[e] = SPACE
           /\ k <= WordCount /\ From(k) = Suffix(line, a)
           /\ Word(k) = wordOf(Suffix(line, a)) /\ Word(k) \in Seq(1 .. 127)
           /\ skipSpaces(Suffix(line, a)) = Suffix(line, a)
           /\ Drop(Suffix(line, a), Len(wordOf(Suffix(line, a)))) = Suffix(line, e)
<1> DEFINE N == Len(line)
           t == Suffix(line, a)
           LastOfWord(j) == /\ \A i \in a .. j : ~IsSpace(line, i)
                            /\ j = N \/ IsSpace(line, j + 1)
<1>1. N \in Nat /\ a \in 1 .. N /\ line[a] # SPACE
  BY StartsFinite, LenProperties DEF AtWord
<1>2. k <= WordCount /\ StartOf(k) = a
  BY AtWordIs
<1>3. WordCount \in Nat /\ ~ (k > WordCount)
  BY <1>2, StartsFinite DEF WordCount
<1>4. a \in 1 .. N + 1
  BY <1>1
<1>5. PICK e \in a .. N + 1 :
        /\ e \in 1 .. N + 1
        /\ \A x \in a .. e - 1 : line[x] # SPACE
        /\ e <= N => line[e] = SPACE
        /\ wordOf(t) = SubSeq(line, a, e - 1)
        /\ Drop(t, Len(wordOf(t))) = Suffix(line, e)
  BY <1>4, WordIs
<1>6. e \in Nat /\ a \in Nat /\ e # a
  BY <1>1, <1>5
<1>7. skipSpaces(t) = t
  BY <1>1, <1>4, SkipNone
<1>8. From(k) = t
  BY <1>2, <1>3 DEF From, Suffix
<1>9. Word(k) = SubSeq(line, a, CHOOSE j \in a .. N : LastOfWord(j))
  BY <1>2, <1>3 DEF Word
<1>10. e - 1 \in a .. N /\ LastOfWord(e - 1)
  <2>1. e - 1 \in a .. N /\ (e - 1) + 1 = e /\ (e - 1 = N \/ e <= N)
    BY <1>1, <1>5, <1>6
  <2> QED
    BY <1>5, <2>1 DEF IsSpace
<1>11. ASSUME NEW j \in a .. N, LastOfWord(j)
       PROVE  j = e - 1
  <2>1. ~ (j < e - 1)
    <3>1. ASSUME j < e - 1
          PROVE  FALSE
      <4>1. j # N /\ j + 1 \in a .. e - 1
        BY <1>1, <1>6, <1>10, <3>1
      <4> QED
        BY <1>5, <1>11, <4>1 DEF IsSpace
    <3> QED
      BY <3>1
  <2>2. ~ (e - 1 < j)
    <3>1. ASSUME e - 1 < j
          PROVE  FALSE
      <4>1. e <= N /\ e \in a .. j
        BY <1>1, <1>5, <1>6, <3>1
      <4> QED
        BY <1>5, <1>11, <4>1 DEF IsSpace
    <3> QED
      BY <3>1
  <2>3. j \in Int /\ e \in Int
    BY <1>6
  <2> QED
    BY ONLY <2>1, <2>2, <2>3
<1>12. (CHOOSE j \in a .. N : LastOfWord(j)) = e - 1
  <2> HIDE DEF LastOfWord
  <2> QED
    BY <1>10, <1>11
<1>13. Word(k) = wordOf(t)
  BY <1>5, <1>9, <1>12
<1>14. wordOf(t) \in Seq(1 .. 127)
  BY <1>4, SuffixIs, PrefixIs DEF wordOf
<1>15. e \in a + 1 .. N + 1
  BY <1>1, <1>5, <1>6
<1> QED
  BY <1>2, <1>4, <1>5, <1>7, <1>8, <1>13, <1>14, <1>15

\* The pointer that reads the k-th word next; past the last one it is NULL or
\* at the end of the line.
Cursor(s, k) ==
  \/ \E a : AtWord(a, k) /\ s = Suffix(line, a)
  \/ WordCount < k /\ s \in {NULL, << >>}

\* Behind the last word there is none.
LEMMA NoWord ==
  ASSUME line \in Seq(1 .. 127), NEW k \in Nat
  PROVE  /\ WordCount \in Nat
         /\ WordCount < k => Word(k) = << >> /\ From(k) = << >>
<1>1. WordCount \in Nat
  BY StartsFinite DEF WordCount
<1>2. WordCount < k => k > WordCount
  BY <1>1
<1> QED
  BY <1>1, <1>2 DEF Word, From

\* What is read at a cursor: its word, or the rest of the line.
LEMMA CursorReads ==
  ASSUME line \in Seq(1 .. 127), NEW k \in Nat, NEW s, Cursor(s, k)
  PROVE  /\ \A len \in Nat : findStr(s, len) = Take(Word(k), len)
         /\ MAX_SEND_TXT \in Nat => fillText(s) = Take(From(k), MAX_SEND_TXT)
         /\ Word(k) \in Seq(1 .. 127) /\ From(k) \in Seq(1 .. 127)
<1>1. CASE WordCount < k /\ s \in {NULL, << >>}
  <2>1. Word(k) = << >> /\ From(k) = << >>
    BY <1>1, NoWord
  <2>2. << >> \in Seq(1 .. 127) /\ << >> # NULL
    BY NoneSeq
  <2> QED
    BY <1>1, <2>1, <2>2, NoneReads DEF findStr, fillText
<1>2. ASSUME NEW a, AtWord(a, k), s = Suffix(line, a)
      PROVE  /\ \A len \in Nat : findStr(s, len) = Take(Word(k), len)
             /\ fillText(s) = Take(From(k), MAX_SEND_TXT)
             /\ Word(k) \in Seq(1 .. 127) /\ From(k) \in Seq(1 .. 127)
  <2>1. /\ a \in 1 .. Len(line) + 1 /\ From(k) = s
        /\ Word(k) = wordOf(s) /\ Word(k) \in Seq(1 .. 127) /\ skipSpaces(s) = s
    BY <1>2, WordAt
  <2>2. s # NULL /\ s \in Seq(1 .. 127)
    BY <1>2, <2>1, SuffixIs
  <2> QED
    BY <2>1, <2>2 DEF findStr, fillText
<1> QED
  BY <1>1, <1>2 DEF Cursor

\* stepString() goes from each word to the next.
LEMMA CursorSteps ==
  ASSUME line \in Seq(1 .. 127), NEW k \in Nat, NEW s, Cursor(s, k)
  PROVE  Cursor(stepString(s), k + 1)
<1>0. WordCount \in Nat
  BY NoWord
<1>1. CASE WordCount < k /\ s \in {NULL, << >>}
  <2>1. stepString(s) = NULL
    BY <1>1, NoneReads DEF stepString
  <2>2. WordCount < k + 1
    BY <1>0, <1>1
  <2> QED
    BY <2>1, <2>2 DEF Cursor
<1>2. ASSUME NEW a, AtWord(a, k), s = Suffix(line, a)
      PROVE  Cursor(stepString(s), k + 1)
  <2> DEFINE N == Len(line)
  <2>1. PICK e \in a + 1 .. N + 1 :
           /\ a \in 1 .. N + 1 /\ e \in 1 .. N + 1
           /\ \A x \in a .. e - 1 : line[x] # SPACE
           /\ e <= N => line[e] = SPACE
           /\ skipSpaces(s) = s /\ Drop(s, Len(wordOf(s))) = Suffix(line, e)
    BY <1>2, WordAt
  <2>2. s # NULL /\ N \in Nat /\ e \in Nat /\ (Suffix(line, e) = << >> <=> e = N + 1)
    BY <1>2, <2>1, SuffixIs
  <2>3. CASE e = N + 1
    <3>1. stepString(s) = NULL
      BY <2>1, <2>2, <2>3 DEF stepString
    <3>2. e \in e .. N + 1 /\ e .. e - 1 = {} /\ ~ (e <= N)
      BY <2>2, <2>3
    <3>3. WordCount = k
      BY <1>2, <2>1, <2>3, <3>2, NextWord
    <3>4. WordCount < k + 1
      BY <3>3
    <3> QED
      BY <3>1, <3>4 DEF Cursor
  <2>4. CASE e # N + 1
    <3>1. e <= N /\ line[e] = SPACE
      BY <2>1, <2>2, <2>4
    <3>2. stepString(s) = skipSpaces(Suffix(line, e))
      BY <2>1, <2>2, <2>4 DEF stepString
    <3>3. PICK f \in e .. N + 1 :
            /\ f \in 1 .. N + 1
            /\ \A x \in e .. f - 1 : line[x] = SPACE
            /\ f <= N => line[f] # SPACE
            /\ skipSpaces(Suffix(line, e)) = Suffix(line, f)
      BY <2>1, SkipIs
    <3>4. f <= N => e < f /\ line[f] # SPACE
      <4>1. f # e \/ ~ (f <= N)
        BY <3>1, <3>3
      <4> QED
        BY <2>2, <3>3, <4>1
    <3>5. /\ f <= N => AtWord(f, k + 1)
          /\ f = N + 1 => WordCount = k
      BY <1>2, <2>1, <3>3, <3>4, NextWord
    <3>6. CASE f <= N
      BY <3>2, <3>3, <3>5, <3>6 DEF Cursor
    <3>7. CASE f = N + 1
      <4>1. Suffix(line, f) = << >>
        BY <3>3, <3>7, SuffixIs
      <4>2. WordCount < k + 1
        BY <3>5, <3>7
      <4> QED
        BY <3>2, <3>3, <4>1, <4>2 DEF Cursor
    <3> QED
      BY <2>2, <3>3, <3>6, <3>7
  <2> QED
    BY <2>3, <2>4
<1> QED
  BY <1>1, <1>2 DEF Cursor

\* The first stepString() of a line goes to its second word.
LEMMA CursorSecond ==
  ASSUME line \in Seq(1 .. 127)
  PROVE  Cursor(stepString(line), 2)
<1> DEFINE N == Len(line)
<1>1. N \in Nat /\ line = Suffix(line, 1) /\ 1 \in 1 .. N + 1 /\ line # NULL
  <2>1. N \in Nat
    BY LenProperties
  <2>2. 1 \in 1 .. N + 1
    BY <2>1
  <2> DEFINE t == Suffix(line, 1)
  <2>3. /\ t \in Seq(1 .. 127) /\ Len(t) = N + 1 - 1 /\ t # NULL
        /\ \A k \in 1 .. N + 1 - 1 : t[k] = line[1 + k - 1]
    BY <2>2, SuffixIs
  <2>4. N + 1 - 1 = N /\ \A k \in 1 .. N : 1 + k - 1 = k
    BY <2>1
  <2> HIDE DEF t
  <2>5. Len(t) = Len(line) /\ \A k \in 1 .. Len(line) : t[k] = line[k]
    BY <2>3, <2>4
  <2>6. t = line
    BY <2>3, <2>5, SeqEqual
  <2> QED
    BY <2>1, <2>2, <2>3, <2>6 DEF t
<1>2. PICK f \in 1 .. N + 1 :
        /\ \A x \in 1 .. f - 1 : line[x] = SPACE
        /\ f <= N => line[f] # SPACE
        /\ skipSpaces(line) = Suffix(line, f)
  BY <1>1, SkipIs
<1> DEFINE s == Suffix(line, f)
<1>3. skipSpaces(s) = s /\ s # NULL /\ (s = << >> <=> f = N + 1)
  BY <1>2, SkipNone, SuffixIs
<1>4. stepString(line) = stepString(s)
  BY <1>1, <1>2, <1>3 DEF stepString
<1>5. /\ f <= N => AtWord(f, 1)
      /\ f = N + 1 => WordCount = 0
  BY <1>2, FirstWord
<1>6. f \in Nat /\ (f <= N \/ f = N + 1)
  BY <1>1, <1>2
<1>7. Cursor(s, 1)
  <2>1. WordCount = 0 => WordCount < 1
    OBVIOUS
  <2> QED
    BY <1>3, <1>5, <1>6, <2>1 DEF Cursor
<1> HIDE DEF s
<1>8. Cursor(stepString(s), 1 + 1)
  BY <1>7, CursorSteps
<1> QED
  BY <1>4, <1>8

-----------------------------------------------------------------------------
(* The number in front of the destinations. *)

\* getHandleNum() and findFirstHandle(): the number that was typed, and the
\* first destination behind it.
LEMMA NumberRead ==
  ASSUME line \in Seq(1 .. 127), MAX_HANDLE_SIZE \in Nat \ {0}
  PROVE  /\ getHandleNum(line) \in 1 .. 9 \cup {-1}
         /\ WellFormed => getHandleNum(line) = NumberTyped
         /\ FirstDest \in Nat /\ Cursor(findFirstHandle(line), FirstDest)
<1> DEFINE c == stepString(line)
           w == Word(2)
<1>1. Cursor(c, 2)
  BY CursorSecond
<1>2. /\ \A len \in Nat : findStr(c, len) = Take(w, len)
      /\ w \in Seq(1 .. 127)
  BY <1>1, CursorReads
<1> HIDE DEF w
<1>3. ASSUME NEW len \in Nat, len >= 2
      PROVE  /\ Len(Take(w, len)) = 1 <=> Len(w) = 1
             /\ Len(w) = 1 => Take(w, len) = w
  <2>1. /\ Len(w) \in Nat /\ Len(Take(w, len)) = IF len < Len(w) THEN len ELSE Len(w)
        /\ Len(w) <= len => Take(w, len) = w
    BY <1>2, TakeIs
  <2>2. PICK a \in Nat, b \in Int : a = Len(w) /\ b = Len(Take(w, len))
    BY ONLY <2>1, len \in Nat
  <2>3. b = (IF len < a THEN len ELSE a)
    BY ONLY <2>1, <2>2
  <2>4. (b = 1 <=> a = 1) /\ (a = 1 => a <= len)
    BY ONLY <1>3, <2>3, a \in Nat, len \in Nat
  <2> QED
    BY ONLY <2>1, <2>2, <2>4
<1>4. getHandleNum(line) = convertStrToInt(Take(w, 3))
  BY <1>2 DEF getHandleNum
<1>5. convertStrToInt(Take(w, 3)) = convertStrToInt(w)
  BY <1>3 DEF convertStrToInt
<1>6. convertStrToInt(w) \in 1 .. 9 \cup {-1}
  BY DEF convertStrToInt, DIGIT
<1>7. HasNumber <=> Len(w) = 1 /\ w[1] \in DIGIT
  BY DEF HasNumber, w
<1>8. ASSUME WellFormed
      PROVE  convertStrToInt(w) = NumberTyped
  <2>1. CASE HasNumber
    <3>1. w[1] - 48 > 0 /\ NumberTyped = w[1] - 48 /\ Len(w) = 1 /\ w[1] \in DIGIT
      BY <1>7, <1>8, <2>1 DEF WellFormed, NumberTyped, w
    <3> QED
      BY <3>1 DEF convertStrToInt, DIGIT
  <2>2. CASE ~ HasNumber
    <3>1. Len(w) # 1 /\ NumberTyped = 1
      BY <1>8, <2>2 DEF WellFormed, NumberTyped, w
    <3> QED
      BY <3>1 DEF convertStrToInt
  <2> QED
    BY <2>1, <2>2
<1>9. Cursor(findFirstHandle(line), FirstDest)
  <2>1. isNumber(findStr(c, MAX_HANDLE_SIZE + 1)) <=> HasNumber
    <3>1. MAX_HANDLE_SIZE + 1 \in Nat /\ MAX_HANDLE_SIZE + 1 >= 2
      OBVIOUS
    <3>2. findStr(c, MAX_HANDLE_SIZE + 1) = Take(w, MAX_HANDLE_SIZE + 1)
      BY <1>2, <3>1
    <3> QED
      BY <1>3, <1>7, <3>1, <3>2 DEF isNumber
  <2>2. findFirstHandle(line) = IF HasNumber THEN stepString(c) ELSE c
    BY <2>1 DEF findFirstHandle
  <2>3. Cursor(stepString(c), 2 + 1)
    BY <1>1, CursorSteps
  <2>4. 2 + 1 = 3
    OBVIOUS
  <2> HIDE DEF c
  <2> QED
    BY <1>1, <2>2, <2>3, <2>4 DEF FirstDest
<1>10. FirstDest \in Nat
  BY DEF FirstDest
<1> QED
  BY <1>4, <1>5, <1>6, <1>8, <1>9, <1>10

\* The pointers proc_M() goes through.
FromEq(f) == [i \in 0 .. 9 |-> IF i = 0 THEN findFirstHandle(line) ELSE stepString(f[i - 1])]
Froms == CHOOSE f : f = FromEq(f)

\* The strings proc_M() steps through begin at the destinations.
LEMMA FromsAre ==
  ASSUME line \in Seq(1 .. 127), MAX_HANDLE_SIZE \in Nat \ {0}
  PROVE  \A i \in 0 .. 9 : Cursor(Froms[i], FirstDest + i)
<1> DEFINE first == findFirstHandle(line)
           D == {s \in Seq(1 .. 127) \cup {NULL} : \E k \in Nat : Cursor(s, k)}
           T == [i \in Int |-> [s \in D |-> stepString(s)]]
<1>1. FirstDest \in Nat /\ Cursor(first, FirstDest)
  BY NumberRead
<1>2. ASSUME NEW s, NEW k \in Nat, Cursor(s, k)
      PROVE  s \in D
  <2>1. CASE s \in {NULL, << >>}
    <3>1. << >> \in Seq(1 .. 127)
      BY NoneSeq
    <3> QED
      BY <1>2, <2>1, <3>1
  <2>2. ASSUME NEW a, AtWord(a, k), s = Suffix(line, a)
        PROVE  s \in Seq(1 .. 127)
    <3>1. a \in 1 .. Len(line) + 1
      BY <2>2, WordAt
    <3> QED
      BY <2>2, <3>1, SuffixIs
  <2> QED
    BY <1>2, <2>1, <2>2 DEF Cursor
<1>3. \A s \in D : stepString(s) \in D
  <2>1. ASSUME NEW s \in D
        PROVE  stepString(s) \in D
    <3>1. PICK k \in Nat : Cursor(s, k)
      BY <2>1
    <3>2. Cursor(stepString(s), k + 1)
      BY <3>1, CursorSteps
    <3> QED
      BY <1>2, <3>2
  <2> QED
    BY <2>1
<1>4. first \in D
  BY <1>1, <1>2
<1> HIDE DEF D
<1>5. T \in [Int -> [D -> D]]
  BY <1>3
<1>6. PICK g \in [0 .. 9 -> D] : g[0] = first /\ \A i \in 1 .. 9 : g[i] = stepString(g[i - 1])
  <2>1. PICK a \in Int, n \in Nat : a = 0 /\ n = 9
    OBVIOUS
  <2> HIDE DEF T, first
  <2>2. \E g \in [a .. a + n -> D] : g[a] = first /\ StepsBy(g, T, a, a + n)
    BY ONLY a \in Int, n \in Nat, <1>4, <1>5, RecExists, Zenon
  <2>3. PICK g \in [0 .. 9 -> D] : g[0] = first /\ \A i \in 1 .. 9 : g[i] = T[i][g[i - 1]]
    <3>1. a + n = 9 /\ a + 1 = 1
      BY <2>1
    <3> QED
      BY <2>1, <2>2, <3>1 DEF StepsBy
  <2>4. \A i \in 1 .. 9 : i \in Int /\ i - 1 \in 0 .. 9
    OBVIOUS
  <2>5. \A i \in 1 .. 9 : T[i][g[i - 1]] = stepString(g[i - 1])
    BY <2>3, <2>4 DEF T
  <2> QED
    BY <2>3, <2>5
<1>7. g = FromEq(g)
  <2>1. \A i \in 0 .. 9 : i = 0 \/ i \in 1 .. 9
    OBVIOUS
  <2>2. \A i \in 0 .. 9 : g[i] = IF i = 0 THEN first ELSE stepString(g[i - 1])
    BY <1>6, <2>1
  <2>3. g = [i \in 0 .. 9 |-> g[i]]
    BY <1>6
  <2> QED
    BY <2>2, <2>3 DEF FromEq
<1>8. Froms = FromEq(Froms)
  BY <1>7 DEF Froms
<1>9. Froms[0] = first /\ \A i \in 1 .. 9 : Froms[i] = stepString(Froms[i - 1])
  <2> DEFINE f == Froms
  <2>1. f = FromEq(f)
    BY <1>8
  <2> HIDE DEF f
  <2>2. \A i \in 0 .. 9 : f[i] = IF i = 0 THEN first ELSE stepString(f[i - 1])
    BY <2>1 DEF FromEq
  <2>3. 0 \in 0 .. 9 /\ \A i \in 1 .. 9 : i \in 0 .. 9 /\ i # 0
    OBVIOUS
  <2> QED
    BY <2>2, <2>3 DEF f
<1> DEFINE Q == {i \in Nat : i <= 9 => Cursor(Froms[i], FirstDest + i)}
<1>10. 0 \in Q
  BY <1>1, <1>9
<1>11. ASSUME NEW i \in Nat, i \in Q
       PROVE  i + 1 \in Q
  <2>1. ASSUME i + 1 <= 9
        PROVE  Cursor(Froms[i + 1], FirstDest + (i + 1))
    <3>1. i + 1 \in 1 .. 9 /\ (i + 1) - 1 = i /\ i <= 9
      BY <2>1
    <3>2. Froms[i + 1] = stepString(Froms[i]) /\ Cursor(Froms[i], FirstDest + i)
      BY <1>9, <1>11, <3>1
    <3>3. FirstDest + i \in Nat /\ (FirstDest + i) + 1 = FirstDest + (i + 1)
      BY <1>1
    <3>4. Cursor(stepString(Froms[i]), (FirstDest + i) + 1)
      BY <3>2, <3>3, CursorSteps
    <3> QED
      BY <3>2, <3>3, <3>4
  <2> QED
    BY <2>1
<1>12. \A i \in Nat : i \in Q
  <2> HIDE DEF Q
  <2> QED
    BY <1>10, <1>11, NatIsInductive
<1> QED
  BY <1>12

-----------------------------------------------------------------------------
(* PDUs and their parts. *)

\* Characters are numbers, as the bytes of a message are.
LEMMA AreNumbers ==
  ASSUME NEW s \in Seq(1 .. 127)
  PROVE  s \in Seq(Nat)
<1>1. 1 .. 127 \subseteq Nat
  OBVIOUS
<1> QED
  BY <1>1, SeqMonotonic

\* A sequence of one byte.
LEMMA OneIs ==
  ASSUME NEW x \in Nat
  PROVE  << x >> \in Seq(Nat) /\ Len(<< x >>) = 1 /\ << x >>[1] = x
OBVIOUS

\* What FlattenSeq() makes of one block or more, and where the blocks are.
LEMMA FlattenPlaces ==
  ASSUME NEW S, NEW n \in Nat \ {0}, NEW blocks \in [1 .. n -> Seq(S)]
  PROVE  \E off \in [1 .. n + 1 -> Nat] :
           /\ FlattenSeq(blocks) \in Seq(S)
           /\ off[1] = 0 /\ off[n + 1] = Len(FlattenSeq(blocks))
           /\ \A i \in 1 .. n : /\ off[i + 1] = off[i] + Len(blocks[i])
                                /\ Has(FlattenSeq(blocks), off[i], blocks[i])
<1> DEFINE D == Seq(S)
           Put(i, s) == IF i \in 1 .. n THEN s \o blocks[i] ELSE s
           T == [i \in Int |-> [s \in D |-> Put(i, s)]]
           Eq(f) == [i \in 1 .. n |-> IF i = 1 THEN blocks[i] ELSE f[i - 1] \o blocks[i]]
           F == CHOOSE f : f = Eq(f)
<1>1. \A i \in 1 .. n : blocks[i] \in D
  OBVIOUS
<1>2. Len(blocks) = n
  <2>1. blocks \in Seq(D)
    BY SeqDef
  <2>2. Len(blocks) \in Nat /\ DOMAIN blocks = 1 .. Len(blocks)
    BY <2>1, LenProperties
  <2>3. DOMAIN blocks = 1 .. n
    OBVIOUS
  <2> QED
    BY <2>2, <2>3
<1>3. FlattenSeq(blocks) = F[n]
  <2>1. FlattenSeq(blocks) = (CHOOSE f : f = [i \in 1 .. Len(blocks) |->
                                IF i = 1 THEN blocks[i] ELSE f[i - 1] \o blocks[i]])[Len(blocks)]
    BY <1>2 DEF FlattenSeq
  <2> QED
    BY <1>2, <2>1
<1>4. T \in [Int -> [D -> D]]
  <2>1. ASSUME NEW i \in Int, NEW s \in D
        PROVE  Put(i, s) \in D
    BY <1>1, ConcatProperties
  <2> HIDE DEF Put
  <2> QED
    BY <2>1
<1>5. PICK g \in [1 .. n -> D] : g[1] = blocks[1] /\ \A i \in 2 .. n : g[i] = g[i - 1] \o blocks[i]
  <2>1. PICK a \in Int, m \in Nat : a = 1 /\ m = n - 1
    OBVIOUS
  <2>2. blocks[1] \in D
    BY <1>1
  <2>3. PICK x : x = blocks[1]
    OBVIOUS
  <2>4. x \in D
    BY <2>2, <2>3
  <2> HIDE DEF T, D
  <2>5. \E g \in [a .. a + m -> D] : g[a] = x /\ StepsBy(g, T, a, a + m)
    BY ONLY a \in Int, m \in Nat, <1>4, <2>4, RecExists, Zenon
  <2>9. PICK g \in [a .. a + m -> D] : g[a] = x /\ StepsBy(g, T, a, a + m)
    BY <2>5
  <2>6. g \in [1 .. n -> D] /\ g[1] = x /\ \A i \in 2 .. n : g[i] = T[i][g[i - 1]]
    <3>1. a + m = n /\ a + 1 = 2 /\ a = 1
      BY <2>1
    <3>2. \A i \in a + 1 .. a + m : g[i] = T[i][g[i - 1]]
      BY <2>9 DEF StepsBy
    <3> QED
      BY <2>9, <3>1, <3>2
  <2>7. \A i \in 2 .. n : i \in Int /\ i - 1 \in 1 .. n /\ i \in 1 .. n
    OBVIOUS
  <2>8. \A i \in 2 .. n : T[i][g[i - 1]] = g[i - 1] \o blocks[i]
    BY <2>6, <2>7 DEF T
  <2> QED
    BY <2>3, <2>6, <2>8
<1>6. g = Eq(g)
  <2>1. \A i \in 1 .. n : i = 1 \/ i \in 2 .. n
    OBVIOUS
  <2>2. \A i \in 1 .. n : g[i] = IF i = 1 THEN blocks[i] ELSE g[i - 1] \o blocks[i]
    BY <1>5, <2>1
  <2>3. g = [i \in 1 .. n |-> g[i]]
    BY <1>5
  <2> QED
    BY <2>2, <2>3
<1>7. F = Eq(F)
  <2> HIDE DEF Eq
  <2> QED
    BY <1>6
<1> HIDE DEF F, T, Put
<1>8. F[1] = blocks[1] /\ \A i \in 2 .. n : F[i] = F[i - 1] \o blocks[i]
  <2>1. \A i \in 1 .. n : F[i] = IF i = 1 THEN blocks[i] ELSE F[i - 1] \o blocks[i]
    BY <1>7
  <2>2. 1 \in 1 .. n /\ \A i \in 2 .. n : i \in 1 .. n /\ i # 1
    OBVIOUS
  <2> QED
    BY <2>1, <2>2
<1> DEFINE off == [i \in 1 .. n + 1 |-> IF i = 1 THEN 0 ELSE Len(F[i - 1])]
           Good(i) == /\ F[i] \in D /\ off[i + 1] = off[i] + Len(blocks[i])
                      /\ off[i] \in Nat /\ off[i + 1] \in Nat
                      /\ \A j \in 1 .. i : off[j] \in Nat /\ Has(F[i], off[j], blocks[j])
           Q == {k \in Nat : k + 1 <= n => Good(k + 1)}
<1>9. \A i \in 1 .. n : off[i + 1] = Len(F[i])
  <2>1. \A i \in 1 .. n : i + 1 \in 1 .. n + 1 /\ i + 1 # 1 /\ (i + 1) - 1 = i
    OBVIOUS
  <2> QED
    BY <2>1
<1>10. off[1] = 0
  OBVIOUS
<1>11. off = [i \in 1 .. n + 1 |-> off[i]]
  OBVIOUS
<1> HIDE DEF off
<1>12. 0 \in Q
  <2>1. /\ 1 \in 1 .. n /\ F[1] \in D /\ off[1 + 1] = Len(blocks[1]) /\ Len(blocks[1]) \in Nat
        /\ F[1] = blocks[1]
    BY <1>1, <1>8, <1>9, LenProperties
  <2>2. Has(F[1], 0, blocks[1])
    BY <2>1 DEF Has
  <2>3. Good(1)
    <3>1. \A j \in 1 .. 1 : j = 1
      OBVIOUS
    <3> QED
      BY <1>10, <2>1, <2>2, <3>1
  <2> QED
    BY <2>3
<1>13. ASSUME NEW k \in Nat, k \in Q
       PROVE  k + 1 \in Q
  <2> SUFFICES ASSUME (k + 1) + 1 <= n
               PROVE  Good((k + 1) + 1)
    OBVIOUS
  <2>1. PICK i \in 1 .. n : i = k + 1 /\ i + 1 \in 2 .. n /\ i + 1 \in 1 .. n /\ (i + 1) - 1 = i
    OBVIOUS
  <2>2. Good(i)
    BY <1>13, <2>1
  <2> DEFINE f == F[i]
             b == blocks[i + 1]
  <2>3. F[i + 1] = f \o b /\ f \in D /\ b \in D
    BY <1>1, <1>8, <2>1, <2>2
  <2>4. /\ f \o b \in D /\ Len(f \o b) = Len(f) + Len(b) /\ Has(f \o b, Len(f), b)
        /\ \A m \in Nat, x \in D : Has(f, m, x) => Has(f \o b, m, x)
    BY <2>3, Appended
  <2>5. /\ off[i + 1] = Len(f) /\ off[(i + 1) + 1] = Len(f \o b)
        /\ Len(f) \in Nat /\ Len(b) \in Nat
    BY <1>9, <2>1, <2>3, LenProperties
  <2>6. ASSUME NEW j \in 1 .. i + 1
        PROVE  off[j] \in Nat /\ Has(f \o b, off[j], blocks[j])
    <3>1. CASE j = i + 1
      BY <2>4, <2>5, <3>1
    <3>2. CASE j \in 1 .. i
      <4>1. Has(f, off[j], blocks[j]) /\ blocks[j] \in D /\ off[j] \in Nat
        BY <1>1, <2>2, <3>2
      <4> QED
        BY <2>4, <4>1
    <3> QED
      BY <2>1, <3>1, <3>2
  <2> HIDE DEF f, b
  <2>7. Len(f) + Len(b) \in Nat
    BY ONLY <2>5
  <2>9. (k + 1) + 1 = i + 1
    BY ONLY <2>1
  <2>8. Good(i + 1)
    BY <2>3, <2>4, <2>5, <2>6, <2>7 DEF b
  <2> QED
    BY <2>8, <2>9
<1>14. \A i \in 1 .. n : Good(i)
  <2>1. \A k \in Nat : k \in Q
    <3> HIDE DEF Q
    <3> QED
      BY <1>12, <1>13, NatIsInductive
  <2>2. ASSUME NEW i \in 1 .. n
        PROVE  Good(i)
    <3>1. i - 1 \in Nat /\ (i - 1) + 1 = i /\ i <= n
      OBVIOUS
    <3>2. i - 1 \in Q
      BY <2>1, <3>1
    <3> QED
      BY <3>1, <3>2
  <2> QED
    BY <2>2
<1>15. off \in [1 .. n + 1 -> Nat]
  <2>1. ASSUME NEW i \in 1 .. n + 1
        PROVE  off[i] \in Nat
    <3>1. i \in 1 .. n \/ (n \in 1 .. n /\ i = n + 1)
      OBVIOUS
    <3> QED
      BY <1>14, <3>1
  <2> QED
    BY <1>11, <2>1
<1>16. n \in 1 .. n
  OBVIOUS
<1> QED
  BY <1>3, <1>9, <1>10, <1>14, <1>15, <1>16

\* A PDU has the length its first two bytes say, and then its flag and body.
LEMMA PduIs ==
  ASSUME NEW flag \in Nat, NEW body \in Seq(Nat)
  PROVE  /\ PDU(flag, body) \in Seq(Nat) /\ PDU(flag, body) # << >>
         /\ Len(PDU(flag, body)) = 3 + Len(body) /\ ntohs(PDU(flag, body)) = 3 + Len(body)
         /\ messageOf(PDU(flag, body)) = << flag >> \o body
         /\ flagOf(messageOf(PDU(flag, body))) = flag
         /\ << flag >> \o body \in Seq(Nat) /\ Len(<< flag >> \o body) = 1 + Len(body)
<1> DEFINE N == 3 + Len(body)
           p == PDU(flag, body)
           m == << flag >> \o body
<1>1. Len(body) \in Nat /\ N \in Nat
  BY LenProperties
<1>2. PICK x, y \in Nat : x = N \div 256 /\ y = N % 256 /\ 256 * x + y = N
  BY <1>1
<1> DEFINE h == << x, y, flag >>
<1>3. h \in Seq(Nat) /\ Len(h) = 3 /\ h[1] = x /\ h[2] = y /\ h[3] = flag
  OBVIOUS
<1>4. p = h \o body
  BY <1>2 DEF PDU, fillChatHeader
<1> HIDE DEF h, N
<1>5. /\ p \in Seq(Nat) /\ Len(p) = 3 + Len(body)
      /\ \A i \in 1 .. 3 + Len(body) : p[i] = IF i <= 3 THEN h[i] ELSE body[i - 3]
  <2>1. /\ h \o body \in Seq(Nat) /\ Len(h \o body) = Len(h) + Len(body)
        /\ \A i \in 1 .. Len(h) + Len(body) :
              (h \o body)[i] = IF i <= Len(h) THEN h[i] ELSE body[i - Len(h)]
    BY <1>3, ConcatProperties
  <2> QED
    BY <1>3, <1>4, <2>1
<1>6. p[1] = x /\ p[2] = y /\ p[3] = flag
  <2>1. 1 \in 1 .. 3 + Len(body) /\ 2 \in 1 .. 3 + Len(body) /\ 3 \in 1 .. 3 + Len(body)
    BY <1>1
  <2> QED
    BY <1>3, <1>5, <2>1
<1>7. ntohs(p) = N
  BY <1>2, <1>6 DEF ntohs
<1>8. /\ m \in Seq(Nat) /\ Len(m) = 1 + Len(body)
      /\ \A i \in 1 .. 1 + Len(body) : m[i] = IF i <= 1 THEN flag ELSE body[i - 1]
  <2>1. << flag >> \in Seq(Nat) /\ Len(<< flag >>) = 1 /\ << flag >>[1] = flag
    BY OneIs
  <2>2. /\ m \in Seq(Nat) /\ Len(m) = Len(<< flag >>) + Len(body)
        /\ \A i \in 1 .. Len(<< flag >>) + Len(body) :
              m[i] = IF i <= Len(<< flag >>) THEN << flag >>[i] ELSE body[i - Len(<< flag >>)]
    BY <2>1, ConcatProperties
  <2>3. ASSUME NEW i \in 1 .. 1 + Len(body)
        PROVE  m[i] = IF i <= 1 THEN flag ELSE body[i - 1]
    <3>1. i <= 1 => i = 1
      BY <1>1
    <3> QED
      BY <2>1, <2>2, <3>1
  <2> QED
    BY <2>1, <2>2, <2>3
<1> HIDE DEF p, m
<1>9. Has(p, 2, m)
  <2>1. ASSUME NEW i \in 1 .. 1 + Len(body)
        PROVE  p[2 + i] = m[i]
    <3>1. 2 + i \in 1 .. 3 + Len(body) /\ (2 + i <= 3 <=> i <= 1) /\ (i <= 1 => 2 + i = 3)
          /\ (2 + i) - 3 = i - 1
      BY <1>1
    <3>2. p[2 + i] = IF 2 + i <= 3 THEN h[2 + i] ELSE body[(2 + i) - 3]
      BY <1>5, <3>1
    <3>3. m[i] = IF i <= 1 THEN flag ELSE body[i - 1]
      BY <1>8
    <3> QED
      BY <1>3, <3>1, <3>2, <3>3
  <2> QED
    BY <1>1, <1>5, <1>8, <2>1 DEF Has
<1>10. messageOf(p) = m
  <2>1. SubSeq(p, 2 + 1, 2 + Len(m)) = m
    BY <1>5, <1>8, <1>9, PartRead
  <2>2. 2 + 1 = 3 /\ 2 + Len(m) = N
    BY <1>1, <1>8 DEF N
  <2> QED
    BY <1>7, <2>1, <2>2 DEF messageOf
<1>11. m[1] = flag
  <2>1. 1 \in 1 .. 1 + Len(body)
    BY <1>1
  <2> QED
    BY <1>8, <2>1
<1>12. p # << >>
  <2>1. Len(<< >>) = 0
    OBVIOUS
  <2>2. Len(p) # 0
    BY <1>1, <1>5
  <2> QED
    BY <2>1, <2>2
<1>13. p \in Seq(Nat) /\ Len(p) = 3 + Len(body) /\ ntohs(p) = 3 + Len(body)
  BY <1>5, <1>7 DEF N
<1> QED
  BY <1>8, <1>10, <1>11, <1>12, <1>13 DEF p, m, flagOf

\* A new header instead of the flag in front of the same body.
LEMMA NewMessageIs ==
  ASSUME NEW flag \in Nat, NEW x \in Nat, NEW body \in Seq(Nat)
  PROVE  createNewMessage(flag, 3 + Len(body), << x >> \o body) = PDU(flag, body)
<1> DEFINE m == << x >> \o body
<1>1. << x >> \in Seq(Nat) /\ Len(<< x >>) = 1 /\ Len(body) \in Nat
  BY OneIs, LenProperties
<1>2. m \in Seq(Nat) /\ Has(m, 1, body)
  <2>1. m \in Seq(Nat) /\ Has(m, Len(<< x >>), body)
    BY <1>1, Appended
  <2> QED
    BY <1>1, <2>1
<1> HIDE DEF m
<1>3. SubSeq(m, 1 + 1, 1 + Len(body)) = body
  BY <1>2, PartRead
<1>4. 1 + 1 = 2 /\ 1 + (3 + Len(body)) - 3 = 1 + Len(body)
  BY <1>1
<1> QED
  BY <1>3, <1>4 DEF createNewMessage, PDU, m

\* A handle behind its length.
LEMMA HandleBytes ==
  ASSUME NEW handle \in Seq(Nat)
  PROVE  /\ fillHandle(handle) \in Seq(Nat) /\ Len(handle) \in Nat
         /\ Len(fillHandle(handle)) = 1 + Len(handle)
         /\ fillHandle(handle)[1] = Len(handle) /\ Has(fillHandle(handle), 1, handle)
<1> DEFINE n == Len(handle)
           one == << n >>
<1>1. n \in Nat
  BY LenProperties
<1>2. one \in Seq(Nat) /\ Len(one) = 1 /\ one[1] = n
  BY <1>1, OneIs
<1> HIDE DEF one
<1>3. /\ one \o handle \in Seq(Nat) /\ Len(one \o handle) = Len(one) + Len(handle)
      /\ Has(one \o handle, Len(one), handle) /\ Has(one \o handle, 0, one)
  BY <1>2, Appended
<1>4. (one \o handle)[1] = n
  <2>1. 1 \in 1 .. Len(one) /\ 0 + 1 = 1
    BY <1>2
  <2> QED
    BY <1>2, <1>3, <2>1 DEF Has
<1> QED
  BY <1>1, <1>2, <1>3, <1>4 DEF fillHandle, one

\* A message that begins with a name.
Named(flag, handle, rest) ==
  LET body == fillHandle(handle) \o rest
      m == << flag >> \o body
  IN  /\ body \in Seq(Nat) /\ m \in Seq(Nat)
      /\ Len(m) = 2 + Len(handle) + Len(rest) /\ Len(body) = 1 + Len(handle) + Len(rest)
      /\ m[1] = flag /\ m[2] = Len(handle) /\ Len(handle) \in Nat /\ Len(rest) \in Nat
      /\ findSender(m) = handle /\ Has(m, 2 + Len(handle), rest)

\* A message with a handle in front, and what is read of it.
LEMMA NamedIs ==
  ASSUME NEW flag \in Nat, NEW handle \in Seq(Nat), NEW rest \in Seq(Nat)
  PROVE  Named(flag, handle, rest)
<1> DEFINE f == fillHandle(handle)
           body == f \o rest
           one == << flag >>
           m == one \o body
           N == Len(handle)
<1>1. one \in Seq(Nat) /\ Len(one) = 1 /\ one[1] = flag /\ Len(rest) \in Nat
  BY OneIs, LenProperties
<1>2. f \in Seq(Nat) /\ N \in Nat /\ Len(f) = 1 + N /\ f[1] = N /\ Has(f, 1, handle)
  BY HandleBytes
<1> HIDE DEF f, one, N
<1>3. /\ body \in Seq(Nat) /\ Len(body) = Len(f) + Len(rest)
      /\ Has(body, Len(f), rest) /\ Has(body, 0, f)
  BY <1>2, Appended
<1> HIDE DEF body
<1>4. /\ m \in Seq(Nat) /\ Len(m) = Len(one) + Len(body)
      /\ Has(m, Len(one), body) /\ Has(m, 0, one)
  BY <1>1, <1>3, Appended
<1> HIDE DEF m
<1>5. Has(m, 1, body)
  BY <1>1, <1>4
<1>6. Has(m, 1 + (1 + N), rest)
  BY <1>2, <1>3, <1>4, <1>5, PartOfPart
<1>7. Has(m, 1 + 0, f)
  BY <1>2, <1>3, <1>4, <1>5, PartOfPart
<1>8. Has(m, (1 + 0) + 1, handle)
  BY <1>2, <1>4, <1>7, PartOfPart
<1>9. 1 + (1 + N) = 2 + N /\ 1 + 0 = 1 /\ (1 + 0) + 1 = 2 /\ 2 + 1 = 3
  BY <1>2
<1>10. m[1] = flag
  <2>1. 1 \in 1 .. Len(one) /\ 0 + 1 = 1
    BY <1>1
  <2> QED
    BY <1>1, <1>4, <2>1 DEF Has
<1>11. m[2] = N
  <2>1. 1 \in 1 .. Len(f) /\ 1 + 1 = 2
    BY <1>2
  <2>2. Has(m, 1, f)
    BY <1>7, <1>9
  <2> QED
    BY <1>2, <2>1, <2>2 DEF Has
<1>12. findSender(m) = handle
  <2>1. Has(m, 2, handle)
    BY <1>8, <1>9
  <2>2. SubSeq(m, 2 + 1, 2 + Len(handle)) = handle
    BY <1>4, <2>1, PartRead
  <2> QED
    BY <1>9, <1>11, <2>2 DEF findSender, N
<1>13. Len(m) = 2 + N + Len(rest) /\ Len(body) = 1 + N + Len(rest)
  BY <1>1, <1>2, <1>3, <1>4
<1>14. Has(m, 2 + N, rest)
  BY <1>6, <1>9
<1> QED
  BY <1>1, <1>2, <1>3, <1>4, <1>10, <1>11, <1>12, <1>13, <1>14
     DEF Named, m, body, f, one, N

\* A message that has a name only.
LEMMA NameAlone ==
  ASSUME NEW flag \in Nat, NEW handle \in Seq(Nat)
  PROVE  /\ fillHandle(handle) \in Seq(Nat) /\ Len(fillHandle(handle)) = 1 + Len(handle)
         /\ Len(handle) \in Nat
         /\ findSender(messageOf(PDU(flag, fillHandle(handle)))) = handle
<1>1. fillHandle(handle) \in Seq(Nat) /\ Len(fillHandle(handle)) = 1 + Len(handle)
      /\ Len(handle) \in Nat
  BY HandleBytes
<1>2. << >> \in Seq(Nat)
  BY NoneSeq
<1>3. fillHandle(handle) \o << >> = fillHandle(handle)
  BY <1>1, ConcatEmptySeq
<1>4. findSender(<< flag >> \o (fillHandle(handle) \o << >>)) = handle
  BY <1>2, NamedIs DEF Named
<1>5. messageOf(PDU(flag, fillHandle(handle))) = << flag >> \o fillHandle(handle)
  BY <1>1, PduIs
<1> QED
  BY <1>1, <1>3, <1>4, <1>5

-----------------------------------------------------------------------------
(* A message to several. *)

\* Where the destinations are, by the steps of nextHandle().
AtEq(g, m) == [i \in 1 .. 9 |-> IF i = 1 THEN 4 + m[2] ELSE g[i - 1] + m[g[i - 1]] + 1]
Ats(m) == CHOOSE g : g = AtEq(g, m)

\* destHandleAt() goes from one length byte to the next.
LEMMA AtsAre ==
  ASSUME NEW m
  PROVE  /\ \A n : destHandleAt(m, n) = Ats(m)[n]
         /\ Ats(m)[1] = 4 + m[2]
         /\ \A i \in 2 .. 9 : Ats(m)[i] = Ats(m)[i - 1] + m[Ats(m)[i - 1]] + 1
<1> DEFINE Nxt(v) == v + m[v] + 1
           Eq(g) == [i \in 1 .. 9 |-> IF i = 1 THEN 4 + m[2] ELSE Nxt(g[i - 1])]
<1>1. \A g : AtEq(g, m) = Eq(g)
  BY DEF AtEq
<1>2. PICK w1, w2, w3, w4, w5, w6, w7, w8, w9 :
        /\ w1 = 4 + m[2] /\ w2 = Nxt(w1) /\ w3 = Nxt(w2) /\ w4 = Nxt(w3) /\ w5 = Nxt(w4)
        /\ w6 = Nxt(w5) /\ w7 = Nxt(w6) /\ w8 = Nxt(w7) /\ w9 = Nxt(w8)
  <2> HIDE DEF Nxt
  <2> QED
    OBVIOUS
<1> DEFINE g == << w1, w2, w3, w4, w5, w6, w7, w8, w9 >>
<1>3. \E f : f = Eq(f)
  <2> HIDE DEF Nxt
  <2>1. /\ g[1] = w1 /\ g[2] = w2 /\ g[3] = w3 /\ g[4] = w4 /\ g[5] = w5 /\ g[6] = w6
        /\ g[7] = w7 /\ g[8] = w8 /\ g[9] = w9 /\ g = [i \in 1 .. 9 |-> g[i]]
    OBVIOUS
  <2> HIDE DEF g
  <2>2. \A i \in 1 .. 9 : g[i] = IF i = 1 THEN 4 + m[2] ELSE Nxt(g[i - 1])
    <3>1. \A i \in 1 .. 9 : \/ i = 1 \/ i = 2 \/ i = 3 \/ i = 4 \/ i = 5 \/ i = 6
                            \/ i = 7 \/ i = 8 \/ i = 9
      OBVIOUS
    <3>2. /\ 2 - 1 = 1 /\ 3 - 1 = 2 /\ 4 - 1 = 3 /\ 5 - 1 = 4 /\ 6 - 1 = 5
          /\ 7 - 1 = 6 /\ 8 - 1 = 7 /\ 9 - 1 = 8
      OBVIOUS
    <3> QED
      BY <1>2, <2>1, <3>1, <3>2
  <2>3. g = Eq(g)
    BY <2>1, <2>2
  <2> HIDE DEF Eq
  <2> QED
    BY <2>3
<1> DEFINE f == Ats(m)
<1>4. f = Eq(f)
  <2> HIDE DEF Eq
  <2> QED
    BY <1>1, <1>3 DEF Ats
<1>5. \A n : destHandleAt(m, n) = f[n]
  BY DEF destHandleAt, Ats, AtEq
<1> HIDE DEF f, Nxt
<1>6. \A i \in 1 .. 9 : f[i] = IF i = 1 THEN 4 + m[2] ELSE Nxt(f[i - 1])
  BY <1>4
<1>7. 1 \in 1 .. 9 /\ \A i \in 2 .. 9 : i \in 1 .. 9 /\ i # 1
  OBVIOUS
<1>8. f[1] = 4 + m[2] /\ \A i \in 2 .. 9 : f[i] = Nxt(f[i - 1])
  BY <1>6, <1>7
<1> QED
  BY <1>5, <1>8 DEF f, Nxt

BlocksOf(words, n) == [i \in 1 .. n |-> fillHandle(words[i])]

\* What the server and the receivers find in a message to n destinations.
LEMMA ForwardedIs ==
  ASSUME NEW n \in 1 .. 9, NEW words \in [1 .. n -> Seq(Nat)], NEW handle \in Seq(Nat),
         NEW text \in Seq(Nat)
  PROVE  LET rest == << n >> \o (FlattenSeq(BlocksOf(words, n)) \o text)
             m == << 5 >> \o (fillHandle(handle) \o rest)
         IN  /\ rest \in Seq(Nat)
             /\ findSender(m) = handle /\ findNumHandles(m) = n
             /\ \A i \in 1 .. n : findDestHandle(m, i) = words[i]
             /\ getText(m, 2 + Len(m)) = text
<1> DEFINE blocks == BlocksOf(words, n)
           flat == FlattenSeq(blocks)
           one == << n >>
           tail == flat \o text
           rest == one \o tail
           m == << 5 >> \o (fillHandle(handle) \o rest)
           H == Len(handle)
           L == Len(flat)
<1>1. n \in Nat \ {0} /\ n \in Nat /\ n >= 1 /\ n <= 9
  OBVIOUS
<1>2. /\ \A i \in 1 .. n : words[i] \in Seq(Nat) /\ blocks[i] = fillHandle(words[i])
      /\ blocks = [i \in 1 .. n |-> fillHandle(words[i])]
  BY DEF BlocksOf
<1>3. \A i \in 1 .. n : /\ blocks[i] \in Seq(Nat) /\ Len(blocks[i]) = 1 + Len(words[i])
                        /\ blocks[i][1] = Len(words[i]) /\ Has(blocks[i], 1, words[i])
                        /\ Len(words[i]) \in Nat
  BY <1>2, HandleBytes
<1> HIDE DEF blocks
<1>4. blocks \in [1 .. n -> Seq(Nat)]
  BY <1>2, <1>3
<1>5. PICK off \in [1 .. n + 1 -> Nat] :
        /\ flat \in Seq(Nat)
        /\ off[1] = 0 /\ off[n + 1] = L
        /\ \A i \in 1 .. n : /\ off[i + 1] = off[i] + Len(blocks[i])
                             /\ Has(flat, off[i], blocks[i])
  BY <1>1, <1>4, FlattenPlaces
<1> HIDE DEF flat
<1>6. one \in Seq(Nat) /\ Len(one) = 1 /\ one[1] = n
  BY <1>1, OneIs
<1> HIDE DEF one
<1>7. /\ tail \in Seq(Nat) /\ Len(tail) = L + Len(text)
      /\ Has(tail, L, text) /\ Has(tail, 0, flat)
  BY <1>5, Appended
<1> HIDE DEF tail
<1>8. /\ rest \in Seq(Nat) /\ Len(rest) = Len(one) + Len(tail)
      /\ Has(rest, Len(one), tail) /\ Has(rest, 0, one)
  BY <1>6, <1>7, Appended
<1> HIDE DEF rest
<1>9. /\ m \in Seq(Nat) /\ Len(m) = 2 + H + Len(rest) /\ m[2] = H /\ H \in Nat
      /\ findSender(m) = handle /\ Has(m, 2 + H, rest)
  <2>1. 5 \in Nat /\ rest \in Seq(Nat) /\ handle \in Seq(Nat)
    BY <1>8
  <2>2. Named(5, handle, rest)
    BY ONLY <2>1, NamedIs
  <2> QED
    BY <2>2 DEF Named
<1> HIDE DEF m, H
<1>21. H \in Nat
  BY <1>9
<1>10. L \in Nat /\ Len(text) \in Nat
  BY <1>5, LenProperties
<1> HIDE DEF L
<1>11. m[3 + H] = n /\ Has(m, 3 + H, flat) /\ Has(m, 3 + H + L, text)
  <2>1. 2 + H \in Nat /\ (2 + H) + 1 = 3 + H /\ 3 + H \in Nat /\ 1 \in Nat
    BY <1>9
  <2>2. rest[1] = n
    <3>1. 1 \in 1 .. Len(one) /\ 0 + 1 = 1
      BY <1>6
    <3> QED
      BY <1>6, <1>8, <3>1 DEF Has
  <2>3. m[(2 + H) + 1] = rest[1]
    <3>1. 1 \in 1 .. Len(rest)
      BY <1>6, <1>7, <1>8, <1>10
    <3> QED
      BY <1>9, <3>1 DEF Has
  <2>4. Has(rest, 1, tail)
    BY <1>6, <1>8
  <2>5. Has(m, (2 + H) + 1, tail)
    BY <1>7, <1>8, <1>9, <2>1, <2>4, PartOfPart
  <2>6. Has(m, 3 + H, tail)
    BY <2>1, <2>5
  <2>7. Has(m, (3 + H) + 0, flat)
    BY <1>5, <1>7, <1>9, <2>1, <2>6, PartOfPart
  <2>8. Has(m, (3 + H) + L, text)
    BY <1>7, <1>9, <1>10, <2>1, <2>6, PartOfPart
  <2>9. (3 + H) + 0 = 3 + H
    BY <2>1
  <2> QED
    BY <2>1, <2>2, <2>3, <2>7, <2>8, <2>9
<1>12. findNumHandles(m) = n
  <2>1. findNumHandles(m) = signed(n)
    BY <1>9, <1>11 DEF findNumHandles
  <2>2. signed(n) = n
    BY <1>1 DEF signed
  <2> QED
    BY <2>1, <2>2
<1>13. ASSUME NEW i \in 1 .. n
       PROVE  /\ m[4 + H + off[i]] = Len(words[i]) /\ Has(m, 4 + H + off[i], words[i])
              /\ off[i] \in Nat /\ off[i + 1] = off[i] + 1 + Len(words[i])
  <2> DEFINE o == off[i]
             b == blocks[i]
             w == words[i]
  <2>1. /\ o \in Nat /\ Has(flat, o, b) /\ b \in Seq(Nat) /\ Len(b) = 1 + Len(w)
        /\ b[1] = Len(w) /\ Has(b, 1, w) /\ Len(w) \in Nat /\ w \in Seq(Nat)
        /\ off[i + 1] = o + Len(b)
    <3>1. i \in 1 .. n + 1
      BY <1>1
    <3>2. off[i] \in Nat
      BY <1>5, <3>1
    <3>3. Has(flat, off[i], blocks[i]) /\ off[i + 1] = off[i] + Len(blocks[i])
      BY <1>5
    <3> QED
      BY <1>2, <1>3, <3>2, <3>3
  <2> HIDE DEF o, b, w
  <2>2. 3 + H \in Nat /\ (3 + H) + o \in Nat /\ ((3 + H) + o) + 1 = 4 + H + o
    BY <1>9, <2>1
  <2>3. Has(m, (3 + H) + o, b)
    BY <1>5, <1>9, <1>11, <2>1, <2>2, PartOfPart
  <2>4. Has(m, ((3 + H) + o) + 1, w)
    BY <1>9, <2>1, <2>2, <2>3, PartOfPart
  <2>5. m[((3 + H) + o) + 1] = Len(w)
    <3>1. 1 \in 1 .. Len(b)
      BY <2>1
    <3> QED
      BY <2>1, <2>3, <3>1 DEF Has
  <2>6. o + Len(b) = o + 1 + Len(w)
    BY <2>1
  <2> QED
    BY <2>1, <2>2, <2>4, <2>5, <2>6 DEF o, b, w
<1> DEFINE at == Ats(m)
           Q == {k \in Nat : k + 1 <= n => at[k + 1] = 4 + H + off[k + 1]}
<1>14. at[1] = 4 + m[2] /\ \A i \in 2 .. 9 : at[i] = at[i - 1] + m[at[i - 1]] + 1
  BY AtsAre
<1>15. \A k : destHandleAt(m, k) = at[k]
  BY AtsAre
<1> HIDE DEF at
<1>16. 0 \in Q
  <2>1. at[1] = 4 + H + off[1]
    BY <1>5, <1>9, <1>14
  <2> QED
    BY <2>1
<1>17. ASSUME NEW k \in Nat, k \in Q
       PROVE  k + 1 \in Q
  <2> SUFFICES ASSUME (k + 1) + 1 <= n
               PROVE  at[(k + 1) + 1] = 4 + H + off[(k + 1) + 1]
    OBVIOUS
  <2>1. PICK i \in 1 .. n : i = k + 1 /\ i + 1 \in 2 .. 9 /\ (i + 1) - 1 = i
    BY <1>1
  <2>2. at[i] = 4 + H + off[i]
    BY <1>17, <2>1
  <2>3. at[i + 1] = at[i] + m[at[i]] + 1
    BY <1>14, <2>1
  <2>4. /\ m[4 + H + off[i]] = Len(words[i]) /\ off[i] \in Nat /\ Len(words[i]) \in Nat
        /\ off[i + 1] = off[i] + 1 + Len(words[i])
    BY <1>3, <1>13
  <2>5. at[i + 1] = (4 + H + off[i]) + Len(words[i]) + 1
    BY <2>2, <2>3, <2>4
  <2>6. at[i + 1] = 4 + H + off[i + 1]
    <3>1. PICK x \in Nat, y \in Nat : x = off[i] /\ y = Len(words[i])
      BY <2>4
    <3>2. (4 + H + x) + y + 1 = 4 + H + (x + 1 + y)
      BY <1>21
    <3> QED
      BY <2>4, <2>5, <3>1, <3>2
  <2> QED
    BY <2>1, <2>6
<1>18. \A i \in 1 .. n : at[i] = 4 + H + off[i]
  <2>1. \A k \in Nat : k \in Q
    <3> HIDE DEF Q
    <3> QED
      BY <1>16, <1>17, NatIsInductive
  <2>2. ASSUME NEW i \in 1 .. n
        PROVE  at[i] = 4 + H + off[i]
    <3>1. i - 1 \in Nat /\ (i - 1) + 1 = i /\ i <= n
      OBVIOUS
    <3> QED
      BY <2>1, <3>1
  <2> QED
    BY <2>2
<1>19. ASSUME NEW i \in 1 .. n
       PROVE  findDestHandle(m, i) = words[i]
  <2> DEFINE a == 4 + H + off[i]
  <2>1. /\ m[a] = Len(words[i]) /\ Has(m, a, words[i]) /\ words[i] \in Seq(Nat) /\ a \in Nat
        /\ at[i] = a
    <3>1. off[i] \in Nat
      BY <1>13
    <3>2. a \in Nat
      BY <1>21, <3>1
    <3> QED
      BY <1>2, <1>13, <1>18, <3>2
  <2> HIDE DEF a
  <2>2. SubSeq(m, a + 1, a + Len(words[i])) = words[i]
    BY <1>9, <2>1, PartRead
  <2> QED
    BY <1>15, <2>1, <2>2 DEF findDestHandle
<1>20. getText(m, 2 + Len(m)) = text
  <2> DEFINE b == 3 + H + L
  <2>1. findTextStart(m) = b + 1
    <3>1. findTextStart(m) = at[n] + m[at[n]] + 1
      BY <1>12, <1>15 DEF findTextStart
    <3>2. /\ at[n] = 4 + H + off[n] /\ m[4 + H + off[n]] = Len(words[n]) /\ off[n] \in Nat
          /\ L = off[n] + 1 + Len(words[n]) /\ Len(words[n]) \in Nat
      <4>1. n \in 1 .. n
        BY <1>1
      <4> QED
        BY <1>3, <1>5, <1>13, <1>18, <4>1
    <3>3. findTextStart(m) = (4 + H + off[n]) + Len(words[n]) + 1
      BY <3>1, <3>2
    <3>4. PICK x \in Nat, y \in Nat : x = off[n] /\ y = Len(words[n])
      BY <3>2
    <3>5. (4 + H + x) + y + 1 = (3 + H + (x + 1 + y)) + 1
      BY <1>21
    <3> QED
      BY <3>2, <3>3, <3>4, <3>5
  <2>2. b \in Nat
    BY <1>9, <1>10
  <2>3. Len(m) = b + Len(text)
    BY <1>6, <1>7, <1>8, <1>9, <1>10
  <2>4. Has(m, b, text)
    BY <1>11
  <2> HIDE DEF b
  <2>5. findTextLen(m, 2 + Len(m)) = Len(text)
    <3>1. findTextLen(m, 2 + Len(m)) = (2 + (b + Len(text))) - ((b + 1) - 1) - 3 + 1
      BY <2>1, <2>3 DEF findTextLen
    <3> QED
      BY <1>10, <2>2, <3>1
  <2>6. SubSeq(m, b + 1, b + Len(text)) = text
    BY <1>9, <2>2, <2>4, PartRead
  <2>7. (b + 1) + Len(text) - 1 = b + Len(text)
    BY <1>10, <2>2
  <2> QED
    BY <2>1, <2>5, <2>6, <2>7 DEF getText
<1> QED
  BY <1>8, <1>9, <1>12, <1>19, <1>20 DEF m, rest, one, tail, flat, blocks

\* What a receiver finds in a message to all.
LEMMA BroadcastIs ==
  ASSUME NEW handle \in Seq(Nat), NEW text \in Seq(Nat)
  PROVE  LET m == << 4 >> \o (fillHandle(handle) \o text)
         IN  findSender(m) = handle /\ getText4(m, 2 + Len(m)) = text
<1> DEFINE m == << 4 >> \o (fillHandle(handle) \o text)
           H == Len(handle)
           L == Len(text)
<1>1. Named(4, handle, text)
  <2>1. 4 \in Nat /\ handle \in Seq(Nat) /\ text \in Seq(Nat)
    OBVIOUS
  <2> QED
    BY ONLY <2>1, NamedIs
<1>2. /\ m \in Seq(Nat) /\ Len(m) = 2 + H + L /\ H \in Nat /\ L \in Nat
      /\ findSender(m) = handle /\ Has(m, 2 + H, text)
  BY <1>1 DEF Named
<1> HIDE DEF m, H
<1>3. SubSeq(m, (2 + H) + 1, (2 + H) + Len(text)) = text
  <2>1. 2 + H \in Nat
    BY <1>2
  <2> QED
    BY <1>2, <2>1, PartRead
<1> HIDE DEF L
<1>4. (2 + H) + 1 = 3 + H /\ (2 + H) + L = 2 + H + ((2 + (2 + H + L)) - H - 3 - 1)
  BY <1>2
<1>5. getText4(m, 2 + Len(m)) = SubSeq(m, 3 + H, 2 + H + ((2 + (2 + H + L)) - H - 3 - 1))
  BY <1>2 DEF getText4, H
<1> QED
  BY <1>2, <1>3, <1>4, <1>5 DEF m, L

-----------------------------------------------------------------------------
(* What a client sends. *)

Typed ==
  /\ line \in Seq(1 .. 127) /\ sendHandle \in Seq(1 .. 127)
  /\ Len(sendHandle) \in 1 .. MAX_HANDLE_SIZE

\* The destinations that were typed.
DestsTyped(n) == [i \in 1 .. n |-> Take(Word(FirstDest + i - 1), MAX_HANDLE_SIZE)]
TextFrom(k) == Take(From(k), MAX_SEND_TXT)

\* What is copied into a PDU is what was typed.
LEMMA TypedReads ==
  ASSUME Typed
  PROVE  /\ FirstDest \in Nat
         /\ \A i \in 0 .. 9 :
              /\ findStr(Froms[i], MAX_HANDLE_SIZE) = Take(Word(FirstDest + i), MAX_HANDLE_SIZE)
              /\ fillText(Froms[i]) = TextFrom(FirstDest + i)
              /\ Take(Word(FirstDest + i), MAX_HANDLE_SIZE) \in Seq(Nat)
              /\ TextFrom(FirstDest + i) \in Seq(Nat)
         /\ fillText(findFirstHandle(line)) = TextFrom(FirstDest)
<1>1. /\ line \in Seq(1 .. 127) /\ MAX_HANDLE_SIZE \in Nat \ {0}
      /\ MAX_HANDLE_SIZE \in Nat /\ MAX_SEND_TXT \in Nat
  BY ChatMessageAssumption DEF Typed
<1>2. FirstDest \in Nat /\ Cursor(findFirstHandle(line), FirstDest)
  BY <1>1, NumberRead
<1>3. ASSUME NEW i \in 0 .. 9
      PROVE  /\ findStr(Froms[i], MAX_HANDLE_SIZE) = Take(Word(FirstDest + i), MAX_HANDLE_SIZE)
             /\ fillText(Froms[i]) = TextFrom(FirstDest + i)
             /\ Take(Word(FirstDest + i), MAX_HANDLE_SIZE) \in Seq(Nat)
             /\ TextFrom(FirstDest + i) \in Seq(Nat)
  <2> DEFINE k == FirstDest + i
             c == Froms[i]
  <2>1. k \in Nat /\ Cursor(c, k)
    <3>1. \A j \in 0 .. 9 : Cursor(Froms[j], FirstDest + j)
      BY ONLY <1>1, FromsAre
    <3> QED
      BY <1>2, <3>1
  <2> HIDE DEF k, c
  <2>2. /\ findStr(c, MAX_HANDLE_SIZE) = Take(Word(k), MAX_HANDLE_SIZE)
        /\ fillText(c) = TextFrom(k)
        /\ Word(k) \in Seq(1 .. 127) /\ From(k) \in Seq(1 .. 127)
    BY <1>1, <2>1, CursorReads DEF TextFrom
  <2>3. Word(k) \in Seq(Nat) /\ From(k) \in Seq(Nat)
    BY <2>2, AreNumbers
  <2>4. Take(Word(k), MAX_HANDLE_SIZE) \in Seq(Nat) /\ TextFrom(k) \in Seq(Nat)
    BY <1>1, <2>3, TakeIs DEF TextFrom
  <2> QED
    BY <2>2, <2>4 DEF k, c
<1>4. fillText(findFirstHandle(line)) = TextFrom(FirstDest)
  BY <1>1, <1>2, CursorReads DEF TextFrom
<1> QED
  BY <1>2, <1>3, <1>4

\* Where four sequences are put one behind the other, the brackets do not matter.
FourInARow(a, b, c, d) == ((a \o b) \o c) \o d = a \o (b \o (c \o d))

LEMMA ConcatFour ==
  ASSUME NEW S, NEW a \in Seq(S), NEW b \in Seq(S), NEW c \in Seq(S), NEW d \in Seq(S)
  PROVE  FourInARow(a, b, c, d)
<1>1. a \o b \in Seq(S) /\ c \o d \in Seq(S)
  BY ConcatProperties
<1>2. ((a \o b) \o c) \o d = (a \o b) \o (c \o d)
  BY <1>1, ConcatAssociative, SMTT(20)
<1>3. (a \o b) \o (c \o d) = a \o (b \o (c \o d))
  BY <1>1, ConcatAssociative, SMTT(20)
<1> QED
  BY <1>2, <1>3 DEF FourInARow

\* What follows the sender in a %M of n destinations.
RestM(n) == << n >> \o (FlattenSeq(BlocksOf(DestsTyped(n), n)) \o TextFrom(FirstDest + n))

\* The number -1 is stored as the byte 255.
LEMMA LastByte ==
  ASSUME NEW x, x = -1
  PROVE  x % 256 = 255
<1>1. PICK w \in Nat \ {0}, v \in Int : w = 256 /\ v = x
  OBVIOUS
<1>2. PICK y \in Int : IsMultiple(y, w) /\ v = y + (v % w) /\ v % w \in 0 .. w - 1
  BY ONLY v \in Int, w \in Nat \ {0}, DivMod
<1>3. PICK z \in Int : y = w * z
  BY <1>2 DEF IsMultiple
<1>4. z = -1 /\ y = -256
  BY <1>1, <1>2, <1>3
<1>5. v % w = 255
  BY <1>1, <1>2, <1>4
<1> QED
  BY <1>1, <1>5

\* The %M of a line, with as many destinations as its number says; with the
\* number -1, one of 255 in which there is no handle.
LEMMA ProcMIs ==
  ASSUME Typed
  PROVE  LET n == getHandleNum(line)
         IN  /\ n \in 1 .. 9 \cup {-1}
             /\ n \in 1 .. 9 =>
                  /\ proc_M(line, sendHandle) = PDU(5, fillHandle(sendHandle) \o RestM(n))
                  /\ DestsTyped(n) \in [1 .. n -> Seq(Nat)] /\ TextFrom(FirstDest + n) \in Seq(Nat)
             /\ n = -1 =>
                  \E text \in Seq(Nat) :
                    proc_M(line, sendHandle)
                      = PDU(5, fillHandle(sendHandle) \o (<< 255 >> \o (<< >> \o text)))
<1> DEFINE n == getHandleNum(line)
           hd == fillHandle(sendHandle)
           Blocks == [i \in 1 .. n |-> fillHandle(findStr(Froms[i - 1], MAX_HANDLE_SIZE))]
           k == IF n = -1 THEN 0 ELSE n
           text == fillText(Froms[k])
<1>1. n \in 1 .. 9 \cup {-1}
  BY NumberRead, ChatMessageAssumption DEF Typed
<1>2. proc_M(line, sendHandle)
        = PDU(5, ((hd \o << n % 256 >>) \o FlattenSeq(Blocks)) \o text)
  BY DEF proc_M, Froms, FromEq
<1>3. hd \in Seq(Nat)
  <2>1. sendHandle \in Seq(Nat)
    BY AreNumbers DEF Typed
  <2> QED
    BY <2>1, HandleBytes
<1>4. k \in 0 .. 9
  BY <1>1
<1>5. text = TextFrom(FirstDest + k) /\ text \in Seq(Nat)
  BY <1>4, TypedReads
<1> HIDE DEF n, hd, Blocks, text
<1>6. ASSUME n \in 1 .. 9
      PROVE  /\ proc_M(line, sendHandle) = PDU(5, hd \o RestM(n))
             /\ DestsTyped(n) \in [1 .. n -> Seq(Nat)] /\ TextFrom(FirstDest + n) \in Seq(Nat)
  <2>1. n % 256 = n /\ k = n /\ n \in Nat /\ n \in Nat \ {0} /\ n <= 9
    BY <1>6
  <2>2. ASSUME NEW i \in 1 .. n
        PROVE  /\ Take(Word(FirstDest + i - 1), MAX_HANDLE_SIZE) \in Seq(Nat)
               /\ findStr(Froms[i - 1], MAX_HANDLE_SIZE)
                    = Take(Word(FirstDest + i - 1), MAX_HANDLE_SIZE)
    <3>1. i - 1 \in 0 .. 9 /\ FirstDest + (i - 1) = FirstDest + i - 1
      BY <2>1, TypedReads
    <3> QED
      BY <3>1, TypedReads
  <2>3. DestsTyped(n) \in [1 .. n -> Seq(Nat)]
    BY <2>2 DEF DestsTyped
  <2>4. Blocks = BlocksOf(DestsTyped(n), n)
    BY <2>2 DEF Blocks, BlocksOf, DestsTyped
  <2>5. \A i \in 1 .. n : DestsTyped(n)[i] \in Seq(Nat)
    BY <2>3
  <2>6. Blocks \in [1 .. n -> Seq(Nat)]
    <3>1. \A i \in 1 .. n : fillHandle(DestsTyped(n)[i]) \in Seq(Nat)
      BY <2>5, HandleBytes
    <3> QED
      BY <2>4, <3>1 DEF BlocksOf
  <2>7. FlattenSeq(Blocks) \in Seq(Nat)
    BY <2>1, <2>6, FlattenPlaces
  <2>8. << n >> \in Seq(Nat)
    BY <2>1, OneIs
  <2>9. ((hd \o << n >>) \o FlattenSeq(Blocks)) \o text
          = hd \o (<< n >> \o (FlattenSeq(Blocks) \o text))
    <3>1. PICK h \in Seq(Nat), b \in Seq(Nat), c \in Seq(Nat), t \in Seq(Nat) :
            h = hd /\ b = << n >> /\ c = FlattenSeq(Blocks) /\ t = text
      BY <1>3, <1>5, <2>7, <2>8
    <3>2. ((h \o b) \o c) \o t = h \o (b \o (c \o t))
      <4>1. FourInARow(h, b, c, t)
        BY ONLY h \in Seq(Nat), b \in Seq(Nat), c \in Seq(Nat), t \in Seq(Nat), ConcatFour
      <4> QED
        BY ONLY <4>1 DEF FourInARow
    <3> QED
      BY ONLY <3>1, <3>2
  <2> QED
    BY <1>2, <1>5, <2>1, <2>3, <2>4, <2>9 DEF RestM
<1>7. ASSUME n = -1
      PROVE  proc_M(line, sendHandle) = PDU(5, hd \o (<< 255 >> \o (<< >> \o text)))
  <2>1. n % 256 = 255 /\ 1 .. n = {}
    <3>1. n % 256 = 255
      BY ONLY <1>7, LastByte
    <3>2. 1 .. n = {}
      BY <1>7
    <3> QED
      BY ONLY <3>1, <3>2
  <2>2. << >> \in Seq(Nat) /\ Len(<< >>) = 0
    BY NoneSeq
  <2>3. Blocks = << >>
    BY <2>1 DEF Blocks
  <2>4. FlattenSeq(Blocks) = << >>
    BY <2>2, <2>3 DEF FlattenSeq
  <2>5. << 255 >> \in Seq(Nat)
    BY OneIs
  <2>6. ((hd \o << 255 >>) \o << >>) \o text = hd \o (<< 255 >> \o (<< >> \o text))
    <3>1. PICK h \in Seq(Nat), b \in Seq(Nat), c \in Seq(Nat), t \in Seq(Nat) :
            h = hd /\ b = << 255 >> /\ c = << >> /\ t = text
      BY <1>3, <1>5, <2>2, <2>5
    <3>2. ((h \o b) \o c) \o t = h \o (b \o (c \o t))
      <4>1. FourInARow(h, b, c, t)
        BY ONLY h \in Seq(Nat), b \in Seq(Nat), c \in Seq(Nat), t \in Seq(Nat), ConcatFour
      <4> QED
        BY ONLY <4>1 DEF FourInARow
    <3> QED
      BY ONLY <3>1, <3>2
  <2> QED
    BY <1>2, <2>1, <2>4, <2>6
<1> QED
  BY <1>1, <1>5, <1>6, <1>7 DEF n, hd

\* The %B of a line.
LEMMA ProcBIs ==
  ASSUME Typed
  PROVE  /\ proc_B(line, sendHandle) = PDU(4, fillHandle(sendHandle) \o TextFrom(FirstDest))
         /\ TextFrom(FirstDest) \in Seq(Nat)
<1>1. FirstDest \in Nat /\ 0 \in 0 .. 9
  BY TypedReads
<1>2. TextFrom(FirstDest + 0) \in Seq(Nat)
  BY <1>1, TypedReads
<1>3. TextFrom(FirstDest) \in Seq(Nat)
  <2>1. FirstDest + 0 = FirstDest
    BY <1>1
  <2> QED
    BY <1>2, <2>1
<1> QED
  BY <1>3, TypedReads DEF proc_B

FoundDests == [i \in 1 .. findNumHandles(Message) |-> findDestHandle(Message, i)]

(* What the server and the receiver find in what a client sends. *)

\* in every PDU of a line: its length is that of its bytes, and the message
\* behind a new header is the PDU again
Whole ==
  /\ ntohs(pdu) = Len(pdu) /\ flagOf(Message) \in {4, 5, 8, 10}
  /\ createNewMessage(flagOf(Message), ntohs(pdu), Message) = pdu

FoundB ==
  findSender(Message) = sendHandle /\ getText4(Message, ntohs(pdu)) = TextFrom(FirstDest)

FoundM ==
  /\ findSender(Message) = sendHandle
  /\ \A i \in DOMAIN FoundDests : FoundDests[i] \in Seq(Nat)
  /\ getHandleNum(line) \in 1 .. 9 =>
       /\ FoundDests = DestsTyped(getHandleNum(line))
       /\ getText(Message, ntohs(pdu)) = TextFrom(FirstDest + getHandleNum(line))

\* A PDU of one of the four flags.
LEMMA WholeIs ==
  ASSUME NEW flag \in {4, 5, 8, 10}, NEW body \in Seq(Nat), pdu = PDU(flag, body)
  PROVE  /\ Whole /\ flagOf(Message) = flag
         /\ Message = << flag >> \o body /\ ntohs(pdu) = 2 + Len(Message)
<1>1. flag \in Nat /\ Len(body) \in Nat
  BY LenProperties
<1>2. /\ Len(pdu) = 3 + Len(body) /\ ntohs(pdu) = 3 + Len(body)
      /\ Message = << flag >> \o body /\ flagOf(Message) = flag
      /\ Len(<< flag >> \o body) = 1 + Len(body)
  BY <1>1, PduIs DEF Message
<1>3. createNewMessage(flag, 3 + Len(body), << flag >> \o body) = PDU(flag, body)
  BY <1>1, NewMessageIs
<1>4. createNewMessage(flagOf(Message), ntohs(pdu), Message) = pdu
  BY <1>2, <1>3
<1>5. 3 + Len(body) = 2 + (1 + Len(body))
  BY <1>1
<1> QED
  BY <1>2, <1>4, <1>5 DEF Whole

\* What is found in a %B.
LEMMA FoundBIs ==
  ASSUME Typed, pdu = proc_B(line, sendHandle)
  PROVE  Whole /\ flagOf(Message) = 4 /\ FoundB
<1> DEFINE text == TextFrom(FirstDest)
           body == fillHandle(sendHandle) \o text
<1>1. sendHandle \in Seq(Nat) /\ text \in Seq(Nat) /\ pdu = PDU(4, body)
  BY ProcBIs, AreNumbers DEF Typed
<1> HIDE DEF text
<1>2. body \in Seq(Nat)
  <2>1. fillHandle(sendHandle) \in Seq(Nat)
    BY <1>1, HandleBytes
  <2> QED
    BY <1>1, <2>1, ConcatProperties
<1>3. /\ Whole /\ flagOf(Message) = 4
      /\ Message = << 4 >> \o body /\ ntohs(pdu) = 2 + Len(Message)
  <2> HIDE DEF body
  <2> QED
    BY <1>1, <1>2, WholeIs
<1>4. LET m == << 4 >> \o body
      IN  findSender(m) = sendHandle /\ getText4(m, 2 + Len(m)) = text
  BY <1>1, BroadcastIs
<1> QED
  BY <1>3, <1>4 DEF FoundB, text

\* A %M of n destinations.
LEMMA FoundSomeIs ==
  ASSUME Typed, pdu = proc_M(line, sendHandle), getHandleNum(line) \in 1 .. 9
  PROVE  Whole /\ flagOf(Message) = 5 /\ FoundM
<1> DEFINE n == getHandleNum(line)
           words == DestsTyped(n)
           text == TextFrom(FirstDest + n)
           rest == << n >> \o (FlattenSeq(BlocksOf(words, n)) \o text)
           body == fillHandle(sendHandle) \o rest
<1>1. /\ sendHandle \in Seq(Nat) /\ text \in Seq(Nat) /\ n \in 1 .. 9
      /\ words \in [1 .. n -> Seq(Nat)]
  BY ProcMIs, AreNumbers DEF Typed
<1>2. pdu = PDU(5, body)
  BY ProcMIs DEF RestM
<1> HIDE DEF n, words, text
<1>3. LET m == << 5 >> \o body
      IN  /\ rest \in Seq(Nat)
          /\ findSender(m) = sendHandle /\ findNumHandles(m) = n
          /\ \A i \in 1 .. n : findDestHandle(m, i) = words[i]
          /\ getText(m, 2 + Len(m)) = text
  BY <1>1, ForwardedIs, ZenonT(40)
<1>4. body \in Seq(Nat)
  <2>1. fillHandle(sendHandle) \in Seq(Nat) /\ rest \in Seq(Nat)
    BY <1>1, <1>3, HandleBytes
  <2> HIDE DEF rest
  <2> QED
    BY <2>1, ConcatProperties
<1> HIDE DEF rest, body
<1>5. /\ Whole /\ flagOf(Message) = 5
      /\ Message = << 5 >> \o body /\ ntohs(pdu) = 2 + Len(Message)
  BY <1>2, <1>4, WholeIs
<1>6. /\ findSender(Message) = sendHandle /\ findNumHandles(Message) = n
      /\ \A i \in 1 .. n : findDestHandle(Message, i) = words[i]
      /\ getText(Message, ntohs(pdu)) = text
  BY <1>3, <1>5
<1>7. FoundDests = words
  BY <1>1, <1>6 DEF FoundDests
<1>8. \A i \in DOMAIN FoundDests : FoundDests[i] \in Seq(Nat)
  BY <1>1, <1>7
<1> QED
  BY <1>5, <1>6, <1>7, <1>8 DEF FoundM, n, words, text

\* A %M whose number is not one: the server finds no destination in it.
LEMMA FoundNoneIs ==
  ASSUME Typed, pdu = proc_M(line, sendHandle), getHandleNum(line) = -1
  PROVE  Whole /\ flagOf(Message) = 5 /\ FoundM
<1>1. PICK text \in Seq(Nat) :
        pdu = PDU(5, fillHandle(sendHandle) \o (<< 255 >> \o (<< >> \o text)))
  BY ProcMIs
<1> DEFINE rest == << 255 >> \o (<< >> \o text)
           body == fillHandle(sendHandle) \o rest
           m == << 5 >> \o body
           H == Len(sendHandle)
<1>2. sendHandle \in Seq(Nat) /\ 5 \in Nat
  BY AreNumbers DEF Typed
<1>3. /\ rest \in Seq(Nat) /\ Has(rest, 0, << 255 >>)
      /\ << 255 >> \in Seq(Nat) /\ Len(<< 255 >>) = 1 /\ << 255 >>[1] = 255
  <2>1. PICK b \in Seq(Nat) : b = << 255 >>
    <3>1. << 255 >> \in Seq(Nat)
      BY OneIs
    <3> QED
      BY ONLY <3>1, Zenon
  <2>2. PICK e \in Seq(Nat) : e = << >>
    BY NoneSeq
  <2>3. e \o text \in Seq(Nat)
    BY ConcatProperties
  <2>4. PICK t \in Seq(Nat) : t = << >> \o text
    BY <2>2, <2>3
  <2>5. b \o t \in Seq(Nat) /\ Has(b \o t, 0, b)
    BY ONLY b \in Seq(Nat), t \in Seq(Nat), Appended
  <2>6. rest \in Seq(Nat) /\ Has(rest, 0, << 255 >>)
    BY ONLY <2>1, <2>4, <2>5
  <2> QED
    BY <2>6, OneIs
<1> HIDE DEF rest
<1>4. Named(5, sendHandle, rest)
  BY ONLY <1>2, <1>3, NamedIs
<1>5. /\ body \in Seq(Nat) /\ m[2] = H /\ H \in Nat /\ findSender(m) = sendHandle
      /\ Has(m, 2 + H, rest) /\ m \in Seq(Nat)
  BY <1>4 DEF Named
<1> HIDE DEF body, m, H
<1>6. m[3 + H] = 255
  <2>1. PICK b \in Seq(Nat) : b = << 255 >> /\ Len(b) = 1 /\ b[1] = 255 /\ Has(rest, 0, b)
    BY <1>3
  <2>2. rest[1] = 255 /\ 1 \in 1 .. Len(rest)
    BY <1>3, <2>1 DEF Has
  <2>3. m[(2 + H) + 1] = rest[1]
    BY <1>5, <2>2 DEF Has
  <2> QED
    BY <1>5, <2>2, <2>3
<1>7. Whole /\ flagOf(Message) = 5 /\ Message = m
  <2>1. pdu = PDU(5, body)
    BY <1>1 DEF body, rest
  <2> QED
    BY <1>5, <2>1, WholeIs DEF m
<1>8. findNumHandles(Message) = -1
  BY <1>5, <1>6, <1>7 DEF findNumHandles, signed
<1>9. DOMAIN FoundDests = {}
  BY <1>8 DEF FoundDests
<1> QED
  BY <1>5, <1>7, <1>9 DEF FoundM

\* The PDU of any line.
LEMMA SentIs ==
  ASSUME Typed, pdu = procStdin(line, sendHandle), pdu # << >>
  PROVE  Whole /\ (flagOf(Message) = 4 => FoundB) /\ (flagOf(Message) = 5 => FoundM)
<1>1. CASE pdu = proc_M(line, sendHandle)
  <2>1. getHandleNum(line) \in 1 .. 9 \cup {-1}
    BY ProcMIs
  <2> QED
    BY <1>1, <2>1, FoundSomeIs, FoundNoneIs
<1>2. CASE pdu = proc_B(line, sendHandle)
  BY <1>2, FoundBIs
<1>3. CASE pdu = PDU(8, << >>) \/ pdu = PDU(10, << >>)
  <2>1. << >> \in Seq(Nat)
    BY NoneSeq
  <2>2. Whole /\ flagOf(Message) \in {8, 10}
    BY <1>3, <2>1, WholeIs
  <2> QED
    BY <2>2
<1>4. \/ pdu = proc_M(line, sendHandle) \/ pdu = proc_B(line, sendHandle)
      \/ pdu = PDU(8, << >>) \/ pdu = PDU(10, << >>)
  BY DEF procStdin
<1> QED
  BY <1>1, <1>2, <1>3, <1>4

-----------------------------------------------------------------------------
(* What the server sends. *)

\* The PDUs that are nothing but a handle.
LEMMA AnswersNamed ==
  ASSUME NEW d \in Seq(Nat)
  PROVE  /\ sendFlag7(d) = PDU(7, fillHandle(d))
         /\ fillFlag12(d) = PDU(12, fillHandle(d))
         /\ login(d) = PDU(1, fillHandle(d))
<1> DEFINE body == fillHandle(d)
<1>1. body \in Seq(Nat) /\ Len(d) \in Nat /\ Len(body) = 1 + Len(d)
  BY HandleBytes
<1> HIDE DEF body
<1>2. createNewMessage(7, 3 + Len(body), << 7 >> \o body) = PDU(7, body)
  BY <1>1, NewMessageIs
<1>3. createNewMessage(12, 3 + Len(body), << 12 >> \o body) = PDU(12, body)
  BY <1>1, NewMessageIs
<1>4. 3 + 1 + Len(d) = 3 + Len(body) /\ 2 + 1 + 1 + Len(d) = 3 + Len(body)
  BY <1>1
<1> QED
  BY <1>2, <1>3, <1>4 DEF sendFlag7, fillFlag12, login, body

\* A PDU that holds a name: its length, and the name a receiver finds.
NamePDU(p, flag, d) ==
  /\ p \in Seq(Nat) /\ p # << >> /\ ntohs(p) = Len(p)
  /\ flagOf(messageOf(p)) = flag /\ findSender(messageOf(p)) = d

\* What is found in them.
LEMMA NamePDUIs ==
  ASSUME NEW d \in Seq(Nat)
  PROVE  /\ NamePDU(sendFlag7(d), 7, d) /\ NamePDU(fillFlag12(d), 12, d)
         /\ NamePDU(login(d), 1, d)
<1>1. ASSUME NEW flag \in Nat
      PROVE  NamePDU(PDU(flag, fillHandle(d)), flag, d)
  <2> DEFINE body == fillHandle(d)
  <2>1. body \in Seq(Nat) /\ findSender(messageOf(PDU(flag, body))) = d
    BY NameAlone
  <2> HIDE DEF body
  <2>2. /\ PDU(flag, body) \in Seq(Nat) /\ PDU(flag, body) # << >>
        /\ ntohs(PDU(flag, body)) = Len(PDU(flag, body))
        /\ flagOf(messageOf(PDU(flag, body))) = flag
    BY <2>1, PduIs
  <2> QED
    BY <2>1, <2>2 DEF NamePDU, body
<1>2. 7 \in Nat /\ 12 \in Nat /\ 1 \in Nat
  OBVIOUS
<1> QED
  BY <1>1, <1>2, AnswersNamed

\* The two PDUs of a list, of which the second begins where the first ends.
ListPDUs(p, n, h) ==
  /\ p # << >> /\ ntohs(p) = 11 /\ flagOf(messageOf(p)) = 11
  /\ flag11Count(messageOf(p)) = n
  /\ NamePDU(Drop(p, 11), 12, h)
  /\ 11 + ntohs(Drop(p, 11)) = Len(p)

\* What is found in the two PDUs of a list.
LEMMA ListIs ==
  ASSUME NEW n \in Nat, NEW h \in Seq(Nat)
  PROVE  ListPDUs(fillFlag11(n) \o fillFlag12(h), n, h)
<1> DEFINE f == fillFlag11(n)
           s == fillFlag12(h)
           p == f \o s
<1>1. n \div 256 \in Nat /\ n % 256 \in Nat /\ (n \div 256) * 256 + (n % 256) = n
  OBVIOUS
<1>2. /\ f \in Seq(Nat) /\ Len(f) = 11
      /\ f[1] = 0 /\ f[2] = 11 /\ f[3] = 11 /\ f[4] = 0 /\ f[5] = 0
      /\ f[6] = n \div 256 /\ f[7] = n % 256
  BY <1>1 DEF fillFlag11
<1>3. NamePDU(s, 12, h)
  BY NamePDUIs
<1>4. s \in Seq(Nat) /\ ntohs(s) = Len(s)
  BY <1>3 DEF NamePDU
<1> HIDE DEF f, s
<1>5. /\ p \in Seq(Nat) /\ Len(p) = 11 + Len(s) /\ Len(s) \in Nat
      /\ Has(p, 11, s) /\ Has(p, 0, f)
  <2>1. p \in Seq(Nat) /\ Len(p) = Len(f) + Len(s) /\ Has(p, Len(f), s) /\ Has(p, 0, f)
    BY ONLY <1>2, <1>4, Appended
  <2> QED
    BY <1>2, <1>4, <2>1, LenProperties
<1> HIDE DEF p
<1>6. \A i \in 1 .. 11 : p[i] = f[i]
  <2>1. ASSUME NEW i \in 1 .. 11
        PROVE  p[i] = f[i]
    <3>1. p[0 + i] = f[i]
      BY <1>2, <1>5 DEF Has
    <3>2. 0 + i = i
      OBVIOUS
    <3> QED
      BY ONLY <3>1, <3>2
  <2> QED
    BY <2>1
<1>7. p[1] = 0 /\ p[2] = 11 /\ p[3] = 11 /\ p[4] = 0 /\ p[5] = 0
      /\ p[6] = n \div 256 /\ p[7] = n % 256
  BY <1>2, <1>6
<1>8. ntohs(p) = 11
  BY <1>7 DEF ntohs
<1>9. LET m == messageOf(p)
      IN  m[1] = p[3] /\ m[2] = p[4] /\ m[3] = p[5] /\ m[4] = p[6] /\ m[5] = p[7]
  BY <1>5, <1>8 DEF messageOf
<1>10. flagOf(messageOf(p)) = 11 /\ flag11Count(messageOf(p)) = n
  BY <1>1, <1>7, <1>9 DEF flagOf, flag11Count
<1>11. Drop(p, 11) = s
  <2>1. SubSeq(p, 11 + 1, 11 + Len(s)) = s
    BY <1>4, <1>5, PartRead
  <2> QED
    BY <1>5, <2>1 DEF Drop
<1>12. p # << >>
  BY <1>5
<1> QED
  BY <1>3, <1>4, <1>5, <1>8, <1>10, <1>11, <1>12 DEF ListPDUs, p, f, s

-----------------------------------------------------------------------------
(***************************************************************************)
(* Every variable is what was computed from the ones before it.               *)
(***************************************************************************)

Served ==
  /\ pdu # << >> /\ flagOf(Message) \in {4, 5}
  /\ answer = createNewMessage(flagOf(Message), ntohs(pdu), Message)
  /\ dests = IF flagOf(Message) = 5 THEN FoundDests ELSE << >>

Refused ==
  /\ pdu # << >> /\ flagOf(Message) = 5 /\ dests = FoundDests
  /\ answer = sendFlag7(put.name) /\ put.count = 0
  /\ \E i \in DOMAIN dests : put.name = dests[i]

Listed(n, h) ==
  answer = fillFlag11(n) \o fillFlag12(h) /\ put.name = h /\ put.count = n

ShownServed ==
  LET m == messageOf(answer)
  IN  shown = [Nothing EXCEPT
                 !.name = findSender(m),
                 !.text = IF flagOf(m) = 4 THEN getText4(m, ntohs(answer))
                                           ELSE getText(m, ntohs(answer))]
ShownName == shown = [Nothing EXCEPT !.name = findSender(messageOf(answer))]
ShownList ==
  shown = [Nothing EXCEPT !.count = flag11Count(messageOf(answer)),
                          !.name  = findSender(messageOf(Drop(answer, ntohs(answer))))]

Stages == {"typed", "registered", "sent", "served", "refused", "listed", "shown"}

WireInv ==
  /\ line \in TypedLines /\ sendHandle \in Names /\ stage \in Stages
  /\ stage = "typed" => pdu = << >>
  /\ stage = "registered" =>
       pdu = login(sendHandle)
         /\ shown = [Nothing EXCEPT !.name = createStrHandle(messageOf(pdu))]
  /\ stage \notin {"typed", "registered"} => pdu = procStdin(line, sendHandle)
  /\ stage \in {"typed", "registered", "sent"} => dests = << >> /\ answer = << >>
  /\ stage = "served" => Served
  /\ stage = "refused" => Refused
  /\ stage = "listed" => \E n \in ListLengths, h \in Names : Listed(n, h)
  /\ stage = "shown" =>
       \/ Served /\ ShownServed
       \/ Refused /\ ShownName
       \/ ShownList /\ \E n \in ListLengths, h \in Names : Listed(n, h)

\* Lines and handles are strings of characters.
LEMMA InvTyped ==
  ASSUME WireInv
  PROVE  Typed /\ sendHandle \in Seq(Nat)
<1>1. line \in TypedLines /\ sendHandle \in Names
  BY DEF WireInv
<1>2. line \in Seq(1 .. 127)
  BY ONLY <1>1, ChatWireAssumption, Zenon
<1>3. sendHandle \in Seq(1 .. 127 \ {SPACE}) /\ Len(sendHandle) \in 1 .. MAX_HANDLE_SIZE
  BY ONLY <1>1, ChatWireAssumption, Zenon
<1>4. sendHandle \in Seq(1 .. 127)
  BY <1>3
<1> QED
  BY <1>2, <1>3, <1>4, AreNumbers DEF Typed

\* Initially, nothing has been computed.
LEMMA WireInit == Init => WireInv
  BY DEF Init, WireInv, Stages

\* Each step computes one variable or two from the others.
LEMMA WireStep == WireInv /\ [Next]_vars => WireInv'
<1> SUFFICES ASSUME WireInv, [Next]_vars PROVE WireInv'
  OBVIOUS
<1>1. CASE Register
  BY <1>1 DEF Register, WireInv, Stages
<1>2. CASE SendLine
  BY <1>2 DEF SendLine, WireInv, Stages
<1>3. CASE Broadcast
  <2>1. /\ stage = "sent" /\ stage' = "served" /\ pdu # << >> /\ flagOf(Message) = 4
        /\ answer' = createNewMessage(4, ntohs(pdu), Message)
        /\ UNCHANGED <<line, sendHandle, pdu, dests, put, shown>>
    BY <1>3 DEF Broadcast, Received
  <2>2. dests = << >>
    BY <2>1 DEF WireInv
  <2>3. Message' = Message
    BY <2>1 DEF Message
  <2>4. Served'
    BY <2>1, <2>2, <2>3 DEF Served
  <2> QED
    BY <2>1, <2>4 DEF WireInv, Stages
<1>4. CASE Forward
  <2>1. /\ stage = "sent" /\ stage' = "served" /\ pdu # << >> /\ flagOf(Message) = 5
        /\ answer' = createNewMessage(5, ntohs(pdu), Message)
        /\ dests' = FoundDests
        /\ UNCHANGED <<line, sendHandle, pdu, put, shown>>
    BY <1>4 DEF Forward, Received, FoundDests
  <2>2. Message' = Message
    BY <2>1 DEF Message
  <2>3. FoundDests' = FoundDests
    BY <2>2 DEF FoundDests
  <2>4. Served'
    BY <2>1, <2>2, <2>3 DEF Served
  <2> QED
    BY <2>1, <2>4 DEF WireInv, Stages
<1>5. ASSUME NEW i \in DOMAIN dests, Refuse(i) PROVE WireInv'
  <2>1. /\ stage = "served" /\ stage' = "refused" /\ answer' = sendFlag7(dests[i])
        /\ put'.name = dests[i] /\ put'.count = 0
        /\ UNCHANGED <<line, sendHandle, pdu, dests, shown>>
    BY <1>5 DEF Refuse, Nothing
  <2>2. Served
    BY <2>1 DEF WireInv
  <2>3. Message' = Message
    BY <2>1 DEF Message
  <2>4. FoundDests' = FoundDests
    BY <2>3 DEF FoundDests
  <2>5. flagOf(Message) = 5 /\ dests = FoundDests /\ pdu # << >>
    <3>1. dests # << >>
      BY <1>5
    <3> QED
      BY <2>2, <3>1 DEF Served
  <2>6. /\ answer' = sendFlag7(put'.name) /\ put'.count = 0
        /\ \E j \in DOMAIN dests' : put'.name = dests'[j]
    BY <1>5, <2>1
  <2>7. Refused'
    BY <2>1, <2>3, <2>4, <2>5, <2>6 DEF Refused
  <2> QED
    BY <2>1, <2>7 DEF WireInv, Stages
<1>6. ASSUME NEW n \in ListLengths, NEW h \in Names, ListClients(n, h) PROVE WireInv'
  <2>1. /\ stage = "sent" /\ stage' = "listed" /\ Listed(n, h)'
        /\ UNCHANGED <<line, sendHandle, pdu, dests, shown>>
    BY <1>6 DEF ListClients, Received, Listed, Nothing
  <2> QED
    BY <2>1 DEF WireInv, Stages
<1>7. CASE Show
  <2>1. /\ stage = "served" /\ stage' = "shown" /\ ShownServed'
        /\ UNCHANGED <<line, sendHandle, pdu, dests, answer, put>>
    BY <1>7 DEF Show, ShownServed, Nothing
  <2>2. Served
    BY <2>1 DEF WireInv
  <2>3. Served'
    BY <2>1, <2>2 DEF Served, Message, FoundDests
  <2> QED
    BY <2>1, <2>3 DEF WireInv, Stages
<1>8. CASE ShowRefusal
  <2>1. /\ stage = "refused" /\ stage' = "shown" /\ ShownName'
        /\ UNCHANGED <<line, sendHandle, pdu, dests, answer, put>>
    BY <1>8 DEF ShowRefusal, ShownName, Nothing
  <2>2. Refused
    BY <2>1 DEF WireInv
  <2>3. Refused'
    BY <2>1, <2>2 DEF Refused, Message, FoundDests
  <2> QED
    BY <2>1, <2>3 DEF WireInv, Stages
<1>9. CASE ShowList
  <2>1. /\ stage = "listed" /\ stage' = "shown" /\ ShownList'
        /\ UNCHANGED <<line, sendHandle, pdu, dests, answer, put>>
    BY <1>9 DEF ShowList, ShownList, Nothing
  <2>2. PICK n \in ListLengths, h \in Names : Listed(n, h)
    BY <2>1 DEF WireInv
  <2>3. Listed(n, h)'
    BY <2>1, <2>2 DEF Listed
  <2> QED
    BY <2>1, <2>3 DEF WireInv, Stages
<1>10. CASE UNCHANGED vars
  BY <1>10 DEF vars, WireInv, Served, Refused, Listed, ShownServed, ShownName, ShownList,
               Message, FoundDests
<1> QED
  BY <1>1, <1>2, <1>3, <1>4, <1>5, <1>6, <1>7, <1>8, <1>9, <1>10 DEF Next

\* Whatever is typed, each variable is what sendToServer(), the server's
\* handler or packetResponse() computes from those before it.
THEOREM WireHolds == Spec => []WireInv
<1>1. Init => WireInv
  BY WireInit
<1>2. WireInv /\ [Next]_vars => WireInv'
  BY WireStep
<1> QED
  BY <1>1, <1>2, PTL DEF Spec

-----------------------------------------------------------------------------
(* The properties, each in the state it is about. *)

\* What the server sends, by the reason for which it sends it.
LEMMA AnswerIs ==
  ASSUME WireInv, pdu = procStdin(line, sendHandle)
  PROVE  /\ pdu # << >> =>
              Whole /\ (flagOf(Message) = 4 => FoundB) /\ (flagOf(Message) = 5 => FoundM)
         /\ Served => answer = pdu
         /\ Refused => NamePDU(answer, 7, put.name)
         /\ \A n \in ListLengths, h \in Names : Listed(n, h) => ListPDUs(answer, n, h)
<1>1. pdu # << >> =>
        Whole /\ (flagOf(Message) = 4 => FoundB) /\ (flagOf(Message) = 5 => FoundM)
  BY InvTyped, SentIs
<1>2. Served => answer = pdu
  BY <1>1 DEF Served, Whole
<1>3. ASSUME Refused
      PROVE  NamePDU(answer, 7, put.name)
  <2>1. FoundM /\ dests = FoundDests
    BY <1>1, <1>3 DEF Refused
  <2>2. PICK i \in DOMAIN dests : answer = sendFlag7(dests[i]) /\ put.name = dests[i]
    BY <1>3 DEF Refused
  <2>3. dests[i] \in Seq(Nat)
    BY <2>1, <2>2 DEF FoundM
  <2>4. NamePDU(answer, 7, dests[i])
    BY <2>2, <2>3, NamePDUIs
  <2> QED
    BY <2>2, <2>4
<1>4. ASSUME NEW n \in ListLengths, NEW h \in Names, Listed(n, h)
      PROVE  ListPDUs(answer, n, h)
  <2>1. h \in Seq(1 .. 127 \ {SPACE})
    BY ONLY h \in Names, ChatWireAssumption, Zenon
  <2>2. n \in Nat /\ h \in Seq(Nat)
    <3>1. h \in Seq(1 .. 127)
      BY ONLY <2>1
    <3>2. n \in Nat
      <4>1. n \in 0 .. 256 * 256 - 1
        BY ONLY n \in ListLengths, ListLengthsAssumption, Zenon
      <4>2. PICK most : most = 256 * 256 - 1
        OBVIOUS
      <4>3. n \in 0 .. most
        BY ONLY <4>1, <4>2, Zenon
      <4> QED
        BY ONLY <4>3
    <3> QED
      BY <3>1, <3>2, AreNumbers
  <2> QED
    BY <1>4, <2>2, ListIs DEF Listed
<1> QED
  BY <1>1, <1>2, <1>3, <1>4

\* A command whose number, if it has one, is not 0.
LEMMA WellFormedNumber ==
  ASSUME Typed, WellFormed
  PROVE  getHandleNum(line) = NumberTyped /\ getHandleNum(line) \in 1 .. 9
<1>1. /\ getHandleNum(line) = NumberTyped
      /\ getHandleNum(line) \in 1 .. 9 \cup {-1}
  BY NumberRead, ChatMessageAssumption DEF Typed
<1>2. NumberTyped # -1
  BY DEF WellFormed, NumberTyped
<1> QED
  BY <1>1, <1>2

\* LengthIsBytes, of each PDU by its kind.
LEMMA LengthInState == WireInv => LengthIsBytes
<1> SUFFICES ASSUME WireInv PROVE LengthIsBytes
  OBVIOUS
<1>1. CASE stage = "typed"
  BY <1>1 DEF WireInv, LengthIsBytes
<1>2. CASE stage = "registered"
  <2>1. pdu = login(sendHandle) /\ answer = << >>
    BY <1>2 DEF WireInv
  <2>2. NamePDU(pdu, 1, sendHandle)
    BY <2>1, InvTyped, NamePDUIs
  <2> QED
    BY <2>1, <2>2 DEF NamePDU, LengthIsBytes
<1>3. CASE stage \notin {"typed", "registered"}
  <2>1. pdu = procStdin(line, sendHandle)
    BY <1>3 DEF WireInv
  <2>2. /\ pdu # << >> => Whole
        /\ Served => answer = pdu
        /\ Refused => NamePDU(answer, 7, put.name)
        /\ \A n \in ListLengths, h \in Names : Listed(n, h) => ListPDUs(answer, n, h)
    BY <2>1, AnswerIs
  <2>3. pdu # << >> => ntohs(pdu) = Len(pdu)
    BY <2>2 DEF Whole
  <2>4. CASE answer = << >>
    BY <2>3, <2>4 DEF LengthIsBytes
  <2>5. CASE Served
    <3>1. ntohs(answer) = Len(answer)
      BY <2>2, <2>3, <2>5 DEF Served
    <3> QED
      BY <2>3, <3>1 DEF LengthIsBytes
  <2>6. CASE Refused
    <3>1. ntohs(answer) = Len(answer)
      BY <2>2, <2>6 DEF NamePDU
    <3> QED
      BY <2>3, <3>1 DEF LengthIsBytes
  <2>7. ASSUME NEW n \in ListLengths, NEW h \in Names, Listed(n, h),
               stage \in {"listed", "shown"}
        PROVE  LengthIsBytes
    <3>1. ntohs(answer) = 11 /\ 11 + ntohs(Drop(answer, 11)) = Len(answer)
      BY <2>2, <2>7 DEF ListPDUs
    <3>2. ntohs(answer) + ntohs(Drop(answer, ntohs(answer))) = Len(answer)
      BY <3>1
    <3> QED
      BY <2>3, <2>7, <3>2 DEF LengthIsBytes
  <2> QED
    BY <1>3, <2>4, <2>5, <2>6, <2>7 DEF WireInv, Stages
<1> QED
  BY <1>1, <1>2, <1>3

\* DestsAreTyped, of the %M that the server has taken apart.
LEMMA DestsInState == WireInv => DestsAreTyped
<1> SUFFICES ASSUME WireInv, stage = "served", flagOf(Message) = 5, WellFormed
             PROVE  dests = [i \in 1 .. NumberTyped |->
                               Take(Word(FirstDest + i - 1), MAX_HANDLE_SIZE)]
  BY DEF DestsAreTyped
<1>1. pdu = procStdin(line, sendHandle) /\ Served
  BY DEF WireInv
<1>2. FoundM /\ dests = FoundDests
  <2>1. pdu # << >> /\ dests = FoundDests
    BY <1>1 DEF Served
  <2> QED
    BY <1>1, <2>1, AnswerIs
<1>3. getHandleNum(line) = NumberTyped /\ getHandleNum(line) \in 1 .. 9
  BY InvTyped, WellFormedNumber
<1>4. FoundDests = DestsTyped(NumberTyped)
  BY <1>2, <1>3 DEF FoundM
<1> QED
  BY <1>2, <1>4 DEF DestsTyped

\* TextIsTyped; a refusal and a list have other flags.
LEMMA TextInState == WireInv => TextIsTyped
<1> SUFFICES ASSUME WireInv, stage = "shown", flagOf(messageOf(answer)) \in {4, 5}
             PROVE  /\ shown.name = sendHandle
                    /\ flagOf(Message) = 4 =>
                         shown.text = Take(From(FirstDest), MAX_SEND_TXT)
                    /\ flagOf(Message) = 5 /\ WellFormed =>
                         shown.text = Take(From(FirstDest + NumberTyped), MAX_SEND_TXT)
  BY DEF TextIsTyped
<1>1. pdu = procStdin(line, sendHandle)
  BY DEF WireInv
<1>2. ~Refused
  BY <1>1, AnswerIs DEF NamePDU
<1>3. \A n \in ListLengths, h \in Names : ~Listed(n, h)
  BY <1>1, AnswerIs DEF ListPDUs
<1>4. Served /\ ShownServed
  BY <1>2, <1>3 DEF WireInv
<1>5. pdu # << >> /\ answer = pdu /\ messageOf(answer) = Message
  BY <1>1, <1>4, AnswerIs DEF Served, Message
<1>6. /\ shown.name = findSender(Message)
      /\ shown.text = IF flagOf(Message) = 4 THEN getText4(Message, ntohs(pdu))
                                            ELSE getText(Message, ntohs(pdu))
  BY <1>4, <1>5 DEF ShownServed, Nothing
<1>7. flagOf(Message) \in {4, 5} /\ (flagOf(Message) = 4 => FoundB)
      /\ (flagOf(Message) = 5 => FoundM)
  BY <1>1, <1>5, AnswerIs
<1>8. CASE flagOf(Message) = 4
  BY <1>6, <1>7, <1>8 DEF FoundB, TextFrom
<1>9. CASE flagOf(Message) = 5
  <2>1. findSender(Message) = sendHandle
    BY <1>7, <1>9 DEF FoundM
  <2>2. ASSUME WellFormed
        PROVE  shown.text = Take(From(FirstDest + NumberTyped), MAX_SEND_TXT)
    <3>1. getHandleNum(line) = NumberTyped /\ getHandleNum(line) \in 1 .. 9
      BY <2>2, InvTyped, WellFormedNumber
    <3>2. getText(Message, ntohs(pdu)) = TextFrom(FirstDest + NumberTyped)
      BY <1>7, <1>9, <3>1 DEF FoundM
    <3> QED
      BY <1>6, <1>9, <3>2 DEF TextFrom
  <2> QED
    BY <1>6, <1>9, <2>1, <2>2
<1> QED
  BY <1>7, <1>8, <1>9

\* NamesAreKept, of a login, of a refusal and of a list.
LEMMA NamesInState == WireInv => NamesAreKept
<1> SUFFICES ASSUME WireInv PROVE NamesAreKept
  OBVIOUS
<1>1. ASSUME stage = "registered"
      PROVE  shown.name = sendHandle
  <2>1. shown.name = createStrHandle(messageOf(login(sendHandle)))
    BY <1>1 DEF WireInv, Nothing
  <2>2. /\ sendHandle \in Seq(Nat) /\ Len(sendHandle) \in 1 .. MAX_HANDLE_SIZE
        /\ MAX_HANDLE_SIZE \in Nat
    BY InvTyped, ChatMessageAssumption DEF Typed
  <2>3. findSender(messageOf(login(sendHandle))) = sendHandle
    BY <2>2, NamePDUIs DEF NamePDU
  <2>4. Take(sendHandle, MAX_HANDLE_SIZE) = sendHandle
    <3>1. Take(sendHandle, MAX_HANDLE_SIZE) = SubSeq(sendHandle, 1, Len(sendHandle))
      BY <2>2 DEF Take
    <3>2. SubSeq(sendHandle, 1, Len(sendHandle)) = sendHandle
      BY <2>2
    <3> QED
      BY <3>1, <3>2
  <2> QED
    BY <2>1, <2>3, <2>4 DEF createStrHandle
<1>2. ASSUME stage = "shown"
      PROVE  flagOf(messageOf(answer)) \in {7, 11} =>
               shown.name = put.name /\ shown.count = put.count
  <2>1. pdu = procStdin(line, sendHandle)
    BY <1>2 DEF WireInv
  <2>2. CASE Served
    <3>1. messageOf(answer) = Message /\ flagOf(Message) \in {4, 5}
      BY <2>1, <2>2, AnswerIs DEF Served, Message
    <3> QED
      BY <3>1
  <2>3. CASE Refused /\ ShownName
    <3>1. NamePDU(answer, 7, put.name)
      BY <2>1, <2>3, AnswerIs
    <3>2. shown.name = put.name /\ shown.count = 0
      BY <2>3, <3>1 DEF NamePDU, ShownName, Nothing
    <3> QED
      BY <2>3, <3>2 DEF Refused
  <2>4. ASSUME NEW n \in ListLengths, NEW h \in Names, Listed(n, h), ShownList
        PROVE  shown.name = put.name /\ shown.count = put.count
    <3>1. ListPDUs(answer, n, h)
      BY <2>1, <2>4, AnswerIs
    <3>2. /\ flagOf(messageOf(answer)) = 11 /\ flag11Count(messageOf(answer)) = n
          /\ findSender(messageOf(Drop(answer, ntohs(answer)))) = h
      BY <3>1 DEF ListPDUs, NamePDU
    <3>3. shown.count = n /\ shown.name = h
      BY <2>4, <3>2 DEF ShownList, Nothing
    <3> QED
      BY <2>4, <3>3 DEF Listed
  <2> QED
    BY <1>2, <2>2, <2>3, <2>4 DEF WireInv
<1> QED
  BY <1>1, <1>2 DEF NamesAreKept

-----------------------------------------------------------------------------
\* The two bytes in front of a PDU are its length, whoever sends it, so that
\* recv() with MSG_WAITALL neither waits for more nor leaves something behind
\* (sendToServer(), createNewMessage(), sendL()).
THEOREM LengthsAreRight == Spec => []LengthIsBytes
BY WireHolds, LengthInState, PTL

\* For every line: the server finds the destinations that were typed, in that
\* order, each cut at MAX_HANDLE_SIZE (proc_M(), findDestHandle()).
THEOREM DestsAreRight == Spec => []DestsAreTyped
BY WireHolds, DestsInState, PTL

\* For every line: what the receiver is shown is the sender's handle and the
\* rest of the line, cut at MAX_SEND_TXT (getText(), flag4resp()).
THEOREM TextIsRight == Spec => []TextIsTyped
BY WireHolds, TextInState, PTL

\* The handle that is registered is the one the client was started with, a
\* refusal names the destination that was refused, and a list is shown with the
\* count and the handle the server put in (createStrHandle(), sendFlag7(),
\* sendL()).
THEOREM NamesAreRight == Spec => []NamesAreKept
BY WireHolds, NamesInState, PTL
=============================================================================

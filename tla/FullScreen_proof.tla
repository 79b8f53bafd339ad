-------------------------- MODULE FullScreen_proof --------------------------
(***************************************************************************)
(* Proofs about the full-screen front end: for any number of messages and  *)
(* operations, nothing typed is lost, sent twice or overtaken.             *)
(***************************************************************************)
EXTENDS FullScreen, FiniteSetTheorems, SequenceTheorems, TLAPS

----------------------------------------------------------------------------
(* Sequences                                                                *)

\* Every set of numbers has a least one, by the finite sets below its members.
LEMMA LeastOf ==
  ASSUME NEW N \in SUBSET Nat, N # {}
  PROVE  \E n \in N : \A k \in N : n <= k
<1> DEFINE Below(n) == 1..n
           T == {Below(n) : n \in N}
<1>1. T \subseteq FiniteSubsetsOf(Nat) /\ T # {}
  <2>1. ASSUME NEW n \in N PROVE Below(n) \in FiniteSubsetsOf(Nat)
    <3>1. 1 \in Int /\ n \in Int
      OBVIOUS
    <3>2. IsFiniteSet(Below(n))
      BY <3>1, FS_Interval, Zenon
    <3>3. QED
      BY <3>2 DEF FiniteSubsetsOf
  <2>2. QED
    BY <2>1, Zenon
<1>2. PICK t \in T : \A u \in T : ~(<<u, t>> \in StrictSubsetOrdering(Nat))
  BY <1>1, WFMin, FS_StrictSubsetOrderingWellFounded
<1>3. PICK n \in N : t = Below(n)
  OBVIOUS
<1>4. ASSUME NEW k \in N, k < n PROVE FALSE
  <2>1. Below(k) \subseteq Below(n) /\ n \in Below(n) /\ n \notin Below(k)
    BY <1>4
  <2>2. Below(k) \in SUBSET Nat /\ Below(n) \in SUBSET Nat /\ Below(k) # Below(n)
    BY <2>1
  <2>3. <<Below(k), Below(n)>> \in StrictSubsetOrdering(Nat)
    BY <2>1, <2>2 DEF StrictSubsetOrdering
  <2>4. QED
    BY <1>2, <1>3, <2>3
<1>5. QED
  BY <1>4

\* The form of induction these proofs use: a set of numbers with no least one is empty.
LEMMA NoDescent ==
  ASSUME NEW N \in SUBSET Nat, \A n \in N : \E k \in N : k < n
  PROVE  N = {}
<1>1. SUFFICES ASSUME N # {} PROVE FALSE
  OBVIOUS
<1>2. PICK n \in N : \A k \in N : n <= k
  BY <1>1, LeastOf
<1>3. QED
  BY <1>2

LEMMA Associates ==
  ASSUME NEW S, NEW a \in Seq(S), NEW b \in Seq(S), NEW c \in Seq(S)
  PROVE  (a \o b) \o c = a \o (b \o c)
OBVIOUS

\* What FlattenSeq computes along the way.
Sums(q, n, g) == \A i \in 1..n : g[i] = IF i = 1 THEN q[i] ELSE g[i - 1] \o q[i]

PrefixOf(S, q, n, g) == g \in [1..n -> Seq(S)] /\ Sums(q, n, g)

\* One more element to add.
LEMMA PrefixesGrow ==
  ASSUME NEW S, NEW q \in Seq(Seq(S)), NEW n \in 1..Len(q), NEW g, PrefixOf(S, q, n - 1, g)
  PROVE  \E h : PrefixOf(S, q, n, h)
<1> DEFINE next == IF n = 1 THEN q[n] ELSE g[n - 1] \o q[n]
           h == [i \in 1..n |-> IF i = n THEN next ELSE g[i]]
<1>1. n \in Nat /\ n - 1 \in Nat
  OBVIOUS
<1>2. g \in [1..(n - 1) -> Seq(S)]
  BY DEF PrefixOf, Sums
<1>3. next \in Seq(S)
  <2>1. q[n] \in Seq(S)
    BY ElementOfSeq
  <2>2. CASE n = 1
    BY <2>1, <2>2
  <2>3. CASE n # 1
    <3>1. g[n - 1] \in Seq(S)
      BY <1>1, <1>2, <2>3
    <3>2. QED
      BY <2>1, <2>3, <3>1, ConcatProperties
  <2>4. QED
    BY <2>2, <2>3
<1> HIDE DEF next
<1>4. h \in [1..n -> Seq(S)]
  BY <1>1, <1>2, <1>3
<1>5. ASSUME NEW i \in 1..n PROVE h[i] = IF i = 1 THEN q[i] ELSE h[i - 1] \o q[i]
  <2>1. CASE i # n
    <3>1. i \in 1..(n - 1) /\ h[i] = g[i]
      BY <2>1
    <3>2. i # 1 => h[i - 1] = g[i - 1]
      BY <2>1
    <3> HIDE DEF h
    <3>3. g[i] = IF i = 1 THEN q[i] ELSE g[i - 1] \o q[i]
      BY <3>1 DEF PrefixOf, Sums
    <3>4. QED
      BY <3>1, <3>2, <3>3
  <2>2. CASE i = n
    <3>1. h[n] = next /\ (n # 1 => h[n - 1] = g[n - 1])
      BY <1>1
    <3> HIDE DEF h
    <3>2. QED
      BY <2>2, <3>1 DEF next
  <2>3. QED
    BY <2>1, <2>2
<1> HIDE DEF h
<1>6. QED
  BY <1>4, <1>5 DEF PrefixOf, Sums

LEMMA PrefixesExist ==
  ASSUME NEW S, NEW q \in Seq(Seq(S)), NEW n \in 0..Len(q)
  PROVE  \E g : PrefixOf(S, q, n, g)
<1> DEFINE Upto(k) == \E g : PrefixOf(S, q, k, g)
           Bad == {k \in 0..Len(q) : ~Upto(k)}
<1> HIDE DEF Upto
<1>1. Upto(0)
  <2>1. PrefixOf(S, q, 0, [i \in 1..0 |-> <<>>])
    BY DEF PrefixOf, Sums
  <2>2. QED
    BY <2>1 DEF Upto
<1>2. ASSUME NEW k \in Bad PROVE k - 1 \in Bad /\ k - 1 < k
  <2>1. k \in 1..Len(q) /\ k - 1 \in 0..Len(q)
    BY <1>1
  <2>2. ~Upto(k - 1)
    BY <2>1, PrefixesGrow DEF Upto
  <2>3. QED
    BY <2>1, <2>2
<1>3. Bad \in SUBSET Nat
  OBVIOUS
<1>4. Bad = {}
  <2> HIDE DEF Bad
  <2>1. QED
    BY <1>2, <1>3, NoDescent
<1>5. QED
  BY <1>4 DEF Upto

LEMMA PrefixesUnique ==
  ASSUME NEW S, NEW q, NEW n \in Nat, NEW f, NEW g,
         Sums(q, n, f), Sums(q, n, g)
  PROVE  \A i \in 1..n : f[i] = g[i]
<1> DEFINE Bad == {i \in 1..n : f[i] # g[i]}
<1>1. ASSUME NEW k \in Bad PROVE k - 1 \in Bad /\ k - 1 < k
  BY DEF Sums
<1>2. Bad \in SUBSET Nat
  OBVIOUS
<1>3. Bad = {}
  <2> HIDE DEF Bad
  <2>1. QED
    BY <1>1, <1>2, NoDescent
<1>4. QED
  BY <1>3

LEMMA FlattenPrefixes ==
  ASSUME NEW S, NEW q \in Seq(Seq(S)), q # <<>>
  PROVE  \E g : PrefixOf(S, q, Len(q), g) /\ FlattenSeq(q) = g[Len(q)]
<1> DEFINE Solves(f) == f = [i \in 1..Len(q) |-> IF i = 1 THEN q[i] ELSE f[i - 1] \o q[i]]
           flatten == CHOOSE f : Solves(f)
<1>1. Len(q) \in 1..Len(q) /\ Len(q) \in 0..Len(q) /\ Len(q) # 0
  BY EmptySeq
<1>2. PICK g : PrefixOf(S, q, Len(q), g)
  BY <1>1, PrefixesExist
<1>3. Solves(g)
  BY <1>2 DEF PrefixOf, Sums
<1>4. Solves(flatten)
  BY <1>3
<1>5. FlattenSeq(q) = flatten[Len(q)]
  BY <1>1 DEF FlattenSeq
<1> HIDE DEF flatten
<1>6. \A i \in 1..Len(q) : flatten[i] = g[i]
  <2>1. Sums(q, Len(q), flatten)
    BY <1>4 DEF Sums
  <2>2. Sums(q, Len(q), g)
    BY <1>2 DEF PrefixOf, Sums
  <2>3. Len(q) \in Nat
    BY <1>1
  <2>4. QED
    BY <2>1, <2>2, <2>3, PrefixesUnique
<1>7. QED
  BY <1>1, <1>2, <1>5, <1>6

(* FlattenSeq, as the sequence it is.                                       *)

LEMMA FlattenEmpty == FlattenSeq(<<>>) = <<>>
BY DEF FlattenSeq

\* The sum of a queue's texts is a text.
LEMMA FlattenType ==
  ASSUME NEW S, NEW q \in Seq(Seq(S))
  PROVE  FlattenSeq(q) \in Seq(S)
<1>1. CASE q = <<>>
  BY <1>1, FlattenEmpty, EmptySeq
<1>2. CASE q # <<>>
  <2>1. PICK g : PrefixOf(S, q, Len(q), g) /\ FlattenSeq(q) = g[Len(q)]
    BY <1>2, FlattenPrefixes
  <2>2. Len(q) \in 1..Len(q)
    BY <1>2, EmptySeq
  <2>3. QED
    BY <2>1, <2>2 DEF PrefixOf, Sums
<1>3. QED
  BY <1>1, <1>2

\* A text queued last comes last.
LEMMA FlattenAppend ==
  ASSUME NEW S, NEW q \in Seq(Seq(S)), NEW s \in Seq(S)
  PROVE  FlattenSeq(Append(q, s)) = FlattenSeq(q) \o s
<1> DEFINE r == Append(q, s)
           n == Len(q)
<1>1. r \in Seq(Seq(S)) /\ r # <<>> /\ Len(r) = n + 1 /\ r[n + 1] = s /\ n \in Nat
  BY AppendProperties
<1>2. \A i \in 1..n : r[i] = q[i]
  BY AppendProperties
<1> HIDE DEF r
<1>3. PICK h : PrefixOf(S, r, n + 1, h) /\ FlattenSeq(r) = h[n + 1]
  BY <1>1, FlattenPrefixes
<1>4. CASE q = <<>>
  <2>1. h[1] = s
    BY <1>1, <1>3, <1>4 DEF PrefixOf, Sums
  <2>2. <<>> \o s = s
    BY EmptySeq
  <2>3. QED
    BY <1>1, <1>3, <1>4, <2>1, <2>2, FlattenEmpty DEF r
<1>5. CASE q # <<>>
  <2>1. PICK g : PrefixOf(S, q, n, g) /\ FlattenSeq(q) = g[n]
    BY <1>5, FlattenPrefixes
  <2>2. n \in 1..n
    BY <1>5, EmptySeq
  <2>3. Sums(q, n, h)
    <3>1. Sums(r, n + 1, h)
      BY <1>3 DEF PrefixOf, Sums
    <3> HIDE DEF n
    <3>2. QED
      BY <1>1, <1>2, <3>1 DEF Sums
  <2>4. h[n] = g[n]
    <3>1. Sums(q, n, g) /\ n \in Nat
      BY <1>1, <2>1 DEF PrefixOf, Sums
    <3> HIDE DEF n
    <3>2. \A i \in 1..n : h[i] = g[i]
      BY <2>3, <3>1, PrefixesUnique
    <3>3. QED
      BY <2>2, <3>2
  <2>5. h[n + 1] = h[n] \o s
    <3>1. \A i \in 1..(n + 1) : h[i] = IF i = 1 THEN r[i] ELSE h[i - 1] \o r[i]
      BY <1>3 DEF PrefixOf, Sums
    <3> HIDE DEF n
    <3>2. n + 1 \in 1..(n + 1) /\ n + 1 # 1 /\ (n + 1) - 1 = n
      BY <1>1, <2>2
    <3>3. QED
      BY <1>1, <3>1, <3>2
  <2>6. QED
    BY <1>3, <2>1, <2>4, <2>5 DEF r
<1>6. QED
  BY <1>4, <1>5

\* The text queued first comes first.
LEMMA FlattenHead ==
  ASSUME NEW S, NEW q \in Seq(Seq(S)), q # <<>>
  PROVE  FlattenSeq(q) = Head(q) \o FlattenSeq(Tail(q))
<1> DEFINE r == Tail(q)
           n == Len(r)
<1>1. r \in Seq(Seq(S)) /\ n \in Nat /\ Len(q) = n + 1 /\ Head(q) = q[1] /\ q[1] \in Seq(S)
  BY HeadTailProperties
<1>2. \A i \in 1..n : r[i] = q[i + 1] /\ r[i] \in Seq(S)
  BY <1>1, ElementOfSeq
<1> HIDE DEF r
<1>3. PICK h : PrefixOf(S, q, n + 1, h) /\ FlattenSeq(q) = h[n + 1]
  BY <1>1, FlattenPrefixes
<1>4. h[1] = q[1]
  BY <1>1, <1>3 DEF PrefixOf, Sums
<1>5. CASE r = <<>>
  <2>1. n = 0
    BY <1>5
  <2>2. FlattenSeq(q) = q[1]
    BY <1>3, <1>4, <2>1
  <2>3. q[1] \o <<>> = q[1]
    BY <1>1, ConcatEmptySeq
  <2>4. QED
    BY <1>1, <1>5, <2>2, <2>3, FlattenEmpty DEF r
<1>6. CASE r # <<>>
  <2>1. PICK g : PrefixOf(S, r, n, g) /\ FlattenSeq(r) = g[n]
    BY <1>1, <1>6, FlattenPrefixes
  <2>2. n \in 1..n
    BY <1>1, <1>6, EmptySeq
  <2> DEFINE Bad == {i \in 1..n : h[i + 1] # q[1] \o g[i]}
  <2>3. Bad \in SUBSET Nat
    <3>1. Bad \subseteq 1..n
      BY Zenon
    <3> HIDE DEF Bad, n
    <3>2. 1..n \subseteq Nat
      BY <1>1
    <3>3. QED
      BY <3>1, <3>2, Zenon
  <2>4. ASSUME NEW k \in Bad PROVE k - 1 \in Bad /\ k - 1 < k
    <3>1. k \in 1..n /\ h[k + 1] # q[1] \o g[k]
      OBVIOUS
    <3>2. /\ \A i \in 1..(n + 1) : h[i] = IF i = 1 THEN q[i] ELSE h[i - 1] \o q[i]
          /\ \A i \in 1..n : g[i] = IF i = 1 THEN r[i] ELSE g[i - 1] \o r[i]
          /\ g \in [1..n -> Seq(S)]
      BY <1>3, <2>1 DEF PrefixOf, Sums
    <3> HIDE DEF n, Bad
    <3>3. k \in Nat /\ k + 1 \in 1..(n + 1) /\ k + 1 # 1 /\ (k + 1) - 1 = k
      BY <1>1, <3>1
    <3>4. h[k + 1] = h[k] \o r[k]
      BY <1>2, <3>1, <3>2, <3>3
    <3>5. k # 1
      <4>1. ASSUME k = 1 PROVE FALSE
        <5>1. g[k] = r[k]
          BY <3>1, <3>2, <4>1
        <5>2. QED
          BY <1>4, <3>1, <3>4, <4>1, <5>1
      <4>2. QED
        BY <4>1
    <3>6. k - 1 \in 1..n /\ (k - 1) + 1 = k /\ k - 1 < k
      BY <1>1, <3>1, <3>3, <3>5
    <3>7. g[k] = g[k - 1] \o r[k]
      BY <3>1, <3>2, <3>5
    <3>8. h[k] # q[1] \o g[k - 1]
      <4>1. ASSUME h[k] = q[1] \o g[k - 1] PROVE FALSE
        <5>1. g[k - 1] \in Seq(S) /\ r[k] \in Seq(S)
          BY <1>2, <3>1, <3>2, <3>6
        <5>2. (q[1] \o g[k - 1]) \o r[k] = q[1] \o (g[k - 1] \o r[k])
          <6> DEFINE a == q[1]
                     b == g[k - 1]
                     c == r[k]
          <6>1. a \in Seq(S) /\ b \in Seq(S) /\ c \in Seq(S)
            BY <1>1, <5>1
          <6> HIDE DEF a, b, c
          <6>2. (a \o b) \o c = a \o (b \o c)
            BY ONLY <6>1, Associates, SMTT(30)
          <6>3. QED
            BY <6>2 DEF a, b, c
        <5>3. QED
          BY <3>1, <3>4, <3>7, <4>1, <5>2
      <4>2. QED
        BY <4>1
    <3>9. QED
      BY <3>6, <3>8 DEF Bad
  <2>5. Bad = {}
    <3> HIDE DEF Bad
    <3>1. QED
      BY <2>3, <2>4, NoDescent
  <2>6. h[n + 1] = q[1] \o g[n]
    BY <2>2, <2>5
  <2>7. QED
    BY <1>1, <1>3, <2>1, <2>6 DEF r
<1>7. QED
  BY <1>5, <1>6

----------------------------------------------------------------------------
(* The text as a whole, over the ways a message moves.                      *)

TextOf(s, q, c) == s \o FlattenSeq(q) \o c

LEMMA TextType ==
  ASSUME NEW S, NEW s \in Seq(S), NEW q \in Seq(Seq(S)), NEW c \in Seq(S)
  PROVE  /\ FlattenSeq(q) \in Seq(S)
         /\ s \o FlattenSeq(q) \in Seq(S)
         /\ TextOf(s, q, c) \in Seq(S)
BY FlattenType, ConcatProperties DEF TextOf

LEMMA TextTyped ==
  ASSUME NEW S, NEW s \in Seq(S), NEW q \in Seq(Seq(S)), NEW c \in Seq(S), NEW m \in S
  PROVE  TextOf(s, q, Append(c, m)) = Append(TextOf(s, q, c), m)
<1> DEFINE before == s \o FlattenSeq(q)
<1>1. before \in Seq(S)
  BY TextType
<1> HIDE DEF before
<1>2. before \o Append(c, m) = Append(before \o c, m)
  BY ONLY <1>1, c \in Seq(S), m \in S
<1>3. QED
  BY <1>2 DEF before, TextOf

LEMMA TextQueued ==
  ASSUME NEW S, NEW s \in Seq(S), NEW q \in Seq(Seq(S)), NEW c \in Seq(S)
  PROVE  TextOf(s, Append(q, c), <<>>) = TextOf(s, q, c)
<1> DEFINE f == FlattenSeq(q)
<1>1. f \in Seq(S)
  BY TextType
<1>2. FlattenSeq(Append(q, c)) = f \o c
  BY FlattenAppend
<1> HIDE DEF f
<1>3. (s \o (f \o c)) \o <<>> = (s \o f) \o c
  BY ONLY <1>1, s \in Seq(S), c \in Seq(S)
<1>4. QED
  BY <1>2, <1>3 DEF f, TextOf

LEMMA TextRestored ==
  ASSUME NEW S, NEW s \in Seq(S), NEW q \in Seq(Seq(S)), NEW c \in Seq(S)
  PROVE  TextOf(s, <<>>, FlattenSeq(q) \o c) = TextOf(s, q, c)
<1> DEFINE f == FlattenSeq(q)
<1>1. f \in Seq(S)
  BY TextType
<1> HIDE DEF f
<1>2. (s \o <<>>) \o (f \o c) = (s \o f) \o c
  BY ONLY <1>1, s \in Seq(S), c \in Seq(S)
<1>3. QED
  BY <1>2, FlattenEmpty DEF f, TextOf

LEMMA TextDequeued ==
  ASSUME NEW S, NEW s \in Seq(S), NEW q \in Seq(Seq(S)), q # <<>>, NEW c \in Seq(S)
  PROVE  TextOf(s \o Head(q), Tail(q), c) = TextOf(s, q, c)
<1> DEFINE h == Head(q)
           t == FlattenSeq(Tail(q))
<1>1. h \in Seq(S) /\ t \in Seq(S)
  BY HeadTailProperties, FlattenType
<1>2. FlattenSeq(q) = h \o t
  BY FlattenHead
<1> HIDE DEF h, t
<1>3. ((s \o h) \o t) \o c = (s \o (h \o t)) \o c
  BY ONLY <1>1, s \in Seq(S), c \in Seq(S)
<1>4. QED
  BY <1>2, <1>3 DEF h, t, TextOf

LEMMA SetOfSum ==
  ASSUME NEW S, NEW a \in Seq(S), NEW b \in Seq(S)
  PROVE  ToSet(a \o b) = ToSet(a) \cup ToSet(b)
<1>1. ASSUME NEW i \in 1..Len(a) PROVE i \in 1..Len(a \o b) /\ (a \o b)[i] = a[i]
  OBVIOUS
<1>2. ASSUME NEW i \in 1..Len(b)
      PROVE  i + Len(a) \in 1..Len(a \o b) /\ (a \o b)[i + Len(a)] = b[i]
  OBVIOUS
<1>3. ASSUME NEW i \in 1..Len(a \o b)
      PROVE  \/ i \in 1..Len(a) /\ (a \o b)[i] = a[i]
             \/ i - Len(a) \in 1..Len(b) /\ (a \o b)[i] = b[i - Len(a)]
  OBVIOUS
<1>4. DOMAIN a = 1..Len(a) /\ DOMAIN b = 1..Len(b) /\ DOMAIN (a \o b) = 1..Len(a \o b)
  BY ConcatProperties, LenProperties
<1>5. Len(a) \in Nat /\ Len(b) \in Nat
  OBVIOUS
<1>6. ASSUME NEW x \in ToSet(a \o b) PROVE x \in ToSet(a) \cup ToSet(b)
  <2>1. PICK i \in 1..Len(a \o b) : x = (a \o b)[i]
    BY <1>4, <1>6 DEF ToSet
  <2>2. QED
    BY <1>3, <1>4, <2>1 DEF ToSet
<1>7. ASSUME NEW x \in ToSet(a) PROVE x \in ToSet(a \o b)
  BY <1>1, <1>4, <1>7 DEF ToSet
<1>8. ASSUME NEW x \in ToSet(b) PROVE x \in ToSet(a \o b)
  BY <1>2, <1>4, <1>8 DEF ToSet
<1>9. QED
  BY <1>6, <1>7, <1>8

\* A sum repeats nothing exactly when neither part does and they have nothing in common.
LEMMA InjectiveSum ==
  ASSUME NEW S, NEW a \in Seq(S), NEW b \in Seq(S)
  PROVE  IsInjective(a \o b)
             <=> IsInjective(a) /\ IsInjective(b) /\ ToSet(a) \cap ToSet(b) = {}
<1>1. ASSUME NEW i \in 1..Len(a) PROVE i \in 1..Len(a \o b) /\ (a \o b)[i] = a[i]
  OBVIOUS
<1>2. ASSUME NEW i \in 1..Len(b)
      PROVE  i + Len(a) \in 1..Len(a \o b) /\ (a \o b)[i + Len(a)] = b[i]
  OBVIOUS
<1>3. ASSUME NEW i \in 1..Len(a \o b)
      PROVE  \/ i \in 1..Len(a) /\ (a \o b)[i] = a[i]
             \/ i - Len(a) \in 1..Len(b) /\ (a \o b)[i] = b[i - Len(a)]
  OBVIOUS
<1>4. DOMAIN a = 1..Len(a) /\ DOMAIN b = 1..Len(b) /\ DOMAIN (a \o b) = 1..Len(a \o b)
  BY ConcatProperties, LenProperties
<1>5. Len(a) \in Nat /\ Len(b) \in Nat
  OBVIOUS
<1>6. ASSUME IsInjective(a \o b)
      PROVE  IsInjective(a) /\ IsInjective(b) /\ ToSet(a) \cap ToSet(b) = {}
  <2>1. IsInjective(a)
    BY <1>1, <1>4, <1>6 DEF IsInjective
  <2>2. IsInjective(b)
    <3>1. ASSUME NEW i \in 1..Len(b), NEW j \in 1..Len(b), b[i] = b[j] PROVE i = j
      <4>1. i + Len(a) = j + Len(a)
        BY <1>2, <1>4, <1>6, <3>1 DEF IsInjective
      <4>2. QED
        BY <1>5, <4>1
    <3>2. QED
      BY <1>4, <3>1 DEF IsInjective
  <2>3. ASSUME NEW i \in 1..Len(a), NEW j \in 1..Len(b), a[i] = b[j] PROVE FALSE
    <3>1. i = j + Len(a)
      BY <1>1, <1>2, <1>4, <1>6, <2>3 DEF IsInjective
    <3>2. QED
      BY <1>5, <3>1
  <2>4. QED
    BY <1>4, <2>1, <2>2, <2>3 DEF ToSet
<1>7. ASSUME IsInjective(a), IsInjective(b), ToSet(a) \cap ToSet(b) = {}
      PROVE  IsInjective(a \o b)
  <2>1. ASSUME NEW i \in 1..Len(a \o b), NEW j \in 1..Len(a \o b), (a \o b)[i] = (a \o b)[j]
        PROVE  i = j
    <3>1. CASE i \in 1..Len(a) /\ (a \o b)[i] = a[i] /\ j \in 1..Len(a) /\ (a \o b)[j] = a[j]
      BY <1>4, <1>7, <2>1, <3>1 DEF IsInjective
    <3>2. CASE /\ i - Len(a) \in 1..Len(b) /\ (a \o b)[i] = b[i - Len(a)]
               /\ j - Len(a) \in 1..Len(b) /\ (a \o b)[j] = b[j - Len(a)]
      <4>1. i - Len(a) = j - Len(a)
        BY <1>4, <1>7, <2>1, <3>2 DEF IsInjective
      <4>2. QED
        BY <1>5, <4>1
    <3>3. ASSUME NEW k \in 1..Len(a), NEW l \in 1..Len(b), a[k] = b[l] PROVE FALSE
      BY <1>4, <1>7, <3>3 DEF ToSet
    <3>4. QED
      BY <1>3, <2>1, <3>1, <3>2, <3>3
  <2>2. QED
    BY <1>4, <2>1 DEF IsInjective
<1>8. QED
  BY <1>6, <1>7


----------------------------------------------------------------------------
(* The invariant.                                                           *)

USE FullScreenAssumption DEF InFlight, Saving, RunInFlight, Slips

\* The texts of a state, and of the next one.
Texts ==
    /\ typed \in Nat
    /\ composer \in Seq(1..typed)
    /\ queue \in Seq(Seq(1..typed))
    /\ sent \in Seq(1..typed)
    /\ discarded \subseteq 1..typed

\* What an action may do to the texts: what it leaves of the invariant.
TextInv == Texts /\ EachOnce /\ (slips = {} => InOrder)

Operations(n) == [task : 0..n, required : BOOLEAN, exit : BOOLEAN]

Counts ==
    /\ typed \in 0..MaxMessages
    /\ others \in 0..MaxOthers
    /\ ops \in Nat
    /\ callback \in 0..ops
    /\ operation \in Operations(ops)

Kinds ==
    /\ kind \in {"turn", "command"}
    /\ task \in {"none", "done"} \cup InFlight
    /\ result \in {"ok", "error", "cancelled"}

Flags ==
    /\ cancelRequested \in BOOLEAN
    /\ armed \in BOOLEAN
    /\ exited \in BOOLEAN
    /\ slips \subseteq Slips

Running ==
    /\ RunInFlight => operation.task = ops
    /\ task \in Saving => operation.required

Control == Counts /\ Kinds /\ Flags /\ Running /\ Followed

LEMMA Parts == FullScreenInv <=> Control /\ TextInv
BY DEF FullScreenInv, OrderKept, FullScreenTypeOK, Control, Counts, Kinds, Flags, Running,
       Operations, TextInv, Texts

\* A step that moves no text.
LEMMA TextSame ==
  ASSUME TextInv, typed' = typed, TextOf(sent, queue, composer)' = TextOf(sent, queue, composer),
         discarded' = discarded, Texts', slips' = {} => slips = {}
  PROVE  TextInv'
<1>1. Text' = Text
  BY DEF Text, TextOf
<1>2. QED
  BY <1>1 DEF TextInv, EachOnce, InOrder

LEMMA SameTexts ==
  ASSUME TextInv, UNCHANGED <<typed, texts>>, slips' = {} => slips = {}
  PROVE  TextInv'
<1>1. Texts'
  BY DEF TextInv, Texts, texts
<1>2. QED
  BY <1>1, TextSame DEF texts, TextOf

\* A message typed is the last one of the text.
LEMMA TypeTexts ==
  ASSUME TextInv, Type
  PROVE  TextInv'
<1> DEFINE m == typed + 1
           S == 1..typed
           T == 1..m
<1>1. typed \in Nat /\ m \in T /\ m \notin S /\ S \subseteq T
  BY DEF TextInv, Texts
<1>2. /\ typed' = m
      /\ composer' = Append(composer, m)
      /\ UNCHANGED <<queue, sent, discarded, slips>>
  BY DEF Type
<1>3. composer \in Seq(S) /\ queue \in Seq(Seq(S)) /\ sent \in Seq(S) /\ discarded \subseteq S
  BY DEF TextInv, Texts
<1>4. composer \in Seq(T) /\ queue \in Seq(Seq(T)) /\ sent \in Seq(T) /\ discarded \subseteq T
  <2>1. Seq(S) \subseteq Seq(T)
    BY <1>1, SeqMonotonic
  <2> HIDE DEF S, T
  <2>2. queue \in Seq(Seq(T))
    BY <1>3, <2>1, SeqMonotonic
  <2>3. QED
    BY <1>1, <1>3, <2>1, <2>2
<1>5. Text \in Seq(S)
  <2> HIDE DEF S
  <2>1. QED
    BY <1>3, TextType DEF Text, TextOf
<1>6. Text' = Append(Text, m)
  <2>1. TextOf(sent, queue, Append(composer, m)) = Append(TextOf(sent, queue, composer), m)
    <3> HIDE DEF T, m
    <3>1. QED
      BY <1>1, <1>4, TextTyped
  <2>2. QED
    BY <1>2, <2>1 DEF Text, TextOf
<1>7. /\ DOMAIN Text = 1..Len(Text) /\ Len(Text) \in Nat
      /\ DOMAIN Text' = 1..(Len(Text) + 1) /\ Len(Text') = Len(Text) + 1
      /\ \A i \in 1..Len(Text) : Text'[i] = Text[i] /\ Text[i] \in S
      /\ Text'[Len(Text) + 1] = m
  <2> HIDE DEF S, m
  <2>1. Text \in Seq(T)
    BY <1>1, <1>5, SeqMonotonic
  <2> HIDE DEF T
  <2>2. /\ Append(Text, m) \in Seq(T)
        /\ Len(Append(Text, m)) = Len(Text) + 1
        /\ \A i \in 1..Len(Text) : Append(Text, m)[i] = Text[i]
        /\ Append(Text, m)[Len(Text) + 1] = m
    BY <1>1, <2>1, AppendProperties
  <2>3. QED
    BY <1>5, <1>6, <2>2, LenProperties, ElementOfSeq
<1>8. Texts'
  <2>1. Append(composer, m) \in Seq(T)
    <3> HIDE DEF T, m
    <3>1. QED
      BY <1>1, <1>4, AppendProperties
  <2>2. QED
    BY <1>1, <1>2, <1>4, <2>1 DEF Texts
<1>9. EachOnce'
  <2>1. IsInjective(Text) /\ ToSet(Text) = S \ discarded
    BY DEF TextInv, EachOnce
  <2>2. IsInjective(Text')
    <3> HIDE DEF S, m
    <3>1. QED
      BY <1>1, <1>7, <2>1 DEF IsInjective
  <2>3. ToSet(Text') = ToSet(Text) \cup {m}
    <3> HIDE DEF S, m
    <3>1. QED
      BY <1>7 DEF ToSet
  <2>4. (S \ discarded) \cup {m} = T \ discarded
    BY <1>1, <1>3
  <2>5. QED
    BY <1>2, <2>1, <2>2, <2>3, <2>4 DEF EachOnce
<1>10. slips' = {} => InOrder'
  <2>1. SUFFICES ASSUME InOrder PROVE InOrder'
    BY <1>2 DEF TextInv
  <2>2. ASSUME NEW i \in 1..Len(Text'), NEW j \in 1..Len(Text'), i < j
        PROVE  Text'[i] < Text'[j]
    <3> HIDE DEF S
    <3>1. i \in 1..Len(Text) /\ Text[i] \in S /\ Text'[i] = Text[i]
      BY <1>7, <2>2
    <3>2. CASE j \in 1..Len(Text)
      BY <1>7, <2>1, <2>2, <3>1, <3>2 DEF InOrder
    <3>3. CASE j = Len(Text) + 1
      BY <1>1, <1>7, <3>1, <3>3 DEF S
    <3>4. QED
      BY <1>7, <3>2, <3>3
  <2>3. QED
    BY <2>2 DEF InOrder
<1>11. QED
  BY <1>8, <1>9, <1>10 DEF TextInv

LEMMA SumOfThree ==
  ASSUME NEW S, NEW a \in Seq(S), NEW b \in Seq(S), NEW c \in Seq(S)
  PROVE  /\ ToSet((a \o b) \o c) = ToSet(a) \cup ToSet(b) \cup ToSet(c)
         /\ IsInjective((a \o b) \o c)
                <=> /\ IsInjective(a) /\ IsInjective(b) /\ IsInjective(c)
                    /\ ToSet(a) \cap ToSet(b) = {}
                    /\ ToSet(a) \cap ToSet(c) = {}
                    /\ ToSet(b) \cap ToSet(c) = {}
<1> DEFINE d == a \o b
<1>1. d \in Seq(S)
  BY ConcatProperties
<1>2. ToSet(d) = ToSet(a) \cup ToSet(b)
  BY SetOfSum
<1>3. IsInjective(d) <=> IsInjective(a) /\ IsInjective(b) /\ ToSet(a) \cap ToSet(b) = {}
  BY InjectiveSum
<1> HIDE DEF d
<1>4. ToSet(d \o c) = ToSet(d) \cup ToSet(c)
  BY <1>1, SetOfSum
<1>5. IsInjective(d \o c) <=> IsInjective(d) /\ IsInjective(c) /\ ToSet(d) \cap ToSet(c) = {}
  BY <1>1, InjectiveSum
<1>6. ToSet(d \o c) = ToSet(a) \cup ToSet(b) \cup ToSet(c)
  BY <1>2, <1>4
<1>7. ToSet(d) \cap ToSet(c) = {}
          <=> ToSet(a) \cap ToSet(c) = {} /\ ToSet(b) \cap ToSet(c) = {}
  BY <1>2
<1>8. QED
  BY <1>3, <1>5, <1>6, <1>7 DEF d

\* Whatever the order of three texts, what they hold and that nothing is twice in it is the same.
LEMMA TextSubmitted ==
  ASSUME NEW S, NEW s \in Seq(S), NEW q \in Seq(Seq(S)), NEW c \in Seq(S)
  PROVE  /\ ToSet(TextOf(s \o c, q, <<>>)) = ToSet(TextOf(s, q, c))
         /\ IsInjective(TextOf(s, q, c)) => IsInjective(TextOf(s \o c, q, <<>>))
         /\ q = <<>> => TextOf(s \o c, q, <<>>) = TextOf(s, q, c)
<1> DEFINE f == FlattenSeq(q)
<1>1. f \in Seq(S)
  BY TextType
<1>2. q = <<>> => f = <<>>
  BY FlattenEmpty
<1> HIDE DEF f
<1>3. s \o c \in Seq(S) /\ s \o f \in Seq(S) /\ (s \o c) \o f \in Seq(S)
  BY <1>1, ConcatProperties
<1>4. ((s \o c) \o f) \o <<>> = (s \o c) \o f
  BY <1>3, ConcatEmptySeq
<1>5. ToSet((s \o c) \o f) = ToSet((s \o f) \o c)
  <2>1. /\ ToSet((s \o c) \o f) = ToSet(s) \cup ToSet(c) \cup ToSet(f)
        /\ ToSet((s \o f) \o c) = ToSet(s) \cup ToSet(f) \cup ToSet(c)
    BY <1>1, SumOfThree
  <2>2. QED
    BY ONLY <2>1
<1>6. IsInjective((s \o f) \o c) => IsInjective((s \o c) \o f)
  <2>1. IsInjective((s \o f) \o c) =>
            /\ IsInjective(s) /\ IsInjective(f) /\ IsInjective(c)
            /\ ToSet(s) \cap ToSet(f) = {}
            /\ ToSet(s) \cap ToSet(c) = {}
            /\ ToSet(f) \cap ToSet(c) = {}
    BY <1>1, SumOfThree
  <2>2. IsInjective((s \o c) \o f) <=>
            /\ IsInjective(s) /\ IsInjective(c) /\ IsInjective(f)
            /\ ToSet(s) \cap ToSet(c) = {}
            /\ ToSet(s) \cap ToSet(f) = {}
            /\ ToSet(c) \cap ToSet(f) = {}
    BY <1>1, SumOfThree
  <2>3. ToSet(c) \cap ToSet(f) = ToSet(f) \cap ToSet(c)
    OBVIOUS
  <2>4. QED
    BY ONLY <2>1, <2>2, <2>3
<1>7. q = <<>> => (s \o c) \o f = (s \o f) \o c
  <2>1. ((s \o c) \o <<>>) = (s \o <<>>) \o c
    BY ONLY s \in Seq(S), c \in Seq(S)
  <2>2. QED
    BY <1>2, <2>1
<1>8. QED
  BY <1>4, <1>5, <1>6, <1>7 DEF TextOf, f

LEMMA SubmitTexts ==
  ASSUME TextInv, Followed, Submit
  PROVE  TextInv'
<1> DEFINE S == 1..typed
<1>1. composer \in Seq(S) /\ queue \in Seq(Seq(S)) /\ sent \in Seq(S) /\ discarded \subseteq S
  BY DEF TextInv, Texts
<1>2. UNCHANGED <<typed, discarded>> /\ composer' = <<>> /\ typed \in Nat
  BY DEF Submit, TextInv, Texts
<1>3. CASE SubmitWhileRunning /\ UNCHANGED slips
  <2>1. queue' = Append(queue, composer) /\ sent' = sent
    BY <1>3 DEF SubmitWhileRunning
  <2>2. TextOf(sent', queue', composer') = TextOf(sent, queue, composer)
    <3> HIDE DEF S
    <3>1. QED
      BY <1>1, <1>2, <2>1, TextQueued
  <2>3. Texts'
    <3>1. Append(queue, composer) \in Seq(Seq(S)) /\ <<>> \in Seq(S)
      <4> HIDE DEF S
      <4>1. QED
        BY <1>1, AppendProperties, EmptySeq
    <3>2. QED
      BY <1>1, <1>2, <2>1, <3>1 DEF Texts
  <2>4. QED
    BY <1>2, <1>3, <2>2, <2>3, TextSame DEF TextOf
<1>4. CASE ~RunInFlight /\ StartOperation("turn", composer) /\ UNCHANGED queue /\ NoteReplaced
  <2>1. sent' = sent \o composer /\ queue' = queue
    BY <1>4 DEF StartOperation
  <2>2. Texts'
    <3>1. sent \o composer \in Seq(S) /\ <<>> \in Seq(S)
      <4> HIDE DEF S
      <4>1. QED
        BY <1>1, ConcatProperties, EmptySeq
    <3>2. QED
      BY <1>1, <1>2, <2>1, <3>1 DEF Texts
  <2>3. Text = TextOf(sent, queue, composer) /\ Text' = TextOf(sent \o composer, queue, <<>>)
    BY <1>2, <2>1 DEF Text, TextOf
  <2>4. /\ ToSet(Text') = ToSet(Text)
        /\ IsInjective(Text) => IsInjective(Text')
        /\ queue = <<>> => Text' = Text
    <3> HIDE DEF S
    <3>1. QED
      BY <1>1, <2>3, TextSubmitted
  <2>5. EachOnce'
    BY <1>2, <2>4 DEF TextInv, EachOnce
  <2>6. slips' = {} => slips = {} /\ queue = <<>>
    BY <1>4 DEF NoteReplaced, Followed, Submit, LoopPolls
  <2>7. slips' = {} => InOrder'
    BY <2>4, <2>6 DEF TextInv, InOrder
  <2>8. QED
    BY <2>2, <2>5, <2>7 DEF TextInv
<1>5. QED
  BY <1>3, <1>4 DEF Submit

LEMMA FinishTexts ==
  ASSUME TextInv, FinishOperation
  PROVE  TextInv'
<1> DEFINE S == 1..typed
<1>1. composer \in Seq(S) /\ queue \in Seq(Seq(S)) /\ sent \in Seq(S) /\ discarded \subseteq S
  BY DEF TextInv, Texts
<1>2. UNCHANGED <<typed, discarded>> /\ typed \in Nat
  BY DEF FinishOperation, TextInv, Texts
<1>3. CASE UNCHANGED <<composer, queue, sent>> /\ (slips' = {} => slips = {})
  BY <1>2, <1>3, SameTexts DEF texts
<1>4. CASE Restore /\ Settle /\ UNCHANGED slips
  <2>1. composer' = FlattenSeq(queue) \o composer /\ queue' = <<>> /\ sent' = sent
    BY <1>4 DEF Restore, Settle
  <2>2. TextOf(sent', queue', composer') = TextOf(sent, queue, composer)
    <3> HIDE DEF S
    <3>1. QED
      BY <1>1, <2>1, TextRestored
  <2>3. Texts'
    <3>1. FlattenSeq(queue) \o composer \in Seq(S) /\ <<>> \in Seq(Seq(S))
      <4> HIDE DEF S
      <4>1. QED
        BY <1>1, FlattenType, ConcatProperties, EmptySeq
    <3>2. QED
      BY <1>1, <1>2, <2>1, <3>1 DEF Texts
  <2>4. QED
    BY <1>2, <1>4, <2>2, <2>3, TextSame DEF TextOf
<1>5. CASE /\ queue # <<>>
           /\ StartOperation("turn", Head(queue))
           /\ queue' = Tail(queue)
           /\ UNCHANGED <<composer, slips>>
  <2>1. sent' = sent \o Head(queue) /\ queue' = Tail(queue) /\ composer' = composer
    BY <1>5 DEF StartOperation
  <2>2. TextOf(sent', queue', composer') = TextOf(sent, queue, composer)
    <3> HIDE DEF S
    <3>1. QED
      BY <1>1, <1>5, <2>1, TextDequeued
  <2>3. Texts'
    <3>1. sent \o Head(queue) \in Seq(S) /\ Tail(queue) \in Seq(Seq(S))
      <4> HIDE DEF S
      <4>1. QED
        BY <1>1, <1>5, HeadTailProperties, ConcatProperties
    <3>2. QED
      BY <1>1, <1>2, <2>1, <3>1 DEF Texts
  <2>4. QED
    BY <1>2, <1>5, <2>2, <2>3, TextSame DEF TextOf
<1>6. QED
  <2>1. CASE Failed
    BY <1>4, <2>1 DEF Failed
  <2>2. CASE Leave
    BY <1>3, <2>2 DEF Leave, Settle
  <2>3. CASE Cancelled
    BY <1>4, <2>3 DEF Cancelled
  <2>4. CASE Dequeue
    BY <1>3, <1>5, <2>4 DEF Dequeue, Settle
  <2>5. QED
    BY <1>3, <2>1, <2>2, <2>3, <2>4 DEF FinishOperation

\* Clearing the input line takes the last messages of the text away.
LEMMA InterruptTexts ==
  ASSUME TextInv, Interrupt
  PROVE  TextInv'
<1> DEFINE S == 1..typed
           before == sent \o FlattenSeq(queue)
<1>1. composer \in Seq(S) /\ queue \in Seq(Seq(S)) /\ sent \in Seq(S) /\ discarded \subseteq S
  BY DEF TextInv, Texts
<1>2. UNCHANGED <<typed, slips>> /\ typed \in Nat
  BY DEF Interrupt, TextInv, Texts
<1>3. CASE UNCHANGED texts
  BY <1>2, <1>3, SameTexts
<1>4. CASE /\ discarded' = discarded \cup ToSet(composer)
           /\ composer' = <<>>
           /\ UNCHANGED <<queue, sent>>
  <2>1. before \in Seq(S)
    <3> HIDE DEF S
    <3>1. QED
      BY <1>1, TextType
  <2>2. Text = before \o composer
    BY DEF Text
  <2>3. Text' = before
    <3>1. before \o <<>> = before
      <4> HIDE DEF S, before
      <4>1. QED
        BY <2>1, ConcatEmptySeq
    <3>2. QED
      BY <1>4, <3>1 DEF Text
  <2>4. ToSet(Text) = ToSet(before) \cup ToSet(composer)
    <3> HIDE DEF S, before
    <3>1. QED
      BY <1>1, <2>1, <2>2, SetOfSum
  <2>5. IsInjective(Text) => IsInjective(before) /\ ToSet(before) \cap ToSet(composer) = {}
    <3> HIDE DEF S, before
    <3>1. QED
      BY <1>1, <2>1, <2>2, InjectiveSum
  <2>6. ToSet(composer) \subseteq S
    <3> HIDE DEF S
    <3>1. QED
      BY <1>1, LenProperties, ElementOfSeq DEF ToSet
  <2>7. EachOnce'
    <3>1. IsInjective(Text) /\ ToSet(Text) = S \ discarded
      BY DEF TextInv, EachOnce
    <3> HIDE DEF S, before
    <3>2. ToSet(before) = S \ (discarded \cup ToSet(composer))
      BY <2>4, <2>5, <3>1
    <3>3. QED
      BY <1>2, <1>4, <2>3, <2>5, <3>1, <3>2 DEF EachOnce, S
  <2>8. Texts'
    <3>1. <<>> \in Seq(S)
      BY EmptySeq
    <3>2. QED
      BY <1>1, <1>2, <1>4, <2>6, <3>1 DEF Texts
  <2>9. InOrder => InOrder'
    <3>1. /\ Len(before) <= Len(before \o composer)
          /\ \A i \in 1..Len(before) :
                 i \in 1..Len(before \o composer) /\ (before \o composer)[i] = before[i]
      <4> HIDE DEF S, before
      <4>1. QED
        BY <1>1, <2>1, ConcatProperties
    <3> HIDE DEF S, before
    <3>2. QED
      BY <2>2, <2>3, <3>1 DEF InOrder
  <2>10. QED
    BY <1>2, <2>7, <2>8, <2>9 DEF TextInv
<1>5. QED
  BY <1>3, <1>4 DEF Interrupt

----------------------------------------------------------------------------
(* The operation and its callback.                                          *)

LEMMA OperationsKept ==
  ASSUME NEW n \in Nat, NEW o \in Operations(n)
  PROVE  /\ o \in Operations(n + 1)
         /\ \A b \in BOOLEAN :
                /\ [o EXCEPT !.required = b] \in Operations(n)
                /\ [o EXCEPT !.required = b].required = b
                /\ [o EXCEPT !.required = b].task = o.task
                /\ [o EXCEPT !.exit = o.exit \/ b] \in Operations(n)
                /\ [o EXCEPT !.exit = o.exit \/ b].required = o.required
                /\ [o EXCEPT !.exit = o.exit \/ b].task = o.task
BY DEF Operations

LEMMA OperationsNew ==
  ASSUME NEW n \in Nat
  PROVE  /\ NoOperation \in Operations(n)
         /\ NoOperation.task = 0
         /\ [NoOperation EXCEPT !.task = n] \in Operations(n)
         /\ [NoOperation EXCEPT !.task = n].task = n
<1>1. NoOperation \in Operations(n) /\ NoOperation.task = 0
  BY DEF Operations, NoOperation
<1>2. /\ [NoOperation EXCEPT !.task = n] \in Operations(n)
      /\ [NoOperation EXCEPT !.task = n].task = n
  BY <1>1 DEF Operations
<1>3. QED
  BY <1>1, <1>2

LEMMA ControlInit == Init => Control
<1>1. NoOperation \in Operations(0)
  BY OperationsNew
<1>2. Init => Counts /\ Kinds
  BY <1>1 DEF Init, Counts, Kinds
<1>3. Init => Flags
  BY DEF Init, Flags
<1>4. Init => Running /\ Followed
  BY DEF Init, Running, Followed
<1>5. QED
  BY <1>2, <1>3, <1>4 DEF Control

\* A new operation.
LEMMA Started ==
  ASSUME ops \in Nat, NEW what, NEW text, StartOperation(what, text)
  PROVE  /\ operation' \in Operations(ops')
         /\ operation'.task = ops'
         /\ ops' = ops + 1
         /\ kind' = what
         /\ task' = "working"
         /\ cancelRequested' = FALSE
BY OperationsNew DEF StartOperation

\* What a cancellation leaves of the operation.
Told ==
    /\ operation' \in Operations(ops)
    /\ operation'.task = operation.task
    /\ operation'.required = operation.required
    /\ cancelRequested' \in BOOLEAN
    /\ task' = task \/ (task' = "unwinding" /\ RunInFlight)

LEMMA CancelTells ==
  ASSUME Control, RunInFlight, NEW exits \in BOOLEAN, CancelOperation(exits)
  PROVE  Told
<1>1. ops \in Nat /\ operation \in Operations(ops) /\ cancelRequested \in BOOLEAN
  BY DEF Control, Counts, Flags
<1>2. CASE operation.required /\ operation' = [operation EXCEPT !.exit = @ \/ exits]
                              /\ UNCHANGED <<task, cancelRequested>>
  BY <1>1, <1>2 DEF Told, Operations
<1>3. CASE cancelRequested' = TRUE /\ task' = "unwinding" /\ UNCHANGED operation
  BY <1>1, <1>3 DEF Told
<1>4. QED
  BY <1>2, <1>3 DEF CancelOperation

LEMMA ExitTells ==
  ASSUME Control, RequestExit
  PROVE  Told /\ exited' \in BOOLEAN /\ (exited' = exited \/ ~RunInFlight)
<1>1. ops \in Nat /\ operation \in Operations(ops) /\ cancelRequested \in BOOLEAN
          /\ exited \in BOOLEAN
  BY DEF Control, Counts, Flags
<1>2. QED
  BY <1>1, CancelTells DEF RequestExit, Told

LEMMA KeyControl ==
  ASSUME Control, Type \/ Submit \/ StartOther \/ Escape \/ Interrupt \/ Disarm \/ Quit
  PROVE  Control'
<1> USE DEF Control, Counts, Kinds, Flags, Running, Followed, LoopPolls, texts
<1>1. CASE Type
  <2>1. operation' \in Operations(ops')
    BY <1>1, OperationsKept DEF Type
  <2>2. Counts'
    BY <1>1, <2>1 DEF Type
  <2>3. Kinds'
    BY <1>1 DEF Type
  <2>4. Flags'
    BY <1>1 DEF Type
  <2>5. Running'
    BY <1>1, <2>1, OperationsKept DEF Type
  <2>6. Followed'
    BY <1>1, <2>1, OperationsKept DEF Type
  <2>7. QED
    BY <2>2, <2>3, <2>4, <2>5, <2>6 DEF Control
<1>2. CASE Submit
  <2>1. operation' \in Operations(ops')
    BY <1>2, Started DEF Submit, SubmitWhileRunning, NoteReplaced
  <2>2. Counts'
    BY <1>2, <2>1 DEF Submit, SubmitWhileRunning, StartOperation, NoteReplaced
  <2>3. Kinds'
    BY <1>2 DEF Submit, SubmitWhileRunning, StartOperation, NoteReplaced
  <2>4. Flags'
    BY <1>2 DEF Submit, SubmitWhileRunning, StartOperation, NoteReplaced
  <2>5. Running'
    BY <1>2, <2>1, Started DEF Submit, SubmitWhileRunning, NoteReplaced
  <2>6. Followed'
    <3>1. CASE RunInFlight
      BY <1>2, <3>1 DEF Submit, SubmitWhileRunning
    <3>2. CASE ~RunInFlight
      <4>1. StartOperation("turn", composer) /\ NoteReplaced /\ callback' = callback
        BY <1>2, <3>2 DEF Submit, SubmitWhileRunning
      <4>2. ops' = ops + 1 /\ task' = "working"
        BY <4>1 DEF StartOperation
      <4>3. slips' = {} => callback = 0
        BY <4>1 DEF NoteReplaced
      <4>4. exited' = exited /\ ~exited
        BY <1>2 DEF Submit
      <4>5. QED
        BY <4>1, <4>2, <4>3, <4>4
    <3>3. QED
      BY <3>1, <3>2
  <2>7. QED
    BY <2>2, <2>3, <2>4, <2>5, <2>6 DEF Control
<1>3. CASE StartOther
  <2>1. operation' \in Operations(ops')
    BY <1>3, OperationsNew DEF StartOther, StartOperation, NoteReplaced
  <2>2. Counts'
    BY <1>3, <2>1 DEF StartOther, StartOperation, NoteReplaced
  <2>3. Kinds'
    BY <1>3 DEF StartOther, StartOperation, NoteReplaced
  <2>4. Flags'
    BY <1>3 DEF StartOther, StartOperation, NoteReplaced
  <2>5. Running'
    BY <1>3, <2>1, OperationsNew DEF StartOther, StartOperation, NoteReplaced
  <2>6. Followed'
    BY <1>3, <2>1, OperationsNew, SMTT(30) DEF StartOther, StartOperation, NoteReplaced
  <2>7. QED
    BY <2>2, <2>3, <2>4, <2>5, <2>6 DEF Control
<1>4. CASE Escape
  <2>1. Told
    BY <1>4, CancelTells DEF Escape
  <2>2. operation' \in Operations(ops')
    BY <1>4, <2>1 DEF Escape, Told
  <2>3. Counts'
    BY <1>4, <2>1, <2>2 DEF Escape, Told
  <2>4. Kinds'
    BY <1>4, <2>1 DEF Escape, Told
  <2>5. Flags'
    BY <1>4, <2>1 DEF Escape, Told
  <2>6. Running'
    BY <1>4, <2>1, <2>2 DEF Escape, Told
  <2>7. Followed'
    BY <1>4, <2>1, <2>2 DEF Escape, Told
  <2>8. QED
    BY <2>3, <2>4, <2>5, <2>6, <2>7 DEF Control
<1>5. CASE Interrupt
  <2>1. Told /\ exited' \in BOOLEAN /\ (exited' = exited \/ ~RunInFlight)
    BY <1>5, ExitTells, CancelTells DEF Interrupt, Told
  <2>2. operation' \in Operations(ops')
    BY <1>5, <2>1 DEF Interrupt, Told
  <2>3. Counts'
    BY <1>5, <2>1, <2>2 DEF Interrupt, Told
  <2>4. Kinds'
    BY <1>5, <2>1 DEF Interrupt, Told
  <2>5. Flags'
    BY <1>5, <2>1 DEF Interrupt, Told
  <2>6. Running'
    BY <1>5, <2>1, <2>2 DEF Interrupt, Told
  <2>7. Followed'
    BY <1>5, <2>1, <2>2 DEF Interrupt, Told
  <2>8. QED
    BY <2>3, <2>4, <2>5, <2>6, <2>7 DEF Control
<1>6. CASE Disarm
  <2>1. operation' \in Operations(ops')
    BY <1>6, OperationsKept DEF Disarm
  <2>2. Counts'
    BY <1>6, <2>1 DEF Disarm
  <2>3. Kinds'
    BY <1>6 DEF Disarm
  <2>4. Flags'
    BY <1>6 DEF Disarm
  <2>5. Running'
    BY <1>6, <2>1, OperationsKept DEF Disarm
  <2>6. Followed'
    BY <1>6, <2>1, OperationsKept DEF Disarm
  <2>7. QED
    BY <2>2, <2>3, <2>4, <2>5, <2>6 DEF Control
<1>7. CASE Quit
  <2>1. Told /\ exited' \in BOOLEAN /\ (exited' = exited \/ ~RunInFlight)
    BY <1>7, ExitTells DEF Quit
  <2>2. operation' \in Operations(ops')
    BY <1>7, <2>1 DEF Quit, Told
  <2>3. Counts'
    BY <1>7, <2>1, <2>2 DEF Quit, Told
  <2>4. Kinds'
    BY <1>7, <2>1 DEF Quit, Told
  <2>5. Flags'
    BY <1>7, <2>1 DEF Quit, Told
  <2>6. Running'
    BY <1>7, <2>1, <2>2 DEF Quit, Told
  <2>7. Followed'
    BY <1>7, <2>1, <2>2 DEF Quit, Told
  <2>8. QED
    BY <2>3, <2>4, <2>5, <2>6, <2>7 DEF Control
<1>8. QED
  BY <1>1, <1>2, <1>3, <1>4, <1>5, <1>6, <1>7

LEMMA TaskControl ==
  ASSUME Control, TaskStep
  PROVE  Control'
<1> USE DEF Control, Counts, Kinds, Flags, Running, Followed, TaskRuns, Protect, Release, Ends, texts
<1>1. CASE Checkpoint
  <2>1. operation' \in Operations(ops')
    BY <1>1, OperationsKept DEF Checkpoint
  <2>2. Counts'
    BY <1>1, <2>1 DEF Checkpoint
  <2>3. Kinds'
    BY <1>1 DEF Checkpoint
  <2>4. Flags'
    BY <1>1 DEF Checkpoint
  <2>5. Running'
    BY <1>1, <2>1, OperationsKept DEF Checkpoint
  <2>6. Followed'
    BY <1>1, <2>1, OperationsKept DEF Checkpoint
  <2>7. QED
    BY <2>2, <2>3, <2>4, <2>5, <2>6 DEF Control
<1>2. CASE CheckpointLands
  <2>1. operation' \in Operations(ops')
    BY <1>2, OperationsKept DEF CheckpointLands
  <2>2. Counts'
    BY <1>2, <2>1 DEF CheckpointLands
  <2>3. Kinds'
    BY <1>2 DEF CheckpointLands
  <2>4. Flags'
    BY <1>2 DEF CheckpointLands
  <2>5. Running'
    BY <1>2, <2>1, OperationsKept DEF CheckpointLands
  <2>6. Followed'
    BY <1>2, <2>1, OperationsKept DEF CheckpointLands
  <2>7. QED
    BY <2>2, <2>3, <2>4, <2>5, <2>6 DEF Control
<1>3. CASE TerminalEvent
  <2>1. operation' \in Operations(ops')
    BY <1>3, OperationsKept DEF TerminalEvent
  <2>2. Counts'
    BY <1>3, <2>1 DEF TerminalEvent
  <2>3. Kinds'
    BY <1>3 DEF TerminalEvent
  <2>4. Flags'
    BY <1>3 DEF TerminalEvent
  <2>5. Running'
    BY <1>3, <2>1, OperationsKept DEF TerminalEvent
  <2>6. Followed'
    BY <1>3, <2>1, OperationsKept DEF TerminalEvent
  <2>7. QED
    BY <2>2, <2>3, <2>4, <2>5, <2>6 DEF Control
<1>4. CASE SaveLands
  <2>1. operation' \in Operations(ops')
    BY <1>4, OperationsKept DEF SaveLands
  <2>2. Counts'
    BY <1>4, <2>1 DEF SaveLands
  <2>3. Kinds'
    BY <1>4 DEF SaveLands
  <2>4. Flags'
    BY <1>4 DEF SaveLands
  <2>5. Running'
    BY <1>4, <2>1, OperationsKept DEF SaveLands
  <2>6. Followed'
    BY <1>4, <2>1, OperationsKept DEF SaveLands
  <2>7. QED
    BY <2>2, <2>3, <2>4, <2>5, <2>6 DEF Control
<1>5. CASE SaveFails
  <2>1. operation' \in Operations(ops')
    BY <1>5, OperationsKept DEF SaveFails
  <2>2. Counts'
    BY <1>5, <2>1 DEF SaveFails
  <2>3. Kinds'
    BY <1>5 DEF SaveFails
  <2>4. Flags'
    BY <1>5 DEF SaveFails
  <2>5. Running'
    BY <1>5, <2>1, OperationsKept DEF SaveFails
  <2>6. Followed'
    BY <1>5, <2>1, OperationsKept DEF SaveFails
  <2>7. QED
    BY <2>2, <2>3, <2>4, <2>5, <2>6 DEF Control
<1>6. CASE WorkEnds
  <2>1. operation' \in Operations(ops')
    BY <1>6, OperationsKept DEF WorkEnds
  <2>2. Counts'
    BY <1>6, <2>1 DEF WorkEnds
  <2>3. Kinds'
    BY <1>6 DEF WorkEnds
  <2>4. Flags'
    BY <1>6 DEF WorkEnds
  <2>5. Running'
    BY <1>6, <2>1, OperationsKept DEF WorkEnds
  <2>6. Followed'
    BY <1>6, <2>1, OperationsKept DEF WorkEnds
  <2>7. QED
    BY <2>2, <2>3, <2>4, <2>5, <2>6 DEF Control
<1>7. CASE Unwind
  <2>1. operation' \in Operations(ops')
    <3>1. CASE Protect
      BY <1>7, <3>1, OperationsKept DEF Unwind
    <3>2. CASE operation' = operation
      BY <1>7, <3>2 DEF Unwind
    <3>3. QED
      BY <1>7, <3>1, <3>2 DEF Unwind
  <2>2. Counts'
    BY <1>7, <2>1 DEF Unwind
  <2>3. Kinds'
    BY <1>7 DEF Unwind
  <2>4. Flags'
    BY <1>7 DEF Unwind
  <2>5. Running'
    <3>1. CASE Protect /\ task' = "saving"
      BY <1>7, <3>1, OperationsKept DEF Unwind
    <3>2. CASE operation' = operation /\ task' = "done"
      BY <1>7, <3>2 DEF Unwind
    <3>3. QED
      BY <1>7, <3>1, <3>2 DEF Unwind
  <2>6. Followed'
    BY <1>7, <2>1, OperationsKept DEF Unwind
  <2>7. QED
    BY <2>2, <2>3, <2>4, <2>5, <2>6 DEF Control
<1>8. QED
  BY <1>1, <1>2, <1>3, <1>4, <1>5, <1>6, <1>7 DEF TaskStep

LEMMA FinishControl ==
  ASSUME Control, FinishOperation
  PROVE  Control'
<1> USE DEF Control, Counts, Kinds, Flags, Running, Followed,
           FinishOperation, Settle, Restore, WasCancelled
<1>1. CASE operation.task # callback /\ UNCHANGED <<composer, queue, sent, ops, kind, task, operation,
            cancelRequested, exited, slips>>
  <2>1. operation' \in Operations(ops')
    BY <1>1, OperationsKept DEF FinishOperation
  <2>2. Counts'
    BY <1>1, <2>1 DEF FinishOperation
  <2>3. Kinds'
    BY <1>1 DEF FinishOperation
  <2>4. Flags'
    BY <1>1 DEF FinishOperation
  <2>5. Running'
    BY <1>1, <2>1, OperationsKept DEF FinishOperation
  <2>6. Followed'
    BY <1>1, <2>1, OperationsKept DEF FinishOperation
  <2>7. QED
    BY <2>2, <2>3, <2>4, <2>5, <2>6 DEF Control
<1>2. CASE operation.task = callback /\ Failed
  <2>1. operation' \in Operations(ops')
    BY <1>2, OperationsNew DEF Failed
  <2>2. Counts'
    BY <1>2, <2>1 DEF Failed
  <2>3. Kinds'
    BY <1>2 DEF Failed
  <2>4. Flags'
    BY <1>2 DEF Failed
  <2>5. Running'
    BY <1>2, <2>1, OperationsNew DEF Failed
  <2>6. Followed'
    BY <1>2, <2>1, OperationsNew DEF Failed
  <2>7. QED
    BY <2>2, <2>3, <2>4, <2>5, <2>6 DEF Control
<1>3. CASE operation.task = callback /\ Leave
  <2>1. operation' \in Operations(ops')
    BY <1>3, OperationsNew DEF Leave
  <2>2. Counts'
    BY <1>3, <2>1 DEF Leave
  <2>3. Kinds'
    BY <1>3 DEF Leave
  <2>4. Flags'
    BY <1>3 DEF Leave
  <2>5. Running'
    BY <1>3, <2>1, OperationsNew DEF Leave
  <2>6. Followed'
    BY <1>3, <2>1, OperationsNew DEF Leave
  <2>7. QED
    BY <2>2, <2>3, <2>4, <2>5, <2>6 DEF Control
<1>4. CASE operation.task = callback /\ Cancelled
  <2>1. operation' \in Operations(ops')
    BY <1>4, OperationsNew DEF Cancelled
  <2>2. Counts'
    BY <1>4, <2>1 DEF Cancelled
  <2>3. Kinds'
    BY <1>4 DEF Cancelled
  <2>4. Flags'
    BY <1>4 DEF Cancelled
  <2>5. Running'
    BY <1>4, <2>1, OperationsNew DEF Cancelled
  <2>6. Followed'
    BY <1>4, <2>1, OperationsNew DEF Cancelled
  <2>7. QED
    BY <2>2, <2>3, <2>4, <2>5, <2>6 DEF Control
<1>5. CASE operation.task = callback /\ Dequeue
  <2>1. operation' \in Operations(ops')
    BY <1>5, OperationsNew, Started DEF Dequeue
  <2>2. Counts'
    BY <1>5, <2>1 DEF Dequeue, StartOperation
  <2>3. Kinds'
    BY <1>5 DEF Dequeue, StartOperation
  <2>4. Flags'
    BY <1>5 DEF Dequeue, StartOperation
  <2>5. Running'
    BY <1>5, <2>1, OperationsNew, Started DEF Dequeue
  <2>6. Followed'
    <3>1. CASE queue = <<>> /\ Settle /\ UNCHANGED queue
      BY <1>5, <3>1 DEF Dequeue
    <3>2. CASE StartOperation("turn", Head(queue))
      <4>1. ops' = ops + 1 /\ task' = "working"
        BY <3>2 DEF StartOperation
      <4>2. callback' = 0 /\ exited' = exited /\ ~exited
        BY <1>5 DEF Dequeue
      <4>3. QED
        BY <4>1, <4>2
    <3>3. QED
      BY <1>5, <3>1, <3>2 DEF Dequeue
  <2>7. QED
    BY <2>2, <2>3, <2>4, <2>5, <2>6 DEF Control
<1>6. QED
  BY <1>1, <1>2, <1>3, <1>4, <1>5

----------------------------------------------------------------------------
(* The theorems.                                                            *)

LEMMA KeptTexts ==
  ASSUME TextInv, StartOther \/ Escape \/ Disarm \/ Quit \/ TaskStep
  PROVE  TextInv'
<1>1. CASE StartOther
  <2>1. sent' = sent
    <3>1. sent' = sent \o <<>>
      BY <1>1 DEF StartOther, StartOperation
    <3>2. sent \in Seq(1..typed)
      BY DEF TextInv, Texts
    <3>3. QED
      BY <3>1, <3>2, ConcatEmptySeq
  <2>2. slips' = {} => slips = {}
    BY <1>1 DEF StartOther, NoteReplaced
  <2>3. UNCHANGED <<typed, texts>>
    BY <1>1, <2>1 DEF StartOther, texts
  <2>4. QED
    BY <2>2, <2>3, SameTexts
<1>2. CASE Escape \/ Disarm \/ Quit
  <2>1. UNCHANGED <<typed, texts, slips>>
    BY <1>2 DEF Escape, Disarm, Quit
  <2>2. QED
    BY <2>1, SameTexts
<1>3. CASE TaskStep
  <2>1. UNCHANGED <<typed, texts, slips>>
    BY <1>3 DEF TaskStep, Checkpoint, CheckpointLands, TerminalEvent, SaveLands, SaveFails,
                WorkEnds, Unwind
  <2>2. QED
    BY <2>1, SameTexts
<1>4. QED
  BY <1>1, <1>2, <1>3

LEMMA InitInv == Init => FullScreenInv
<1>1. SUFFICES ASSUME Init PROVE TextInv
  BY ControlInit, Parts
<1>2. Text = <<>>
  <2>1. <<>> \o <<>> \o <<>> = <<>>
    BY EmptySeq, ConcatEmptySeq
  <2>2. QED
    BY <1>1, <2>1, FlattenEmpty DEF Init, Text
<1>3. Texts
  BY <1>1, EmptySeq DEF Init, Texts
<1>4. EachOnce
  BY <1>1, <1>2 DEF Init, EachOnce, IsInjective, ToSet
<1>5. InOrder
  BY <1>2 DEF InOrder
<1>6. QED
  BY <1>3, <1>4, <1>5 DEF TextInv

LEMMA StepInv == FullScreenInv /\ [Next]_vars => FullScreenInv'
<1> SUFFICES ASSUME FullScreenInv, [Next]_vars PROVE FullScreenInv'
  OBVIOUS
<1>1. Control /\ TextInv
  BY Parts
<1>2. Control'
  <2>1. CASE TaskStep
    BY <1>1, <2>1, TaskControl
  <2>2. CASE FinishOperation
    BY <1>1, <2>2, FinishControl
  <2>3. CASE UNCHANGED vars
    BY <1>1, <2>3 DEF vars, texts, Control, Counts, Kinds, Flags, Running, Followed
  <2>4. QED
    BY <1>1, <2>1, <2>2, <2>3, KeyControl DEF Next
<1>3. TextInv'
  <2>1. CASE UNCHANGED vars
    <3>1. UNCHANGED <<typed, texts, slips>>
      BY <2>1 DEF vars, texts
    <3>2. QED
      BY <1>1, <3>1, SameTexts
  <2>2. QED
    BY <1>1, <2>1, TypeTexts, SubmitTexts, InterruptTexts, FinishTexts, KeptTexts
       DEF Next, Control
<1>4. (FullScreenInv <=> Control /\ TextInv)'
  BY Parts, PTL
<1>5. QED
  BY <1>2, <1>3, <1>4

\* In every state, for any number of messages and operations: the operation, its task and its
\* callback fit together (_start_operation, _finish_operation), and every message typed is
\* sent, queued, on the input line or cleared there, exactly once.
THEOREM FullScreenInvariant == Spec => []FullScreenInv
BY InitInv, StepInv, PTL DEF Spec

\* "sent in order as each turn settles" (app.py:360): unless an operation was started between
\* the end of a task and its callback, or an operation cancelled while an exit waited for it
\* left its queue behind (app.py:988-996), no message ever overtakes an earlier one.
THEOREM MessagesInOrder == Spec => []OrderKept
<1>1. FullScreenInv => OrderKept
  BY DEF FullScreenInv
<1>2. QED
  BY <1>1, FullScreenInvariant, PTL

(* A save that must land.                                                   *)

SaveLandsStep ==
    /\ task \in Saving => task' \in {task, "working", "done"} /\ ~exited'
    /\ operation.exit /\ operation'.task = operation.task => operation'.exit

LEMMA SaveStep == FullScreenInv /\ [Next]_vars => [SaveLandsStep]_vars
<1> SUFFICES ASSUME FullScreenInv, Next PROVE SaveLandsStep
  OBVIOUS
<1>1. Control /\ ops \in Nat /\ operation \in Operations(ops)
  BY Parts DEF Control, Counts
<1>2. task \in Saving => operation.required /\ ~exited /\ operation.task = ops /\ callback # ops
  BY <1>1 DEF Control, Running, Followed
<1>3. task \in Saving => task' \in {task, "working", "done"} /\ ~exited'
  <2>1. SUFFICES ASSUME task \in Saving
                 PROVE  task' \in {task, "working", "done"} /\ exited' = exited
    BY <1>2
  <2>2. RunInFlight
    BY <2>1
  <2>3. CASE Type \/ Submit \/ StartOther \/ Disarm
    BY <2>2, <2>3 DEF Type, Submit, SubmitWhileRunning, StartOther, Disarm
  <2>4. CASE Escape \/ Interrupt \/ Quit
    BY <1>2, <2>1, <2>2, <2>4 DEF Escape, Interrupt, Quit, RequestExit, CancelOperation
  <2>5. CASE TaskStep
    BY <2>1, <2>5 DEF TaskStep, Checkpoint, CheckpointLands, TerminalEvent, SaveLands, SaveFails,
                      WorkEnds, Unwind, Ends
  <2>6. CASE FinishOperation
    BY <1>2, <2>1, <2>6 DEF FinishOperation
  <2>7. QED
    BY <2>3, <2>4, <2>5, <2>6 DEF Next
<1>4. operation.exit /\ operation'.task = operation.task => operation'.exit
  <2>1. SUFFICES ASSUME operation'.task = operation.task
                 PROVE  operation.exit => operation'.exit
    OBVIOUS
  <2>2. ASSUME NEW what, NEW text, StartOperation(what, text) PROVE FALSE
    <3>1. operation'.task = ops + 1 /\ operation.task \in 0..ops
      BY <1>1, <2>2, Started DEF Operations
    <3>2. QED
      BY <1>1, <2>1, <3>1
  <2>3. CASE operation' = operation
    BY <2>3
  <2>4. ASSUME NEW exits \in BOOLEAN, CancelOperation(exits)
        PROVE  operation.exit => operation'.exit
    BY <1>1, <2>4 DEF CancelOperation, Operations
  <2>5. CASE Type \/ Submit \/ StartOther \/ Disarm
    BY <2>2, <2>3, <2>5 DEF Type, Submit, SubmitWhileRunning, StartOther, Disarm
  <2>6. CASE Escape \/ Interrupt \/ Quit
    BY <2>3, <2>4, <2>6 DEF Escape, Interrupt, Quit, RequestExit
  <2>7. CASE TaskStep
    <3>1. operation' = operation \/ Protect \/ Release
      BY <2>7 DEF TaskStep, Checkpoint, CheckpointLands, TerminalEvent, SaveLands, SaveFails,
                  WorkEnds, Unwind
    <3>2. QED
      BY <1>1, <3>1 DEF Protect, Release, Operations
  <2>8. CASE FinishOperation
    <3>1. operation' = operation \/ StartOperation("turn", Head(queue))
                                 \/ (Settle /\ operation.task = callback /\ callback # 0)
      BY <2>8 DEF FinishOperation, Failed, Leave, Cancelled, Dequeue
    <3>2. ~(Settle /\ operation.task = callback /\ callback # 0)
      <4>1. NoOperation.task = 0
        BY DEF NoOperation
      <4>2. QED
        BY <2>1, <4>1 DEF Settle
    <3>3. QED
      BY <2>2, <2>3, <3>1, <3>2
  <2>9. QED
    BY <2>5, <2>6, <2>7, <2>8 DEF Next
<1>5. QED
  BY <1>3, <1>4 DEF SaveLandsStep

\* Whatever keys are pressed, a required save is neither cancelled nor left behind by the
\* application, and a noted wish to exit is not forgotten before the operation settles.
THEOREM SavesLand == Spec => RequiredSavesLand
BY FullScreenInvariant, SaveStep, PTL DEF Spec, RequiredSavesLand, SaveLandsStep

(* Every message has one place, and takes only the steps a queue may take.  *)

Home(m) ==
    IF m > typed THEN "unsent"
    ELSE IF m \in discarded THEN "dropped"
    ELSE IF m \in ToSet(sent) THEN "delivered" ELSE "queued"

LEMMA HomeIsPlace ==
  ASSUME FullScreenInv, NEW m \in 1..MaxMessages
  PROVE  Place(m) = Home(m)
<1> DEFINE Copies == {i \in DOMAIN Text : Text[i] = m}
<1>1. /\ IsInjective(Text) /\ ToSet(Text) = 1..typed \ discarded
      /\ typed \in Nat /\ discarded \subseteq 1..typed
  BY Parts DEF TextInv, Texts, EachOnce
<1>2. CASE m \in 1..typed \ discarded
  <2>1. PICK i \in DOMAIN Text : Text[i] = m
    BY <1>1, <1>2 DEF ToSet
  <2>2. Copies = {i}
    BY <1>1, <2>1 DEF IsInjective
  <2>3. Cardinality(Copies) = 1
    BY <2>2, FS_Singleton
  <2>4. ~(m > typed) /\ m \notin discarded
    BY <1>1, <1>2
  <2> HIDE DEF Copies
  <2>5. Place(m) = IF m \in ToSet(sent) THEN "delivered" ELSE "queued"
    BY <1>2, <2>3, <2>4 DEF Place, Copies
  <2>6. QED
    BY <2>4, <2>5 DEF Home
<1>3. CASE m \notin 1..typed \ discarded
  <2>1. Copies = {}
    BY <1>1, <1>3 DEF ToSet
  <2>2. Cardinality(Copies) = 0
    BY <2>1, FS_EmptySet
  <2> HIDE DEF Copies
  <2>3. CASE m > typed
    <3>1. ~(m \in discarded)
      BY <1>1, <2>3
    <3>2. Place(m) = "unsent"
      BY <1>3, <2>3, <3>1 DEF Place
    <3>3. QED
      BY <2>3, <3>2 DEF Home
  <2>4. CASE ~(m > typed)
    <3>1. m \in discarded
      BY <1>1, <1>3, <2>4
    <3>2. Place(m) = "dropped"
      BY <1>3, <2>2, <2>4, <3>1 DEF Place, Copies
    <3>3. QED
      BY <2>4, <3>1, <3>2 DEF Home
  <2>5. QED
    BY <2>3, <2>4
<1>4. QED
  BY <1>2, <1>3

\* What was sent or cleared stays so.
LEMMA PlacesHold ==
  ASSUME FullScreenInv, [Next]_vars
  PROVE  /\ typed' \in Nat /\ typed <= typed'
         /\ discarded \subseteq discarded'
         /\ ToSet(sent) \subseteq ToSet(sent')
<1>1. TextInv /\ typed \in Nat /\ sent \in Seq(1..typed) /\ queue \in Seq(Seq(1..typed))
          /\ composer \in Seq(1..typed)
  BY Parts DEF TextInv, Texts
<1>2. typed' \in {typed, typed + 1}
  BY DEF Next, vars, texts, Type, Submit, StartOther, Escape, Interrupt, Disarm, Quit, TaskStep,
         Checkpoint, CheckpointLands, TerminalEvent, SaveLands, SaveFails, WorkEnds, Unwind,
         FinishOperation
<1>3. discarded \subseteq discarded'
  <2>1. discarded' = discarded \/ discarded' = discarded \cup ToSet(composer)
    BY DEF Next, vars, texts, Type, Submit, StartOther, Escape, Interrupt, Disarm, Quit, TaskStep,
           Checkpoint, CheckpointLands, TerminalEvent, SaveLands, SaveFails, WorkEnds, Unwind,
           FinishOperation
  <2>2. QED
    BY <2>1
<1>4. ToSet(sent) \subseteq ToSet(sent')
  <2>1. \/ sent' = sent
        \/ sent' = sent \o composer
        \/ sent' = sent \o <<>>
        \/ queue # <<>> /\ sent' = sent \o Head(queue)
    BY DEF Next, vars, texts, Type, Submit, SubmitWhileRunning, StartOther, StartOperation, Escape,
           Interrupt, Disarm, Quit, TaskStep, Checkpoint, CheckpointLands, TerminalEvent,
           SaveLands, SaveFails, WorkEnds, Unwind, FinishOperation, Failed, Leave, Cancelled,
           Dequeue, Settle
  <2>2. ASSUME NEW t \in Seq(1..typed), sent' = sent \o t PROVE ToSet(sent) \subseteq ToSet(sent')
    BY <1>1, <2>2, SetOfSum
  <2>3. <<>> \in Seq(1..typed) /\ (queue # <<>> => Head(queue) \in Seq(1..typed))
    BY <1>1, EmptySeq, HeadTailProperties
  <2>4. QED
    BY <1>1, <2>1, <2>2, <2>3
<1>5. QED
  BY <1>1, <1>2, <1>3, <1>4

Homes == \A m \in 1..MaxMessages : Place(m) = Home(m)

LEMMA PlacesAreHomes == FullScreenInv => Homes
BY HomeIsPlace DEF Homes

SentStands == ToSet(sent) \subseteq 1..typed \ discarded

LEMMA SentIsText == FullScreenInv => SentStands
<1> SUFFICES ASSUME FullScreenInv PROVE SentStands
  OBVIOUS
<1> DEFINE S == 1..typed
<1>1. sent \in Seq(S) /\ queue \in Seq(Seq(S)) /\ composer \in Seq(S)
      /\ ToSet(Text) = S \ discarded
  BY Parts DEF TextInv, Texts, EachOnce
<1>2. ToSet(Text) = ToSet(sent) \cup ToSet(FlattenSeq(queue)) \cup ToSet(composer)
  <2> HIDE DEF S
  <2>1. FlattenSeq(queue) \in Seq(S)
    BY <1>1, FlattenType
  <2>2. QED
    BY <1>1, <2>1, SumOfThree DEF Text
<1>3. QED
  BY <1>1, <1>2 DEF SentStands

LEMMA BoxInit == Init => Box!DeliveryInit
<1> SUFFICES ASSUME Init PROVE Box!DeliveryInit
  OBVIOUS
<1>1. Homes
  BY InitInv, PlacesAreHomes
<1>2. ASSUME NEW m \in 1..MaxMessages PROVE Home(m) = "unsent"
  BY DEF Init, Home
<1>3. QED
  BY <1>1, <1>2 DEF Homes, Box!DeliveryInit

LEMMA BoxMoves ==
  ASSUME FullScreenInv, FullScreenInv', [Next]_vars
  PROVE  Box!Move
<1>1. Homes /\ Homes'
  <2>1. Homes
    BY PlacesAreHomes
  <2>2. (FullScreenInv => Homes)'
    BY PlacesAreHomes, PTL
  <2>3. QED
    BY <2>1, <2>2
<1>2. /\ typed \in Nat /\ typed' \in Nat /\ typed <= typed'
      /\ discarded \subseteq 1..typed
      /\ discarded \subseteq discarded'
      /\ ToSet(sent) \subseteq ToSet(sent')
  BY PlacesHold, Parts DEF TextInv, Texts
<1>3. SentStands /\ SentStands'
  <2>1. SentStands
    BY SentIsText
  <2>2. (FullScreenInv => SentStands)'
    BY SentIsText, PTL
  <2>3. QED
    BY <2>1, <2>2
<1>4. ASSUME NEW m \in 1..MaxMessages
      PROVE  /\ Home(m)' \in Box!Places
             /\ Home(m)' = Home(m) \/ <<Home(m), Home(m)'>> \in Box!Moves
  BY <1>2, <1>3 DEF SentStands, Home, Box!Places, Box!Moves
<1>5. [m \in 1..MaxMessages |-> Place(m)]' \in [1..MaxMessages -> Box!Places]
  BY <1>1, <1>4 DEF Homes
<1>6. QED
  BY <1>1, <1>4, <1>5 DEF Homes, Box!Move

\* The program's queue keeps what a queue promises: each message is sent once, waits, or was
\* cleared by the user, and neither what was sent nor what was cleared comes back.
THEOREM NothingTypedIsLost == Spec => NothingLost
<1>1. FullScreenInv /\ FullScreenInv' /\ [Next]_vars
          => [Box!Move]_[m \in 1..MaxMessages |-> Place(m)]
  BY BoxMoves
<1>2. QED
  BY <1>1, BoxInit, FullScreenInvariant, PTL DEF Spec, NothingLost, Box!DeliverySpec
=============================================================================

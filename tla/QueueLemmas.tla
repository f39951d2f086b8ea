---------------------------- MODULE QueueLemmas ----------------------------
(***************************************************************************)
(* Facts about the operators the queues of the models are written with:    *)
(* the least element of a set of positions, the numbering of a set and the *)
(* erasure of one element of a deque.                                      *)
(***************************************************************************)
EXTENDS Integers, Sequences, FiniteSets, SequencesExt, SequenceTheorems,
        FiniteSetTheorems, Ordinals, TLAPS

(* Min of a nonempty set of naturals is its least element.                 *)
LEMMA MinIsLeast ==
    ASSUME NEW K \in SUBSET Nat, K # {}
    PROVE  Min(K) \in K /\ \A q \in K : Min(K) <= q
<1>1. PICK k \in K : \A q \in K : ~(<<q, k>> \in OpToRel(<, Nat))
  BY NatLessThanWellFounded, WFMin
<1>2. \A q \in K : ~(q < k)
  BY <1>1 DEF OpToRel
<1>3. \A q \in K : k <= q
  BY <1>2
<1> QED BY <1>3 DEF Min

(* Numbering the elements of a finite set of numbers in their order: every *)
(* number up to the size of the set is that of exactly one element, and    *)
(* larger elements have larger numbers.                                    *)
LEMMA NthProperties ==
    ASSUME NEW I \in SUBSET Int, IsFiniteSet(I)
    PROVE  /\ Cardinality(I) \in Nat
           /\ \A i \in 1 .. Cardinality(I) : Nth(I, i) \in I
           /\ \A i, j \in 1 .. Cardinality(I) : i < j => Nth(I, i) < Nth(I, j)
           /\ \A n \in I : \E i \in 1 .. Cardinality(I) : n = Nth(I, i)
           /\ \A i \in 1 .. Cardinality(I) : OrdinalIn(Nth(I, i), I) = i - 1
           /\ \A n \in I : OrdinalIn(n, I) \in 0 .. Cardinality(I) - 1
           /\ \A m, n \in I : m < n => OrdinalIn(m, I) < OrdinalIn(n, I)
<1> DEFINE f == [n \in I |-> OrdinalIn(n, I)]
           N == Cardinality(I)
<1>1. N \in Nat
  BY FS_CardinalityType
<1>2. ASSUME NEW n \in I
      PROVE  OrdinalIn(n, I) \in 0 .. N - 1
  <2>1. {m \in I : m < n} \in SUBSET (I \ {n})
    OBVIOUS
  <2>2. IsFiniteSet(I \ {n}) /\ Cardinality(I \ {n}) = N - 1
    BY FS_RemoveElement
  <2>3. IsFiniteSet({m \in I : m < n}) /\ Cardinality({m \in I : m < n}) <= N - 1
    BY <2>1, <2>2, FS_Subset
  <2>4. Cardinality({m \in I : m < n}) \in Nat
    BY <2>3, FS_CardinalityType
  <2> QED BY <1>1, <2>3, <2>4 DEF OrdinalIn
<1>3. ASSUME NEW m \in I, NEW n \in I, m < n
      PROVE  OrdinalIn(m, I) < OrdinalIn(n, I)
  <2> DEFINE A == {k \in I : k < m}
             B == {k \in I : k < n}
  <2>1. IsFiniteSet(A) /\ IsFiniteSet(B)
    <3>1. A \in SUBSET I /\ B \in SUBSET I
      OBVIOUS
    <3> QED BY <3>1, FS_Subset
  <2>2. A \cup {m} \in SUBSET B /\ m \notin A
    <3>1. \A k \in I : k < m => k < n
      BY <1>3
    <3>2. A \subseteq B
      BY <3>1
    <3>3. m \in B /\ m \notin A
      BY <1>3
    <3> QED BY <3>2, <3>3
  <2>3. Cardinality(A \cup {m}) = Cardinality(A) + 1
    BY <2>1, <2>2, FS_AddElement
  <2>4. Cardinality(A \cup {m}) <= Cardinality(B)
    BY <2>1, <2>2, FS_Subset
  <2>5. Cardinality(A) \in Nat /\ Cardinality(B) \in Nat
    BY <2>1, FS_CardinalityType
  <2>6. Cardinality(A) < Cardinality(B)
    <3> HIDE DEF A, B
    <3> QED BY <2>3, <2>4, <2>5
  <2> QED BY <2>6 DEF OrdinalIn
<1>4. f \in [I -> 0 .. N - 1]
  BY <1>2
<1>5. f \in Injection(I, 0 .. N - 1)
  <2>1. ASSUME NEW m \in I, NEW n \in I, m # n
        PROVE  f[m] # f[n]
    <3>1. m < n \/ n < m
      BY <2>1
    <3>2. OrdinalIn(m, I) < OrdinalIn(n, I) \/ OrdinalIn(n, I) < OrdinalIn(m, I)
      BY <1>3, <3>1
    <3>3. OrdinalIn(m, I) \in Int /\ OrdinalIn(n, I) \in Int
      BY <1>1, <1>2
    <3> QED BY <3>2, <3>3
  <2> QED BY <1>4, <2>1 DEF Injection, IsInjective
<1>6. f \in Surjection(I, 0 .. N - 1)
  <2>1. IsFiniteSet(0 .. N - 1) /\ Cardinality(0 .. N - 1) = N
    BY <1>1, FS_Interval
  <2> QED BY <1>5, <2>1, FS_Injection
<1>7. ASSUME NEW i \in 1 .. N
      PROVE  Nth(I, i) \in I /\ OrdinalIn(Nth(I, i), I) = i - 1
  <2>1. i - 1 \in 0 .. N - 1
    BY <1>1
  <2>2. \E n \in I : OrdinalIn(n, I) = i - 1
    BY <1>6, <2>1 DEF Surjection
  <2> QED BY <2>2 DEF Nth
<1>8. ASSUME NEW i \in 1 .. N, NEW j \in 1 .. N, i < j
      PROVE  Nth(I, i) < Nth(I, j)
  <2>1. PICK a \in I, b \in I : a = Nth(I, i) /\ b = Nth(I, j)
    BY <1>7
  <2>2. OrdinalIn(a, I) = i - 1 /\ OrdinalIn(b, I) = j - 1
    BY <1>7, <2>1
  <2>3. ~(b < a) /\ a # b
    BY <1>1, <1>3, <1>8, <2>2
  <2> QED BY <2>1, <2>3
<1>9. ASSUME NEW n \in I
      PROVE  \E i \in 1 .. N : n = Nth(I, i)
  <2>1. PICK i : i = OrdinalIn(n, I) + 1
    OBVIOUS
  <2>2. i \in 1 .. N /\ OrdinalIn(n, I) = i - 1
    BY <1>1, <1>2, <2>1
  <2>3. PICK m \in I : m = Nth(I, i) /\ OrdinalIn(m, I) = i - 1
    BY <1>7, <2>2
  <2>4. m = n
    <3>1. OrdinalIn(n, I) \in Int
      BY <1>1, <1>2
    <3>2. ~(m < n) /\ ~(n < m)
      BY <1>3, <2>2, <2>3, <3>1
    <3> QED BY <3>2
  <2> QED BY <2>2, <2>3, <2>4
<1> QED BY <1>1, <1>2, <1>3, <1>7, <1>8, <1>9

(* deque::erase: the elements before i stay, those after it move up.       *)
LEMMA RemoveAtElements ==
    ASSUME NEW S, NEW q \in Seq(S), NEW i \in 1 .. Len(q)
    PROVE  /\ RemoveAt(q, i) \in Seq(S) /\ Len(RemoveAt(q, i)) = Len(q) - 1
           /\ \A k \in 1 .. Len(q) - 1 :
                 RemoveAt(q, i)[k] = IF k < i THEN q[k] ELSE q[k + 1]
<1> DEFINE a == SubSeq(q, 1, i - 1)
           b == SubSeq(q, i + 1, Len(q))
<1>1. Len(q) \in Nat /\ \A k \in 1 .. Len(q) : q[k] \in S
  OBVIOUS
<1>2. /\ a \in Seq(S)
      /\ Len(a) = IF 1 <= i - 1 THEN (i - 1) - 1 + 1 ELSE 0
      /\ \A k \in 1 .. (i - 1) - 1 + 1 : a[k] = q[1 + k - 1]
  <2>1. \A k \in 1 .. i - 1 : q[k] \in S
    BY <1>1
  <2> QED BY <1>1, <2>1, SubSeqProperties
<1>3. /\ b \in Seq(S)
      /\ Len(b) = IF i + 1 <= Len(q) THEN Len(q) - (i + 1) + 1 ELSE 0
      /\ \A k \in 1 .. Len(q) - (i + 1) + 1 : b[k] = q[(i + 1) + k - 1]
  <2>1. \A k \in i + 1 .. Len(q) : q[k] \in S
    BY <1>1
  <2> QED BY <1>1, <2>1, SubSeqProperties
<1> HIDE DEF a, b
<1>4. Len(a) = i - 1 /\ Len(b) = Len(q) - i
  BY <1>1, <1>2, <1>3
<1>5. /\ a \o b \in Seq(S) /\ Len(a \o b) = Len(a) + Len(b)
      /\ \A k \in 1 .. Len(a) + Len(b) : (a \o b)[k] = IF k <= Len(a) THEN a[k] ELSE b[k - Len(a)]
  BY <1>2, <1>3, ConcatProperties
<1>6. ASSUME NEW k \in 1 .. Len(q) - 1
      PROVE  (a \o b)[k] = IF k < i THEN q[k] ELSE q[k + 1]
  <2>1. CASE k < i
    <3>1. k \in 1 .. (i - 1) - 1 + 1 /\ 1 + k - 1 = k /\ k <= Len(a) /\ k \in 1 .. Len(a) + Len(b)
      BY <1>1, <1>4, <2>1
    <3> QED BY <1>2, <1>5, <2>1, <3>1
  <2>2. CASE ~(k < i)
    <3> DEFINE j == k - (i - 1)
    <3>1. /\ j \in 1 .. Len(q) - (i + 1) + 1 /\ (i + 1) + j - 1 = k + 1
          /\ ~(k <= Len(a)) /\ k \in 1 .. Len(a) + Len(b) /\ j = k - Len(a)
      BY <1>1, <1>4, <2>2
    <3> HIDE DEF j
    <3> QED BY <1>3, <1>5, <2>2, <3>1
  <2> QED BY <2>1, <2>2
<1>7. a \o b = RemoveAt(q, i)
  BY DEF RemoveAt, a, b
<1> QED BY <1>1, <1>4, <1>5, <1>6, <1>7

=============================================================================

------------------------ MODULE Subsequences_proofs ------------------------
(***************************************************************************)
(* Facts about natural numbers and about parts of sequences that the       *)
(* proofs of several components need.                                      *)
(***************************************************************************)
EXTENDS Subsequences, SequenceTheorems, FiniteSetTheorems, TLAPS

\* A least number, from the well-foundedness of finite sets.
LEMMA LeastNumber ==
  ASSUME NEW T \in SUBSET Nat, T # {}
  PROVE  \E m \in T : \A k \in T : m <= k
  <1> DEFINE below(n) == {i \in Nat : i < n}
             family == {below(n) : n \in T}
  <1>1. \A n \in Nat : below(n) \in FiniteSubsetsOf(Nat)
    <2> SUFFICES ASSUME NEW n \in Nat PROVE IsFiniteSet(below(n))
      BY DEF FiniteSubsetsOf
    <2>1. below(n) \in SUBSET Nat /\ \A s \in below(n) : s <= n
      OBVIOUS
    <2> QED BY <2>1, FS_BoundedSetOfNaturals
  <1>2. family \subseteq FiniteSubsetsOf(Nat) /\ family # {}
    BY <1>1
  <1>3. PICK x \in family : \A y \in family : ~(<<y, x>> \in StrictSubsetOrdering(Nat))
    <2> HIDE DEF family
    <2> QED BY <1>2, FS_StrictSubsetOrderingWellFounded, WFMin
  <1>4. PICK m \in T : x = below(m)
    BY <1>3
  <1>5. \A k \in T : m <= k
    <2> SUFFICES ASSUME NEW k \in T, k < m PROVE FALSE
      OBVIOUS
    <2>1. below(k) \in family /\ below(k) \in SUBSET Nat /\ below(m) \in SUBSET Nat
      OBVIOUS
    <2>2. below(k) \subseteq below(m) /\ k \in below(m) /\ k \notin below(k)
      OBVIOUS
    <2>3. <<below(k), x>> \in StrictSubsetOrdering(Nat)
      <3> HIDE DEF below
      <3> QED BY <1>4, <2>1, <2>2 DEF StrictSubsetOrdering
    <2> QED BY <1>3, <2>1, <2>3
  <1> QED BY <1>5

LEMMA NumbersAreFinite ==
  ASSUME NEW n \in Nat, NEW S \in SUBSET (1..n)
  PROVE  IsFiniteSet(S) /\ Cardinality(S) \in Nat /\ \A s \in S : s \in Nat /\ s <= n
  <1>1. IsFiniteSet(1..n)
    BY FS_Interval
  <1>2. IsFiniteSet(S)
    BY <1>1, FS_Subset
  <1> QED BY <1>2, FS_CardinalityType

\* A set of numbers grows by one at each of them.
LEMMA CountUpTo ==
  ASSUME NEW n \in Nat, NEW K \in SUBSET (1..n), NEW k \in 1..n
  PROVE  /\ Cardinality(K \cap (1..k)) \in Nat
         /\ Cardinality(K \cap (1..k)) =
              Cardinality(K \cap (1..(k - 1))) + (IF k \in K THEN 1 ELSE 0)
  <1> DEFINE low == K \cap (1..(k - 1))
             up == K \cap (1..k)
  <1>1. IsFiniteSet(low) /\ Cardinality(low) \in Nat /\ Cardinality(up) \in Nat
    BY NumbersAreFinite
  <1>2. k \notin low /\ up = IF k \in K THEN low \cup {k} ELSE low
    OBVIOUS
  <1> HIDE DEF low, up
  <1>3. Cardinality(up) = Cardinality(low) + (IF k \in K THEN 1 ELSE 0)
    BY <1>1, <1>2, FS_AddElement
  <1> QED BY <1>1, <1>3 DEF low, up

\* The place in a sequence of what is at a place of its part.
LEMMA PlaceInPart ==
  ASSUME NEW n \in Nat, NEW K \in SUBSET (1..n), NEW i \in 1..Cardinality(K)
  PROVE  \E k \in K : Cardinality(K \cap (1..k)) = i
  <1> DEFINE count(k) == Cardinality(K \cap (1..k))
             enough == {k \in 0..n : count(k) >= i}
  <1>1. Cardinality(K) \in Nat /\ i \in Nat /\ i >= 1
    BY NumbersAreFinite
  <1>2. K \cap (1..n) = K /\ K \cap (1..0) = {}
    <2>1. K \cap (1..n) = K
      OBVIOUS
    <2>2. 1..0 = {}
      OBVIOUS
    <2> QED BY <2>1, <2>2
  <1>3. n \in enough /\ 0 \notin enough
    BY <1>1, <1>2, FS_EmptySet
  <1>4. enough \in SUBSET Nat
    OBVIOUS
  <1>5. PICK k \in enough : \A j \in enough : k <= j
    <2> HIDE DEF enough
    <2> QED BY <1>3, <1>4, LeastNumber
  <1>6. k \in 1..n /\ k - 1 \in 0..n /\ k - 1 \notin enough /\ count(k) >= i
    BY <1>3, <1>5
  <1>7. K \cap (1..(k - 1)) \in SUBSET (1..n)
    OBVIOUS
  <1>8. count(k - 1) \in Nat
    BY <1>7, NumbersAreFinite
  <1>9. ~(count(k - 1) >= i)
    BY <1>6
  <1>10. count(k) \in Nat /\ count(k) = count(k - 1) + (IF k \in K THEN 1 ELSE 0)
    BY <1>6, CountUpTo
  <1> HIDE DEF count
  <1>11. k \in K /\ count(k) = i
    BY <1>1, <1>6, <1>8, <1>9, <1>10
  <1> QED BY <1>11 DEF count

\* A part is a sequence of elements, each from a place of its own.
LEMMA PartFacts ==
  ASSUME NEW S, NEW s \in Seq(S), NEW K \in SUBSET (1..Len(s))
  PROVE  /\ Part(s, K) \in Seq(S)
         /\ Len(Part(s, K)) = Cardinality(K) /\ Cardinality(K) \in Nat
         /\ Cardinality(K) <= Len(s)
         /\ \E place \in [1..Cardinality(K) -> K] :
              /\ \A i \in 1..Cardinality(K) : Part(s, K)[i] = s[place[i]]
              /\ \A i, j \in 1..Cardinality(K) : i # j => place[i] # place[j]
  <1> DEFINE n == Cardinality(K)
             at(i) == CHOOSE k \in K : Cardinality(K \cap (1..k)) = i
  <1>1. Len(s) \in Nat /\ s \in [1..Len(s) -> S]
    BY LenProperties
  <1>2. n \in Nat /\ n <= Len(s)
    <2> DEFINE m == Len(s)
    <2>1. m \in Nat
      BY <1>1
    <2> HIDE DEF m
    <2>2. IsFiniteSet(1..m) /\ Cardinality(1..m) = m
      BY <2>1, FS_Interval
    <2>3. K \in SUBSET (1..m)
      BY DEF m
    <2>4. Cardinality(K) <= m
      BY <2>2, <2>3, FS_Subset
    <2> QED BY <2>1, <2>3, <2>4, NumbersAreFinite DEF m
  <1>3. \A i \in 1..n : at(i) \in K /\ Cardinality(K \cap (1..at(i))) = i
    <2> SUFFICES ASSUME NEW i \in 1..n
                 PROVE  at(i) \in K /\ Cardinality(K \cap (1..at(i))) = i
      OBVIOUS
    <2>1. \E k \in K : Cardinality(K \cap (1..k)) = i
      BY <1>1, PlaceInPart
    <2> QED BY <2>1
  <1> HIDE DEF at, n
  <1>4. PICK place : place = [i \in 1..n |-> at(i)]
    OBVIOUS
  <1>5. place \in [1..n -> K] /\ \A i, j \in 1..n : i # j => place[i] # place[j]
    BY <1>3, <1>4
  <1>6. Part(s, K) = [i \in 1..n |-> s[place[i]]]
    BY <1>4 DEF Part, at, n
  <1>7. Part(s, K) \in [1..n -> S]
    BY <1>1, <1>5, <1>6
  <1>8. Part(s, K) \in Seq(S) /\ Len(Part(s, K)) = n
    BY <1>2, <1>7
  <1> QED BY <1>2, <1>5, <1>6, <1>8 DEF n

\* Every place of the part is the place of one of its elements.
LEMMA PartReaches ==
  ASSUME NEW n \in Nat, NEW K \in SUBSET (1..n), NEW place \in [1..Cardinality(K) -> K],
         \A i, j \in 1..Cardinality(K) : i # j => place[i] # place[j], NEW k \in K
  PROVE  \E i \in 1..Cardinality(K) : place[i] = k
  <1> DEFINE N == Cardinality(K)
  <1>1. IsFiniteSet(K) /\ N \in Nat
    BY NumbersAreFinite
  <1>2. IsFiniteSet(1..N) /\ Cardinality(1..N) = N
    <2> HIDE DEF N
    <2> QED BY <1>1, FS_Interval
  <1>3. place \in Injection(1..N, K)
    BY DEF Injection, IsInjective
  <1>4. place \in Surjection(1..N, K)
    BY <1>1, <1>2, <1>3, FS_Injection
  <1> QED BY <1>4 DEF Surjection

\* All places: the sequence itself.
LEMMA PartWhole ==
  ASSUME NEW S, NEW s \in Seq(S), NEW K, K = 1..Len(s)
  PROVE  Part(s, K) = s
  <1> DEFINE n == Len(s)
             at(i) == CHOOSE k \in K : Cardinality(K \cap (1..k)) = i
  <1>1. n \in Nat /\ s = [i \in 1..n |-> s[i]]
    BY LenProperties
  <1> HIDE DEF n
  <1>2. \A k \in 1..n : Cardinality((1..n) \cap (1..k)) = k
    <2> SUFFICES ASSUME NEW k \in 1..n PROVE Cardinality((1..n) \cap (1..k)) = k
      OBVIOUS
    <2>1. (1..n) \cap (1..k) = 1..k /\ k \in Nat /\ k >= 1
      BY <1>1
    <2>2. Cardinality(1..k) = IF 1 > k THEN 0 ELSE k - 1 + 1
      BY <2>1, FS_Interval
    <2>3. Cardinality(1..k) = k
      BY <2>1, <2>2
    <2> QED BY <2>1, <2>3
  <1>3. K = 1..n /\ Cardinality(K) = n
    <2>1. 1 \in Int /\ n \in Int
      BY <1>1
    <2>2. Cardinality(1..n) = IF 1 > n THEN 0 ELSE n - 1 + 1
      BY <2>1, FS_Interval
    <2>3. Cardinality(1..n) = n
      BY <1>1, <2>2
    <2>4. K = 1..n
      BY DEF n
    <2> QED BY <2>3, <2>4
  <1>4. \A i \in 1..n : at(i) = i
    <2> SUFFICES ASSUME NEW i \in 1..n PROVE at(i) = i
      OBVIOUS
    <2>1. i \in K /\ Cardinality(K \cap (1..i)) = i
      BY <1>2, <1>3
    <2>2. at(i) \in K /\ Cardinality(K \cap (1..at(i))) = i
      BY <2>1
    <2>3. Cardinality(K \cap (1..at(i))) = at(i)
      BY <1>2, <1>3, <2>2
    <2> QED BY <2>2, <2>3
  <1>5. Part(s, K) = [i \in 1..n |-> s[at(i)]]
    BY <1>3 DEF Part
  <1> HIDE DEF at
  <1> QED BY <1>1, <1>4, <1>5
=============================================================================

------------------------- MODULE StoredCards_proofs -------------------------
(***************************************************************************)
(* Proofs about what the browser keeps and finds again: the caches of what *)
(* subjects were decoded under, for any tabs, subjects, types and number   *)
(* of messages; the rule a payload is read under, for any schemas and      *)
(* payloads; and the session, for any types, uuids and number of steps.    *)
(***************************************************************************)
EXTENDS TopicCaches, CddlCards, Session, Subsequences_proofs

-----------------------------------------------------------------------------
(* Paths, and what stands at them. *)

LEMMA PathFacts ==
  /\ Subjects \subseteq Paths
  /\ \A p \in Paths : /\ p \in Seq(Segments \cup {Wild}) /\ Len(p) \in Nat \ {0}
                      /\ DOMAIN p = 1..Len(p)
  /\ \A s \in Subjects : \A i \in 1..Len(s) : s[i] # Wild
  <1>1. \A s \in Subjects : /\ s \in Seq(STRING \ {Wild}) /\ s # <<>> /\ Len(s) \in Nat \ {0}
                            /\ DOMAIN s = 1..Len(s) /\ \A i \in 1..Len(s) : s[i] # Wild
    BY TopicAssumption
  <1>2. ASSUME NEW s \in Subjects PROVE s \in Paths
    <2>1. s \in [DOMAIN s -> Segments \cup {Wild}] /\ \A i \in DOMAIN s : s[i] \in {s[i], Wild}
      BY <1>1 DEF Segments
    <2> QED BY <2>1 DEF Paths
  <1>3. ASSUME NEW p \in Paths
        PROVE  p \in Seq(Segments \cup {Wild}) /\ Len(p) \in Nat \ {0} /\ DOMAIN p = 1..Len(p)
    <2>1. PICK s \in Subjects : p \in [DOMAIN s -> Segments \cup {Wild}]
      BY DEF Paths
    <2>2. PICK n \in Nat \ {0} : p \in [1..n -> Segments \cup {Wild}]
      BY <1>1, <2>1
    <2> QED BY <2>2
  <1> QED BY <1>1, <1>2, <1>3

\* The candidates of a path are of different types, and one at most of a CDDL cache.
Distinct(cs) == \A i, j \in 1..Len(cs) : i # j => cs[i].type # cs[j].type
GoodCell(cs, f) == cs \in Seq(Candidate) /\ Distinct(cs) /\ (f = "cddl" => Len(cs) <= 1)
GoodTrie(T, f) == T \in [Paths -> Seq(Candidate)] /\ \A p \in Paths : GoodCell(T[p], f)

LEMMA EmptyCell == ASSUME NEW f PROVE GoodCell(<<>>, f)
  BY DEF GoodCell, Distinct

LEMMA OneCell ==
  ASSUME NEW f, NEW c \in Candidate
  PROVE  GoodCell(<<c>>, f) /\ Len(<<c>>) = 1 /\ <<c>>[1] = c
  BY DEF GoodCell, Distinct

LEMMA EmptyTrieGood == ASSUME NEW f PROVE GoodTrie(EmptyTrie, f)
  BY EmptyCell DEF GoodTrie, EmptyTrie, GoodCell

Put(T, q, cs) == [T EXCEPT ![q] = cs]

LEMMA CellChanged ==
  ASSUME NEW f, NEW T, GoodTrie(T, f), NEW q, NEW cs, GoodCell(cs, f)
  PROVE  GoodTrie(Put(T, q, cs), f)
  BY DEF GoodTrie, GoodCell, Put

LEMMA OldTrieGood == ASSUME NEW f PROVE GoodTrie(OldTrie, f)
  <1> DEFINE old == [type |-> OldType, conf |-> Sure]
  <1>1. old \in Candidate
    BY DEF Candidate, Sure
  <1> HIDE DEF old
  <1>2. GoodCell(<<old>>, f)
    BY <1>1, OneCell
  <1> QED BY <1>2, EmptyTrieGood, CellChanged DEF OldTrie, old, Put

\* A part of a path's candidates is as good as all of them.
LEMMA PartGood ==
  ASSUME NEW f, NEW cs, GoodCell(cs, f), NEW K \in SUBSET (1..Len(cs))
  PROVE  /\ GoodCell(Part(cs, K), f)
         /\ \A i \in 1..Len(Part(cs, K)) : \E k \in K : Part(cs, K)[i] = cs[k]
         /\ K # {} => Part(cs, K) # <<>>
  <1> DEFINE P == Part(cs, K)
             n == Cardinality(K)
  <1>1. /\ P \in Seq(Candidate) /\ Len(P) = n /\ n \in Nat /\ n <= Len(cs)
    BY PartFacts DEF GoodCell
  <1>2. PICK place \in [1..n -> K] : /\ \A i \in 1..n : P[i] = cs[place[i]]
                                     /\ \A i, j \in 1..n : i # j => place[i] # place[j]
    BY PartFacts DEF GoodCell
  <1>3. Len(cs) \in Nat /\ IsFiniteSet(K)
    <2>1. Len(cs) \in Nat
      BY DEF GoodCell
    <2> QED BY <2>1, NumbersAreFinite
  <1>4. K # {} => n # 0
    BY <1>3, FS_EmptySet
  <1> HIDE DEF P, n
  <1>5. ASSUME NEW i \in 1..Len(P), NEW j \in 1..Len(P), i # j PROVE P[i].type # P[j].type
    <2>1. i \in 1..n /\ j \in 1..n
      BY <1>1
    <2>2. place[i] \in 1..Len(cs) /\ place[j] \in 1..Len(cs) /\ place[i] # place[j]
      BY <1>2, <1>5, <2>1
    <2>3. P[i] = cs[place[i]] /\ P[j] = cs[place[j]]
      BY <1>2, <2>1
    <2> QED BY <2>2, <2>3 DEF GoodCell, Distinct
  <1>6. P = <<>> => Len(P) = 0
    OBVIOUS
  <1>7. GoodCell(P, f)
    BY <1>1, <1>3, <1>5 DEF GoodCell, Distinct
  <1>8. \A i \in 1..Len(P) : \E k \in K : P[i] = cs[k]
    BY <1>1, <1>2
  <1>9. K # {} => P # <<>>
    BY <1>1, <1>4, <1>6
  <1> QED BY <1>7, <1>8, <1>9 DEF P

LEMMA CleanupGood ==
  ASSUME NEW f, NEW T, GoodTrie(T, f)
  PROVE  GoodTrie(Cleanup(T), f)
  <1>1. ASSUME NEW p \in Paths
        PROVE  GoodCell(Part(T[p], {i \in DOMAIN T[p] : T[p][i].conf >= 4}), f)
    <2>1. GoodCell(T[p], f) /\ DOMAIN T[p] = 1..Len(T[p])
      BY DEF GoodTrie, GoodCell
    <2> QED BY <2>1, PartGood
  <1>2. \A p \in Paths : Cleanup(T)[p] = Part(T[p], {i \in DOMAIN T[p] : T[p][i].conf >= 4})
    BY DEF Cleanup
  <1>3. \A p \in Paths : GoodCell(Cleanup(T)[p], f)
    BY <1>1, <1>2
  <1>4. DOMAIN Cleanup(T) = Paths /\ Cleanup(T) = [p \in Paths |-> Cleanup(T)[p]]
    BY DEF Cleanup
  <1>5. Cleanup(T) \in [Paths -> Seq(Candidate)]
    BY <1>3, <1>4 DEF GoodCell
  <1> QED BY <1>3, <1>5 DEF GoodTrie

-----------------------------------------------------------------------------
(* What is learned. *)

LEMMA InsertRuleGood ==
  ASSUME NEW f, NEW T, GoodTrie(T, f), NEW s \in Subjects, NEW ty \in Types
  PROVE  /\ GoodTrie(InsertRule(T, s, ty), f)
         /\ \A p \in Paths \ {s} : InsertRule(T, s, ty)[p] = T[p]
         /\ \E c \in Candidate : /\ InsertRule(T, s, ty)[s] = <<c>> /\ c.type = ty
                                 /\ c.conf >= 4 \/ Distrusted(T, s, ty)
  <1>1. s \in Paths /\ GoodCell(T[s], f) /\ T \in [Paths -> Seq(Candidate)]
    BY PathFacts DEF GoodTrie
  <1>2. \E c \in Candidate :
          /\ InsertRule(T, s, ty) = Put(T, s, <<c>>) /\ c.type = ty
          /\ c.conf >= 4 \/ Distrusted(T, s, ty)
    <2>1. CASE T[s] # <<>> /\ T[s][1].type = ty
      <3>1. T[s][1] \in Candidate
        BY <1>1, <2>1 DEF GoodCell
      <3>2. PICK n \in 2..20 : n = T[s][1].conf /\ T[s][1] = [type |-> ty, conf |-> n]
        BY <2>1, <3>1 DEF Candidate, Sure
      <3> DEFINE c == [type |-> ty, conf |-> Lesser(Sure, n + 1)]
      <3>3. InsertRule(T, s, ty) = Put(T, s, <<c>>)
        <4>1. Firmer(T[s][1]) = c
          BY <3>2 DEF Firmer
        <4> DEFINE cell == IF T[s] # <<>> /\ T[s][1].type = ty
                           THEN <<Firmer(T[s][1])>>
                           ELSE <<[type |-> ty, conf |-> Sure]>>
        <4>2. InsertRule(T, s, ty) = Put(T, s, cell)
          BY DEF InsertRule, Put
        <4>3. cell = <<c>>
          BY <2>1, <4>1
        <4> QED BY <4>2, <4>3
      <3>4. c \in Candidate /\ c.type = ty /\ (n # 2 => c.conf >= 4)
        BY <3>2 DEF Candidate, Lesser, Sure
      <3>5. n = 2 => Distrusted(T, s, ty)
        BY <2>1, <3>2 DEF Distrusted
      <3> QED BY <3>3, <3>4, <3>5
    <2>2. CASE ~(T[s] # <<>> /\ T[s][1].type = ty)
      <3> DEFINE c == [type |-> ty, conf |-> Sure]
      <3>1. InsertRule(T, s, ty) = Put(T, s, <<c>>)
        BY <2>2 DEF InsertRule, Put
      <3>2. c \in Candidate /\ c.type = ty /\ c.conf >= 4
        BY DEF Candidate, Sure
      <3> QED BY <3>1, <3>2
    <2> QED BY <2>1, <2>2
  <1>3. PICK c \in Candidate :
          /\ InsertRule(T, s, ty) = Put(T, s, <<c>>) /\ c.type = ty
          /\ c.conf >= 4 \/ Distrusted(T, s, ty)
    BY <1>2
  <1>4. GoodTrie(InsertRule(T, s, ty), f)
    <2>1. GoodCell(<<c>>, f)
      BY OneCell
    <2> QED BY <1>3, <2>1, CellChanged
  <1> QED BY <1>1, <1>3, <1>4 DEF Put

\* The user's choice comes first; what is learned leaves what is first where it is.
LEMMA InsertCandidateGood ==
  ASSUME NEW T, GoodTrie(T, "proto"), NEW s \in Subjects, NEW ty \in Types, NEW prefer \in BOOLEAN
  PROVE  LET I == InsertCandidate(T, s, ty, prefer)
         IN  /\ GoodTrie(I, "proto")
             /\ \A p \in Paths \ {s} : I[p] = T[p]
             /\ I[s] # <<>> /\ HasType(I[s], ty)
             /\ prefer => I[s][1].type = ty
             /\ ~prefer /\ T[s] # <<>> => I[s][1].type = T[s][1].type
  <1> DEFINE I == InsertCandidate(T, s, ty, prefer)
             new == [type |-> ty, conf |-> Sure]
             old == T[s]
             rest == Without(old, ty)
             cell == IF prefer THEN <<new>> \o rest
                     ELSE IF HasType(old, ty)
                          THEN [i \in DOMAIN old |-> IF old[i].type = ty THEN new ELSE old[i]]
                          ELSE Append(old, new)
  <1>1. /\ s \in Paths /\ T \in [Paths -> Seq(Candidate)]
        /\ old \in Seq(Candidate) /\ Distinct(old) /\ Len(old) \in Nat /\ DOMAIN old = 1..Len(old)
    BY PathFacts DEF GoodTrie, GoodCell
  <1>2. new \in Candidate /\ new.type = ty
    BY DEF Candidate, Sure
  <1>3. I = Put(T, s, cell)
    BY DEF InsertCandidate, Put
  <1>4. /\ rest \in Seq(Candidate) /\ Distinct(rest) /\ Len(rest) \in Nat
        /\ \A i \in 1..Len(rest) : rest[i].type # ty
    <2>1. GoodCell(old, "proto")
      BY <1>1 DEF GoodCell
    <2> DEFINE K == {i \in DOMAIN old : old[i].type # ty}
    <2>2. K \in SUBSET (1..Len(old)) /\ \A k \in K : old[k].type # ty
      BY <1>1
    <2> HIDE DEF K, old
    <2>3. /\ GoodCell(Part(old, K), "proto")
          /\ \A i \in 1..Len(Part(old, K)) : \E k \in K : Part(old, K)[i] = old[k]
      BY <2>1, <2>2, PartGood
    <2>4. rest = Part(old, K)
      BY DEF Without, K
    <2> QED BY <2>2, <2>3, <2>4 DEF GoodCell
  <1> HIDE DEF rest, new, old
  <1>5. /\ GoodCell(cell, "proto") /\ cell # <<>> /\ HasType(cell, ty)
        /\ prefer => cell[1].type = ty
        /\ ~prefer /\ old # <<>> => cell[1].type = old[1].type
    <2>1. CASE prefer
      <3>1. cell = <<new>> \o rest /\ <<new>> \in Seq(Candidate) /\ Len(<<new>>) = 1
        BY <1>2, <2>1
      <3>2. /\ cell \in Seq(Candidate) /\ Len(cell) = 1 + Len(rest) /\ DOMAIN cell = 1..Len(cell)
            /\ cell[1] = new
            /\ \A i \in 2..Len(cell) : cell[i] = rest[i - 1] /\ i - 1 \in 1..Len(rest)
        <4> HIDE DEF cell
        <4> QED BY <1>4, <3>1, ConcatProperties, LenProperties
      <3> HIDE DEF cell
      <3>3. ASSUME NEW i \in 1..Len(cell), NEW j \in 1..Len(cell), i # j
            PROVE  cell[i].type # cell[j].type
        <4>1. CASE i = 1
          BY <1>2, <1>4, <3>2, <3>3, <4>1
        <4>2. CASE j = 1
          BY <1>2, <1>4, <3>2, <3>3, <4>2
        <4>3. CASE i # 1 /\ j # 1
          <5>1. i \in 2..Len(cell) /\ j \in 2..Len(cell) /\ i - 1 # j - 1
            BY <1>4, <3>2, <3>3, <4>3
          <5>2. cell[i] = rest[i - 1] /\ cell[j] = rest[j - 1]
            BY <3>2, <5>1
          <5>3. i - 1 \in 1..Len(rest) /\ j - 1 \in 1..Len(rest)
            BY <3>2, <5>1
          <5> QED BY <1>4, <5>1, <5>2, <5>3 DEF Distinct
        <4> QED BY <4>1, <4>2, <4>3
      <3>4. cell # <<>> /\ HasType(cell, ty)
        BY <1>2, <1>4, <3>2 DEF HasType
      <3> QED BY <1>2, <2>1, <3>2, <3>3, <3>4 DEF GoodCell, Distinct
    <2>2. CASE ~prefer /\ HasType(old, ty)
      <3>1. cell = [i \in 1..Len(old) |-> IF old[i].type = ty THEN new ELSE old[i]]
        BY <1>1, <2>2
      <3> HIDE DEF cell
      <3>2. \A i \in 1..Len(old) : cell[i] \in Candidate /\ cell[i].type = old[i].type
        BY <1>1, <1>2, <3>1
      <3>3. /\ cell \in Seq(Candidate) /\ Len(cell) = Len(old) /\ DOMAIN cell = DOMAIN old
        BY <1>1, <3>1, <3>2
      <3>4. \E i \in 1..Len(old) : old[i].type = ty
        BY <1>1, <2>2 DEF HasType
      <3>5. Distinct(cell) /\ HasType(cell, ty)
        BY <1>1, <3>2, <3>3, <3>4 DEF Distinct, HasType
      <3>6. cell # <<>> /\ Len(old) >= 1
        BY <1>1, <3>3, <3>4
      <3> QED BY <1>1, <2>2, <3>2, <3>3, <3>5, <3>6 DEF GoodCell
    <2>3. CASE ~prefer /\ ~HasType(old, ty)
      <3>1. cell = Append(old, new)
        BY <2>3
      <3> HIDE DEF cell
      <3>2. /\ cell \in Seq(Candidate) /\ Len(cell) = Len(old) + 1 /\ DOMAIN cell = 1..Len(cell)
            /\ \A i \in 1..Len(old) : cell[i] = old[i]
            /\ cell[Len(cell)] = new
        BY <1>1, <1>2, <3>1
      <3>3. \A i \in 1..Len(old) : old[i].type # ty
        BY <1>1, <2>3 DEF HasType
      <3>4. Distinct(cell)
        BY <1>1, <1>2, <3>2, <3>3 DEF Distinct
      <3>5. cell # <<>> /\ HasType(cell, ty)
        BY <1>1, <1>2, <3>2 DEF HasType
      <3>6. old # <<>> => 1 \in 1..Len(old)
        BY <1>1
      <3> QED BY <1>1, <2>3, <3>2, <3>4, <3>5, <3>6 DEF GoodCell
    <2> QED BY <2>1, <2>2, <2>3
  <1> HIDE DEF cell
  <1>6. GoodTrie(I, "proto")
    <2> HIDE DEF I
    <2> QED BY <1>3, <1>5, CellChanged
  <1>7. I[s] = cell /\ \A p \in Paths \ {s} : I[p] = T[p]
    BY <1>1, <1>3 DEF Put
  <1> HIDE DEF I
  <1>8. old = T[s]
    BY DEF old
  <1> QED BY <1>5, <1>6, <1>7, <1>8 DEF I

-----------------------------------------------------------------------------
(* Patterns. *)

LEMMA PatternConfRange ==
  ASSUME NEW p, Len(p) \in Nat \ {0}, DOMAIN p = 1..Len(p)
  PROVE  ExactSegments(p) \in Nat /\ PatternConf(p) \in 6..18
  <1>1. ExactSegments(p) \in Nat
    BY NumbersAreFinite DEF ExactSegments
  <1> DEFINE e == 12 * ExactSegments(p)
             n == Len(p)
  <1>2. e \in Nat /\ n \in Nat /\ n >= 1
    BY <1>1
  <1> HIDE DEF e, n
  <1>3. e \div n \in Nat
    BY <1>2
  <1> DEFINE q == e \div n
  <1>4. q \in Nat
    BY <1>3
  <1>5. PatternConf(p) = Lesser(18, 6 + q)
    BY DEF PatternConf, e, n
  <1> HIDE DEF q
  <1>6. PatternConf(p) \in 6..18
    BY <1>4, <1>5 DEF Lesser
  <1> QED BY <1>1, <1>6

\* A pattern with no wildcard in it is one of the topics it was made of.
LEMMA CommonFacts ==
  ASSUME NEW R \in SUBSET Paths, R # {}
  PROVE  /\ PatternConf(Common(R)) \in 6..18
         /\ Common(R) \in Subjects => Common(R) \in R
  <1> DEFINE lens == {Len(p) : p \in R}
             n == CHOOSE n \in lens : \A p \in R : n <= Len(p)
             First == CHOOSE p \in R : TRUE
             c == [i \in 1..n |-> IF \A p \in R : p[i] = First[i] THEN First[i] ELSE Wild]
  <1>1. Common(R) = c
    BY DEF Common
  <1>2. lens \in SUBSET Nat /\ lens # {}
    BY PathFacts
  <1>3. n \in lens /\ \A p \in R : n <= Len(p)
    <2>1. PICK m \in lens : \A k \in lens : m <= k
      <3> HIDE DEF lens
      <3> QED BY <1>2, LeastNumber
    <2>2. \A p \in R : m <= Len(p)
      BY <2>1
    <2> QED BY <2>1, <2>2
  <1>4. PICK short \in R : n = Len(short)
    BY <1>3
  <1>5. n \in Nat \ {0}
    BY <1>4, PathFacts
  <1> HIDE DEF n, lens
  <1>6. Len(c) = n /\ DOMAIN c = 1..n
    BY <1>5
  <1>7. PatternConf(c) \in 6..18
    <2> HIDE DEF c
    <2> QED BY <1>5, <1>6, PatternConfRange
  <1>8. ASSUME c \in Subjects PROVE c \in R
    <2>1. \A i \in 1..n : c[i] # Wild
      <3> HIDE DEF c
      <3> QED BY <1>6, <1>8, PathFacts
    <2>2. \A i \in 1..n : \A p \in R : p[i] = First[i]
      BY <2>1
    <2>3. \A i \in 1..n : c[i] = short[i]
      BY <2>2
    <2>4. short \in Seq(Segments \cup {Wild}) /\ c \in Seq(Segments \cup {Wild}) /\ Len(short) = n
      <3> HIDE DEF c
      <3> QED BY <1>4, <1>8, PathFacts
    <2>5. c = short
      <3> HIDE DEF c
      <3> QED BY <1>6, <2>3, <2>4, SeqEqual
    <2> QED BY <2>5
  <1> QED BY <1>1, <1>7, <1>8

\* A rule is learned with its subject, and no other subject's rule is changed.
LEMMA LearnRuleGood ==
  ASSUME NEW T, GoodTrie(T, "cddl"), NEW s \in Subjects, NEW ty \in Types
  PROVE  LET L == LearnRule(T, s, ty)
         IN  /\ GoodTrie(L, "cddl")
             /\ \E c \in Candidate : /\ L[s] = <<c>> /\ c.type = ty
                                     /\ c.conf >= 4 \/ Distrusted(T, s, ty)
             /\ \A u \in Subjects \ {s} :
                  L[u] = T[u] \/ (T[u][1].type = ty /\ L[u][1].type = ty)
  <1> DEFINE I == InsertRule(T, s, ty)
             L == LearnRule(T, s, ty)
             R == Similar(I, s, ty) \cup {s}
             q == Common(R)
             new == [type |-> ty, conf |-> PatternConf(q)]
  <1>1. /\ GoodTrie(I, "cddl")
        /\ \A p \in Paths \ {s} : I[p] = T[p]
        /\ \E c \in Candidate : /\ I[s] = <<c>> /\ c.type = ty
                                /\ c.conf >= 4 \/ Distrusted(T, s, ty)
    BY InsertRuleGood
  <1>2. R \in SUBSET Paths /\ R # {} /\ s \in Paths
    BY PathFacts DEF Similar
  <1>3. /\ PatternConf(q) \in 6..18
        /\ q \in Subjects => q \in R
    <2> HIDE DEF R
    <2> QED BY <1>2, CommonFacts
  <1>4. new \in Candidate /\ new.type = ty /\ new.conf >= 4
    <2>1. PICK k : k = PatternConf(q) /\ k \in 2..20 /\ k >= 4
      BY <1>3
    <2>2. new = [type |-> ty, conf |-> k]
      BY <2>1
    <2> QED BY <2>1, <2>2 DEF Candidate, Sure
  <1>5. L = I \/ L = Put(I, q, <<new>>)
    BY DEF LearnRule, RulePattern, Put
  <1>6. ASSUME NEW u \in Subjects \ {s} PROVE I[u] = T[u] /\ u \in Paths
    BY <1>1, PathFacts
  <1>7. ASSUME NEW u \in Subjects \ {s}, u = q PROVE T[u][1].type = ty
    <2>1. u \in Similar(I, s, ty)
      BY <1>3, <1>7
    <2>2. PICK i \in DOMAIN I[u] : I[u][i] = [type |-> ty, conf |-> Sure]
      BY <2>1 DEF Similar
    <2>3. I[u] \in Seq(Candidate) /\ Len(I[u]) <= 1
      BY <1>1, <1>6 DEF GoodTrie, GoodCell
    <2>4. i = 1
      BY <2>2, <2>3
    <2> QED BY <1>6, <2>2, <2>4
  <1> HIDE DEF I, L, R, q, new
  <1>8. CASE L = I
    BY <1>1, <1>6, <1>8 DEF L
  <1>9. CASE L = Put(I, q, <<new>>)
    <2>1. GoodCell(<<new>>, "cddl") /\ <<new>>[1] = new
      BY <1>4, OneCell
    <2>2. GoodTrie(L, "cddl")
      BY <1>1, <1>9, <2>1, CellChanged
    <2>3. DOMAIN I = Paths
      BY <1>1 DEF GoodTrie
    <2>4. L[s] = IF s = q THEN <<new>> ELSE I[s]
      BY <1>2, <1>9, <2>3 DEF Put
    <2>5. \E c \in Candidate : /\ L[s] = <<c>> /\ c.type = ty
                               /\ c.conf >= 4 \/ Distrusted(T, s, ty)
      BY <1>1, <1>4, <2>4
    <2>6. ASSUME NEW u \in Subjects \ {s}
          PROVE  L[u] = T[u] \/ (T[u][1].type = ty /\ L[u][1].type = ty)
      <3>1. L[u] = IF u = q THEN <<new>> ELSE I[u]
        BY <1>6, <1>9, <2>3 DEF Put
      <3> QED BY <1>4, <1>6, <1>7, <2>1, <3>1
    <2> QED BY <2>2, <2>5, <2>6 DEF L
  <1> QED BY <1>5, <1>8, <1>9

\* The first candidate of a path stays where it is, but for the subject of a choice.
LEMMA LearnCandidateGood ==
  ASSUME NEW T, GoodTrie(T, "proto"), NEW s \in Subjects, NEW ty \in Types, NEW prefer \in BOOLEAN
  PROVE  LET L == LearnCandidate(T, s, ty, prefer)
         IN  /\ GoodTrie(L, "proto")
             /\ \A p \in Paths : T[p] # <<>> /\ (prefer => p # s) => L[p][1].type = T[p][1].type
             /\ prefer => L[s][1].type = ty
  <1> DEFINE I == InsertCandidate(T, s, ty, prefer)
             L == LearnCandidate(T, s, ty, prefer)
             q == Common(Similar(I, s, ty) \cup {s})
             new == [type |-> ty, conf |-> PatternConf(q)]
  <1>1. /\ GoodTrie(I, "proto")
        /\ \A p \in Paths \ {s} : I[p] = T[p]
        /\ I[s] # <<>> /\ HasType(I[s], ty)
        /\ prefer => I[s][1].type = ty
        /\ ~prefer /\ T[s] # <<>> => I[s][1].type = T[s][1].type
    BY InsertCandidateGood
  <1>2. s \in Paths /\ PatternConf(q) \in 6..18
    <2> DEFINE R == Similar(I, s, ty) \cup {s}
    <2>1. R \in SUBSET Paths /\ R # {} /\ s \in Paths
      BY PathFacts DEF Similar
    <2> HIDE DEF R
    <2>2. PatternConf(Common(R)) \in 6..18
      BY <2>1, CommonFacts
    <2> QED BY <2>1, <2>2 DEF R
  <1>3. new \in Candidate /\ new.type = ty
    BY <1>2 DEF Candidate, Sure
  <1>4. L = I \/ L = CandidatePattern(I, Similar(I, s, ty) \cup {s}, ty)
    BY DEF LearnCandidate
  <1>5. L = I \/ (~HasType(I[q], ty) /\ L = Put(I, q, Append(I[q], new)))
    <2> HIDE DEF L, I
    <2>1. CandidatePattern(I, Similar(I, s, ty) \cup {s}, ty)
            = IF HasType(I[q], ty) THEN I ELSE Put(I, q, Append(I[q], new))
      BY DEF CandidatePattern, Put
    <2> QED BY <1>4, <2>1
  <1> HIDE DEF I, L, q, new
  <1>6. GoodTrie(L, "proto") /\ \A p \in Paths : I[p] # <<>> => L[p][1] = I[p][1]
    <2>1. CASE L = I
      BY <1>1, <2>1
    <2>2. CASE q \in Paths /\ ~HasType(I[q], ty) /\ L = Put(I, q, Append(I[q], new))
      <3> DEFINE cs == I[q]
                 cell == Append(cs, new)
      <3>1. cs \in Seq(Candidate) /\ Distinct(cs) /\ Len(cs) \in Nat /\ DOMAIN cs = 1..Len(cs)
        BY <1>1, <2>2 DEF GoodTrie, GoodCell
      <3> HIDE DEF cs
      <3>2. /\ cell \in Seq(Candidate) /\ Len(cell) = Len(cs) + 1
            /\ \A i \in 1..Len(cs) : cell[i] = cs[i]
            /\ cell[Len(cell)] = new
        BY <1>3, <3>1
      <3> HIDE DEF cell
      <3>3. \A i \in 1..Len(cs) : cs[i].type # ty
        BY <2>2, <3>1 DEF HasType, cs
      <3>4. GoodCell(cell, "proto")
        <4>1. Distinct(cell)
          BY <1>3, <3>1, <3>2, <3>3 DEF Distinct
        <4> QED BY <3>2, <4>1 DEF GoodCell
      <3>5. L = Put(I, q, cell)
        BY <2>2 DEF cell, cs
      <3>6. GoodTrie(L, "proto")
        BY <1>1, <3>4, <3>5, CellChanged
      <3>7. DOMAIN I = Paths
        BY <1>1 DEF GoodTrie
      <3>8. cs # <<>> => cell[1] = cs[1]
        BY <3>1, <3>2
      <3>9. \A p \in Paths : L[p] = IF p = q THEN cell ELSE I[p]
        BY <3>5, <3>7 DEF Put
      <3> QED BY <3>6, <3>8, <3>9 DEF cs
    <2>3. CASE q \notin Paths /\ L = Put(I, q, Append(I[q], new))
      <3>1. I \in [Paths -> Seq(Candidate)]
        BY <1>1 DEF GoodTrie
      <3>2. L = I
        BY <2>3, <3>1 DEF Put
      <3> QED BY <1>1, <3>2
    <2> QED BY <1>5, <2>1, <2>2, <2>3
  <1>7. ASSUME NEW p \in Paths, T[p] # <<>>, prefer => p # s
        PROVE  L[p][1].type = T[p][1].type
    BY <1>1, <1>6, <1>7
  <1>8. prefer => L[s][1].type = ty
    BY <1>1, <1>2, <1>6
  <1> QED BY <1>6, <1>7, <1>8 DEF L

-----------------------------------------------------------------------------
(* The most specific pattern. *)

\* One pattern is chosen before another.
Ahead(T, p, q) == \/ Specificity(T, p) > Specificity(T, q)
                  \/ Specificity(T, p) = Specificity(T, q) /\ SearchedBefore(p, q)

LEMMA SpecificityIsNumber ==
  ASSUME NEW f, NEW T, GoodTrie(T, f), NEW p \in Paths, T[p] # <<>>
  PROVE  Specificity(T, p) \in Nat
  <1> DEFINE cs == T[p]
             confs == {cs[i].conf : i \in DOMAIN cs}
             misses == {Sure - n : n \in confs}
  <1>1. cs \in Seq(Candidate) /\ DOMAIN cs = 1..Len(cs) /\ Len(cs) \in Nat \ {0}
    BY DEF GoodTrie, GoodCell
  <1>2. confs \in SUBSET (2..20) /\ confs # {}
    <2>1. \A c \in Candidate : c.conf \in 2..20
      BY DEF Candidate, Sure
    <2>3. \A i \in DOMAIN cs : cs[i] \in Candidate
      BY <1>1
    <2>2. 1 \in DOMAIN cs
      BY <1>1
    <2> QED BY <2>1, <2>2, <2>3
  <1> HIDE DEF confs
  <1>3. misses \in SUBSET Nat /\ misses # {}
    <2>1. \A n \in confs : Sure - n \in Nat
      BY <1>2 DEF Sure
    <2> QED BY <1>2, <2>1
  <1>4. PICK m \in misses : \A k \in misses : m <= k
    <2> HIDE DEF misses
    <2> QED BY <1>3, LeastNumber
  <1>5. PICK n \in confs : m = Sure - n
    BY <1>4
  <1>6. \A k \in confs : k <= n
    <2> SUFFICES ASSUME NEW k \in confs PROVE k <= n
      OBVIOUS
    <2>1. Sure - n <= Sure - k
      BY <1>4, <1>5
    <2> QED BY <1>2, <2>1 DEF Sure
  <1>7. \A i \in DOMAIN cs : cs[i].conf <= n
    BY <1>6 DEF confs
  <1>8. TopConf(cs) \in confs
    <2> DEFINE top == CHOOSE k \in confs : \A i \in DOMAIN cs : cs[i].conf <= k
    <2>1. TopConf(cs) = top
      BY DEF TopConf, confs
    <2>2. top \in confs
      BY <1>7
    <2> QED BY <2>1, <2>2
  <1>9. ExactSegments(p) \in Nat
    BY PathFacts, PatternConfRange
  <1>10. TopConf(cs) \in Nat
    <2>1. \A k \in confs : k \in Nat
      BY <1>2
    <2> QED BY <1>8, <2>1
  <1>11. Specificity(T, p) = 40 * ExactSegments(p) + TopConf(cs)
    BY DEF Specificity
  <1> HIDE DEF cs
  <1> QED BY <1>9, <1>10, <1>11

\* Of two patterns that cover a subject one is searched first.
LEMMA SearchIsTotal ==
  ASSUME NEW s \in Subjects, NEW p \in Paths, NEW q \in Paths,
         Covers(p, s), Covers(q, s), p # q
  PROVE  SearchedBefore(p, q) \/ SearchedBefore(q, p)
  <1> DEFINE n == Len(s)
             differ == {i \in 1..n : p[i] # q[i]}
  <1>1. /\ n \in Nat /\ Len(p) = n /\ Len(q) = n /\ DOMAIN p = 1..n /\ DOMAIN q = 1..n
        /\ p \in Seq(Segments \cup {Wild}) /\ q \in Seq(Segments \cup {Wild})
        /\ \A i \in 1..n : p[i] \in {s[i], Wild} /\ q[i] \in {s[i], Wild} /\ s[i] # Wild
    BY PathFacts DEF Covers
  <1> HIDE DEF n
  <1>2. differ # {} /\ differ \in SUBSET Nat
    BY <1>1, SeqEqual
  <1>3. PICK i \in differ : \A j \in differ : i <= j
    <2> HIDE DEF differ
    <2> QED BY <1>2, LeastNumber
  <1>4. i \in 1..n /\ \A j \in 1..(i - 1) : p[j] = q[j]
    BY <1>1, <1>3
  <1>5. (p[i] # Wild /\ q[i] = Wild) \/ (q[i] # Wild /\ p[i] = Wild)
    BY <1>1, <1>3
  <1> QED BY <1>1, <1>4, <1>5 DEF SearchedBefore

LEMMA SearchIsTransitive ==
  ASSUME NEW p \in Paths, NEW q \in Paths, NEW r \in Paths, NEW n \in Nat,
         Len(p) = n, Len(q) = n, Len(r) = n, SearchedBefore(p, q), SearchedBefore(q, r)
  PROVE  SearchedBefore(p, r)
  <1>1. DOMAIN p = 1..n /\ DOMAIN q = 1..n
    BY PathFacts
  <1>2. PICK i \in 1..n : (\A j \in 1..(i - 1) : p[j] = q[j]) /\ p[i] # Wild /\ q[i] = Wild
    BY <1>1 DEF SearchedBefore
  <1>3. PICK k \in 1..n : (\A j \in 1..(k - 1) : q[j] = r[j]) /\ q[k] # Wild /\ r[k] = Wild
    BY <1>1 DEF SearchedBefore
  <1>4. CASE i < k
    <2>1. i \in 1..(k - 1) /\ \A j \in 1..(i - 1) : j \in 1..(k - 1)
      BY <1>4
    <2>2. r[i] = Wild /\ \A j \in 1..(i - 1) : p[j] = r[j]
      BY <1>2, <1>3, <2>1
    <2> QED BY <1>1, <1>2, <2>2 DEF SearchedBefore
  <1>5. CASE k < i
    <2>1. k \in 1..(i - 1) /\ \A j \in 1..(k - 1) : j \in 1..(i - 1)
      BY <1>5
    <2>2. p[k] # Wild /\ \A j \in 1..(k - 1) : p[j] = r[j]
      BY <1>2, <1>3, <2>1
    <2> QED BY <1>1, <1>3, <2>2 DEF SearchedBefore
  <1>6. i # k
    BY <1>2, <1>3
  <1> QED BY <1>4, <1>5, <1>6

LEMMA FoundIsFinite ==
  ASSUME NEW T, NEW s \in Subjects
  PROVE  IsFiniteSet(Found(T, s))
  <1> DEFINE F == Found(T, s)
             n == Len(s)
             exact == [p \in F |-> {i \in 1..n : p[i] # Wild}]
  <1>1. /\ n \in Nat /\ F \subseteq Paths
        /\ \A p \in F : Len(p) = n /\ p \in Seq(Segments \cup {Wild})
        /\ \A p \in F : \A i \in 1..n : p[i] \in {s[i], Wild} /\ s[i] # Wild
    BY PathFacts DEF Found, Covers
  <1> HIDE DEF F, n
  <1>2. exact \in [F -> SUBSET (1..n)]
    OBVIOUS
  <1>3. ASSUME NEW p \in F, NEW q \in F, exact[p] = exact[q] PROVE p = q
    <2>1. \A i \in 1..n : p[i] # Wild <=> q[i] # Wild
      BY <1>3
    <2>2. \A i \in 1..n : p[i] = q[i]
      BY <1>1, <2>1
    <2> QED BY <1>1, <2>2, SeqEqual
  <1>4. exact \in Injection(F, SUBSET (1..n))
    <2> HIDE DEF exact
    <2> QED BY <1>2, <1>3 DEF Injection, IsInjective
  <1>5. IsFiniteSet(SUBSET (1..n))
    <2>1. IsFiniteSet(1..n)
      BY <1>1, FS_Interval
    <2> QED BY <2>1, FS_SUBSET
  <1> QED BY <1>4, <1>5, FS_Injection DEF F

LEMMA BestExists ==
  ASSUME NEW f, NEW T, GoodTrie(T, f), NEW s \in Subjects, Found(T, s) # {}
  PROVE  \E p \in Found(T, s) : \A q \in Found(T, s) \ {p} : Ahead(T, p, q)
  <1> DEFINE F == Found(T, s)
             Best(p, X) == \A q \in X \ {p} : Ahead(T, p, q)
             lack == {X \in SUBSET F : X # {} /\ ~\E p \in X : Best(p, X)}
  <1>1. /\ \A p \in F : p \in Paths /\ Covers(p, s) /\ Specificity(T, p) \in Nat
        /\ \A p \in F : Len(p) = Len(s)
        /\ Len(s) \in Nat
    BY SpecificityIsNumber, PathFacts DEF Found, Covers
  <1>2. IsFiniteSet(F)
    BY FoundIsFinite
  <1> HIDE DEF F
  <1>3. ASSUME NEW p \in F, NEW q \in F, p # q PROVE Ahead(T, p, q) \/ Ahead(T, q, p)
    <2>1. SearchedBefore(p, q) \/ SearchedBefore(q, p)
      BY <1>1, <1>3, SearchIsTotal
    <2> QED BY <1>1, <2>1 DEF Ahead
  <1>4. ASSUME NEW p \in F, NEW q \in F, NEW r \in F, Ahead(T, p, q), Ahead(T, q, r)
        PROVE  Ahead(T, p, r)
    <2>1. SearchedBefore(p, q) /\ SearchedBefore(q, r) => SearchedBefore(p, r)
      BY <1>1, SearchIsTransitive
    <2> QED BY <1>1, <1>4, <2>1 DEF Ahead
  <1>5. lack \subseteq FiniteSubsetsOf(F)
    BY <1>2, FS_Subset DEF FiniteSubsetsOf
  <1>6. ASSUME lack # {} PROVE FALSE
    <2>1. PICK X \in lack : \A Y \in lack : ~(<<Y, X>> \in StrictSubsetOrdering(F))
      <3> HIDE DEF lack
      <3> QED BY <1>5, <1>6, FS_StrictSubsetOrderingWellFounded, WFMin
    <2>2. X \in SUBSET F /\ X # {} /\ ~\E p \in X : Best(p, X)
      BY <2>1
    <2>3. PICK x \in X : TRUE
      BY <2>2
    <2> DEFINE Y == X \ {x}
    <2>4. Y \in SUBSET F /\ <<Y, X>> \in StrictSubsetOrdering(F)
      BY <2>2 DEF StrictSubsetOrdering
    <2>5. Y \notin lack
      BY <2>1, <2>4
    <2>6. Y # {}
      <3> SUFFICES ASSUME Y = {} PROVE Best(x, X)
        BY <2>2
      <3> QED OBVIOUS
    <2>7. PICK b \in Y : Best(b, Y)
      BY <2>4, <2>5, <2>6
    <2>8. b \in F /\ x \in F /\ b # x /\ b \in X
      BY <2>2
    <2>9. CASE Ahead(T, b, x)
      <3>1. Best(b, X)
        BY <2>7, <2>9
      <3> QED BY <2>2, <2>8, <3>1
    <2>10. CASE Ahead(T, x, b)
      <3>1. ASSUME NEW q \in X \ {x} PROVE Ahead(T, x, q)
        <4>1. q = b \/ Ahead(T, b, q)
          BY <2>7
        <4> QED BY <1>4, <2>2, <2>8, <2>10, <4>1
      <3> QED BY <2>2, <3>1
    <2> QED BY <1>3, <2>8, <2>9, <2>10
  <1>7. F # {} /\ F \notin lack
    BY <1>6 DEF F
  <1> QED BY <1>7 DEF F

LEMMA MatchingPathFound ==
  ASSUME NEW f, NEW T, GoodTrie(T, f), NEW s \in Subjects
  PROVE  \A p \in MatchingPath(T, s) : p \in Paths /\ T[p] # <<>>
  <1>1. s \in Paths
    BY PathFacts
  <1>2. ASSUME Found(T, s) # {}, NEW p \in BestOf(T, Found(T, s)) PROVE p \in Found(T, s)
    <2>1. PICK b \in Found(T, s) : \A q \in Found(T, s) \ {b} : Ahead(T, b, q)
      BY <1>2, BestExists
    <2> QED BY <1>2, <2>1 DEF BestOf, Ahead
  <1> QED BY <1>1, <1>2 DEF MatchingPath, Found

-----------------------------------------------------------------------------
(* The tabs and what they share. *)

\* What is stored was some tab's trie, a tab that has nothing to save and nothing to hear
\* knows it, and it is there for good once the old format was imported.
TopicInv ==
  /\ format \in Formats
  /\ tab \in [Tabs -> [open: BOOLEAN, trie: [Paths -> Seq(Candidate)], dirty: BOOLEAN]]
  /\ \A t \in Tabs : GoodTrie(tab[t].trie, format)
  /\ storage # <<>> => \E T \in [Paths -> Seq(Candidate)] : storage = <<T>> /\ GoodTrie(T, format)
  /\ pending \subseteq {t \in Tabs : tab[t].open}
  /\ TabsAgree
  /\ format = "proto" /\ had => storage # <<>>
  /\ ~again

LEMMA TopicStarts == TopicInit => TopicInv
  <1> SUFFICES ASSUME TopicInit PROVE TopicInv
    OBVIOUS
  <1>1. GoodTrie(EmptyTrie, format) /\ EmptyTrie \in [Paths -> Seq(Candidate)]
    BY EmptyTrieGood DEF GoodTrie
  <1>2. \A t \in Tabs : tab[t] = [open |-> FALSE, trie |-> EmptyTrie, dirty |-> FALSE]
    BY DEF TopicInit
  <1> QED BY <1>1, <1>2 DEF TopicInit, TopicInv, TabsAgree

\* The other half of a step: what no action but the one of its own changes.
Keeping == UNCHANGED <<format, again>> /\ had' = (had \/ storage' # <<>>)

LEMMA StoredGood ==
  ASSUME TopicInv
  PROVE  GoodTrie(Stored, format) /\ Stored \in [Paths -> Seq(Candidate)]
  <1>1. GoodTrie(EmptyTrie, format)
    BY EmptyTrieGood
  <1>2. ASSUME storage # <<>> PROVE GoodTrie(storage[1], format)
    BY <1>2 DEF TopicInv
  <1>3. GoodTrie(Stored, format)
    BY <1>1, <1>2 DEF Stored
  <1> QED BY <1>3 DEF GoodTrie

LEMMA TabSet ==
  ASSUME TopicInv, NEW t \in Tabs, NEW T, GoodTrie(T, format), NEW d \in BOOLEAN, SetTab(t, T, d)
  PROVE  /\ tab' \in [Tabs -> [open: BOOLEAN, trie: [Paths -> Seq(Candidate)], dirty: BOOLEAN]]
         /\ tab'[t] = [open |-> tab[t].open, trie |-> T, dirty |-> d]
         /\ \A u \in Tabs : /\ GoodTrie(tab'[u].trie, format) /\ tab'[u].open = tab[u].open
                            /\ u # t => tab'[u] = tab[u]
  <1>1. tab[t] \in [open: BOOLEAN, trie: [Paths -> Seq(Candidate)], dirty: BOOLEAN]
    BY DEF TopicInv
  <1>2. T \in [Paths -> Seq(Candidate)]
    BY DEF GoodTrie
  <1> DEFINE new == [open |-> tab[t].open, trie |-> T, dirty |-> d]
  <1>4. new \in [open: BOOLEAN, trie: [Paths -> Seq(Candidate)], dirty: BOOLEAN]
    BY <1>1, <1>2
  <1>5. tab' = [tab EXCEPT ![t] = new]
    BY DEF SetTab
  <1>6. tab'[t] = new /\ \A u \in Tabs : u # t => tab'[u] = tab[u]
    BY <1>5 DEF TopicInv
  <1>7. tab' \in [Tabs -> [open: BOOLEAN, trie: [Paths -> Seq(Candidate)], dirty: BOOLEAN]]
    BY <1>4, <1>5 DEF TopicInv
  <1>8. \A u \in Tabs : GoodTrie(tab'[u].trie, format) /\ tab'[u].open = tab[u].open
    BY <1>6 DEF TopicInv
  <1> QED BY <1>6, <1>7, <1>8

LEMMA StoringKeeps ==
  ASSUME TopicInv, Keeping, NEW t \in Tabs, tab[t].open, NEW T, GoodTrie(T, format),
         SetTab(t, T, FALSE),
         \/ Write(t, <<T>>)
         \/ Write(t, <<>>) /\ T = EmptyTrie /\ format = "cddl"
  PROVE  TopicInv'
  <1>1. /\ tab' \in [Tabs -> [open: BOOLEAN, trie: [Paths -> Seq(Candidate)], dirty: BOOLEAN]]
        /\ tab'[t] = [open |-> tab[t].open, trie |-> T, dirty |-> FALSE]
        /\ \A u \in Tabs : /\ GoodTrie(tab'[u].trie, format) /\ tab'[u].open = tab[u].open
                           /\ u # t => tab'[u] = tab[u]
    BY TabSet
  <1>2. T \in [Paths -> Seq(Candidate)]
    BY DEF GoodTrie
  <1>3. Stored' = T
    BY DEF Write, Stored
  <1>4. pending' = IF storage' = storage THEN pending ELSE pending \cup {u \in Tabs \ {t} : tab[u].open}
    BY DEF Write
  <1>5. storage' = storage => Stored' = Stored
    BY DEF Stored
  <1>6. ASSUME NEW u \in Tabs, tab'[u].open, u \notin pending', ~tab'[u].dirty
        PROVE  tab'[u].trie = Stored'
    <2>1. CASE u = t
      BY <1>1, <1>3, <2>1
    <2>2. CASE u # t
      <3>1. tab'[u] = tab[u] /\ storage' = storage /\ u \notin pending
        BY <1>1, <1>4, <1>6, <2>2
      <3> QED BY <1>5, <1>6, <3>1 DEF TopicInv, TabsAgree
    <2> QED BY <2>1, <2>2
  <1>7. TabsAgree'
    BY <1>6 DEF TabsAgree
  <1>8. pending' \subseteq {u \in Tabs : tab'[u].open}
    BY <1>1, <1>4 DEF TopicInv
  <1>9. storage' # <<>> => storage' = <<T>>
    BY DEF Write
  <1>10. format = "proto" => storage' # <<>>
    BY DEF Write
  <1>11. format' = format /\ again' = again
    BY DEF Keeping
  <1> QED BY <1>1, <1>2, <1>7, <1>8, <1>9, <1>10, <1>11 DEF TopicInv

LEMMA UnsavedKeeps ==
  ASSUME TopicInv, Keeping, NEW t \in Tabs, NEW T, GoodTrie(T, format),
         SetTab(t, T, TRUE), UNCHANGED <<storage, pending>>
  PROVE  TopicInv'
  <1>1. /\ tab' \in [Tabs -> [open: BOOLEAN, trie: [Paths -> Seq(Candidate)], dirty: BOOLEAN]]
        /\ tab'[t] = [open |-> tab[t].open, trie |-> T, dirty |-> TRUE]
        /\ \A u \in Tabs : /\ GoodTrie(tab'[u].trie, format) /\ tab'[u].open = tab[u].open
                           /\ u # t => tab'[u] = tab[u]
    BY TabSet
  <1>2. TabsAgree'
    <2>1. Stored' = Stored
      BY DEF Stored
    <2>2. \A u \in Tabs : u # t /\ tab[u].open /\ u \notin pending /\ ~tab[u].dirty => tab[u].trie = Stored
      BY DEF TopicInv, TabsAgree
    <2>3. \A u \in Tabs : tab'[u].open /\ u \notin pending' /\ ~tab'[u].dirty => tab'[u].trie = Stored
      BY <1>1, <2>2
    <2> QED BY <2>1, <2>3 DEF TabsAgree
  <1>3. format' = format /\ again' = again /\ (had' => had \/ storage # <<>>)
    BY DEF Keeping
  <1>4. pending' \subseteq {u \in Tabs : tab'[u].open}
    BY <1>1 DEF TopicInv
  <1> QED BY <1>1, <1>2, <1>3, <1>4 DEF TopicInv

LEMMA SaveKeeps ==
  ASSUME TopicInv, Keeping, NEW t \in Tabs, tab[t].open, NEW T, GoodTrie(T, format), Save(t, T)
  PROVE  TopicInv'
  <1>1. GoodTrie(Cleanup(T), format)
    BY CleanupGood
  <1>2. CASE SaveDone(t, T)
    BY <1>2, StoringKeeps DEF SaveDone
  <1>3. CASE SaveSmaller(t, T)
    BY <1>1, <1>3, StoringKeeps DEF SaveDone, SaveSmaller
  <1>4. CASE SaveFails(t, T)
    <2> DEFINE U == IF format = "cddl" THEN Cleanup(T) ELSE T
    <2>1. GoodTrie(U, format)
      BY <1>1
    <2>2. SetTab(t, U, TRUE) /\ UNCHANGED <<storage, pending>>
      BY <1>4 DEF SaveFails
    <2> HIDE DEF U
    <2> QED BY <2>1, <2>2, UnsavedKeeps
  <1> QED BY <1>2, <1>3, <1>4 DEF Save

LEMMA WeakerGood ==
  ASSUME NEW T, GoodTrie(T, "cddl"), NEW s \in Subjects
  PROVE  GoodTrie([p \in Paths |-> IF p \in MatchingPath(T, s)
                                   THEN <<Weaker(T[p][1])>> \o Tail(T[p]) ELSE T[p]], "cddl")
  <1> DEFINE cell(p) == IF p \in MatchingPath(T, s)
                        THEN <<Weaker(T[p][1])>> \o Tail(T[p]) ELSE T[p]
  <1>1. ASSUME NEW p \in Paths PROVE GoodCell(cell(p), "cddl")
    <2>1. CASE p \in MatchingPath(T, s)
      <3>1. T[p] # <<>> /\ T[p] \in Seq(Candidate) /\ Len(T[p]) <= 1
        BY <2>1, MatchingPathFound DEF GoodTrie, GoodCell
      <3> DEFINE cs == T[p]
      <3>2. Len(cs) = 1 /\ cs[1] \in Candidate
        <4>1. cs \in Seq(Candidate) /\ cs # <<>> /\ Len(cs) <= 1
          BY <3>1
        <4> HIDE DEF cs
        <4>2. Len(cs) \in Nat \ {0}
          BY <4>1, EmptySeq
        <4>3. PICK n \in Nat \ {0} : n = Len(cs) /\ n <= 1
          BY <4>1, <4>2
        <4>4. Len(cs) = 1
          BY <4>3
        <4> QED BY <4>1, <4>4
      <3>3. Tail(cs) = <<>>
        <4>1. cs \in Seq(Candidate) /\ cs # <<>>
          BY <3>1
        <4> HIDE DEF cs
        <4>2. Tail(cs) \in Seq(Candidate) /\ Len(Tail(cs)) = 0
          BY <3>2, <4>1, HeadTailProperties
        <4> QED BY <4>2, EmptySeq
      <3>4. PICK c \in Candidate : c = cs[1]
        BY <3>2
      <3>5. Weaker(c) \in Candidate
        BY DEF Weaker, Candidate, Sure
      <3>6. cell(p) = <<Weaker(c)>> \o Tail(cs)
        BY <2>1, <3>4
      <3> HIDE DEF cs, cell
      <3>7. cell(p) = <<Weaker(c)>>
        <4>1. <<Weaker(c)>> \in Seq(Candidate)
          BY <3>5, OneCell DEF GoodCell
        <4>2. <<Weaker(c)>> \o <<>> = <<Weaker(c)>>
          BY <4>1, ConcatEmptySeq
        <4> QED BY <3>3, <3>6, <4>2
      <3> QED BY <3>5, <3>7, OneCell
    <2>2. CASE p \notin MatchingPath(T, s)
      BY <2>2 DEF GoodTrie
    <2> QED BY <2>1, <2>2
  <1> DEFINE W == [p \in Paths |-> cell(p)]
  <1>2. W \in [Paths -> Seq(Candidate)] /\ \A p \in Paths : GoodCell(W[p], "cddl")
    <2>1. \A p \in Paths : cell(p) \in Seq(Candidate)
      BY <1>1 DEF GoodCell
    <2> HIDE DEF cell
    <2> QED BY <1>1, <2>1
  <1> HIDE DEF cell, W
  <1>3. GoodTrie(W, "cddl")
    BY <1>2 DEF GoodTrie
  <1> QED BY <1>3 DEF W, cell

LEMMA IdleKeeps ==
  ASSUME TopicInv, UNCHANGED <<format, tab, storage, pending, again>>, had' => had \/ storage # <<>>
  PROVE  TopicInv'
  <1>1. TabsAgree'
    <2>1. Stored' = Stored
      BY DEF Stored
    <2> QED BY <2>1 DEF TopicInv, TabsAgree
  <1> QED BY <1>1 DEF TopicInv

LEMMA OperateKeeps ==
  ASSUME TopicInv, Keeping, NEW t \in Tabs, Operate(t)
  PROVE  TopicInv'
  <1> DEFINE T == tab[t].trie
  <1>1. tab[t].open /\ GoodTrie(T, format)
    BY DEF Operate, Operation, TopicInv
  <1>2. GoodTrie(EmptyTrie, format)
    BY EmptyTrieGood
  <1>3. CASE ClearRules(t)
    BY <1>1, <1>2, <1>3, StoringKeeps DEF ClearRules
  <1>4. CASE ClearCandidates(t)
    BY <1>1, <1>2, <1>4, SaveKeeps DEF ClearCandidates
  <1>5. ASSUME Idle(t) PROVE TopicInv'
    BY <1>5, IdleKeeps DEF Idle, Keeping
  <1>6. ASSUME NEW s \in Subjects, DecodeFailed(t, s) PROVE TopicInv'
    <2> DEFINE W == [p \in Paths |-> IF p \in MatchingPath(T, s)
                                     THEN <<Weaker(T[p][1])>> \o Tail(T[p]) ELSE T[p]]
    <2>1. format = "cddl" /\ Save(t, W)
      BY <1>6 DEF DecodeFailed
    <2>2. GoodTrie(W, format)
      BY <1>1, <2>1, WeakerGood
    <2> HIDE DEF W
    <2> QED BY <1>1, <2>1, <2>2, SaveKeeps
  <1>7. ASSUME NEW s \in Subjects, NEW ty \in Types, LearnedRule(t, s, ty) PROVE TopicInv'
    <2>1. format = "cddl" /\ (Idle(t) \/ Save(t, LearnRule(T, s, ty)))
      BY <1>7 DEF LearnedRule
    <2>2. GoodTrie(LearnRule(T, s, ty), format)
      BY <1>1, <2>1, LearnRuleGood
    <2> QED BY <1>1, <1>5, <2>1, <2>2, SaveKeeps
  <1>8. ASSUME NEW s \in Subjects, NEW ty \in Types, NEW prefer \in BOOLEAN,
               LearnedCandidate(t, s, ty, prefer)
        PROVE  TopicInv'
    <2>1. format = "proto" /\ (Idle(t) \/ Save(t, LearnCandidate(T, s, ty, prefer)))
      BY <1>8 DEF LearnedCandidate
    <2>2. GoodTrie(LearnCandidate(T, s, ty, prefer), format)
      BY <1>1, <2>1, LearnCandidateGood
    <2> QED BY <1>1, <1>5, <2>1, <2>2, SaveKeeps
  <1> QED BY <1>3, <1>4, <1>6, <1>7, <1>8 DEF Operate

LEMMA StorageHeard ==
  ASSUME TopicInv, Keeping, NEW t \in Tabs, OnStorageChange(t)
  PROVE  TopicInv'
  <1>1. GoodTrie(Stored, format)
    BY StoredGood
  <1>2. /\ tab' \in [Tabs -> [open: BOOLEAN, trie: [Paths -> Seq(Candidate)], dirty: BOOLEAN]]
        /\ tab'[t] = [open |-> tab[t].open, trie |-> Stored, dirty |-> FALSE]
        /\ \A u \in Tabs : /\ GoodTrie(tab'[u].trie, format) /\ tab'[u].open = tab[u].open
                           /\ u # t => tab'[u] = tab[u]
    BY <1>1, TabSet DEF OnStorageChange
  <1>3. pending' = pending \ {t} /\ storage' = storage
    BY DEF OnStorageChange
  <1>4. TabsAgree'
    <2>1. Stored' = Stored
      BY <1>3 DEF Stored
    <2>2. \A u \in Tabs : u # t /\ tab[u].open /\ u \notin pending /\ ~tab[u].dirty => tab[u].trie = Stored
      BY DEF TopicInv, TabsAgree
    <2>3. ASSUME NEW u \in Tabs, tab'[u].open, u \notin pending', ~tab'[u].dirty
          PROVE  tab'[u].trie = Stored
      <3>1. CASE u = t
        BY <1>2, <3>1
      <3>2. CASE u # t
        <4>1. tab'[u] = tab[u] /\ u \notin pending
          BY <1>2, <1>3, <2>3, <3>2
        <4> QED BY <2>2, <2>3, <3>2, <4>1
      <3> QED BY <3>1, <3>2
    <2> QED BY <2>1, <2>3 DEF TabsAgree
  <1>5. pending' \subseteq {u \in Tabs : tab'[u].open}
    BY <1>2, <1>3 DEF TopicInv
  <1>6. format' = format /\ again' = again /\ (had' => had \/ storage' # <<>>)
    BY DEF Keeping
  <1> QED BY <1>2, <1>3, <1>4, <1>5, <1>6 DEF TopicInv

\* What a tab is when it is opened or closed.
LEMMA TabReplaced ==
  ASSUME TopicInv, NEW t \in Tabs, NEW o \in BOOLEAN, NEW T, GoodTrie(T, format), NEW d \in BOOLEAN,
         tab' = [tab EXCEPT ![t] = [open |-> o, trie |-> T, dirty |-> d]]
  PROVE  /\ tab' \in [Tabs -> [open: BOOLEAN, trie: [Paths -> Seq(Candidate)], dirty: BOOLEAN]]
         /\ tab'[t] = [open |-> o, trie |-> T, dirty |-> d]
         /\ \A u \in Tabs : GoodTrie(tab'[u].trie, format) /\ (u # t => tab'[u] = tab[u])
  <1> DEFINE new == [open |-> o, trie |-> T, dirty |-> d]
  <1>1. new \in [open: BOOLEAN, trie: [Paths -> Seq(Candidate)], dirty: BOOLEAN] /\ new.trie = T
    BY DEF GoodTrie
  <1> HIDE DEF new
  <1>2. tab' = [tab EXCEPT ![t] = new]
    BY DEF new
  <1>3. /\ tab' \in [Tabs -> [open: BOOLEAN, trie: [Paths -> Seq(Candidate)], dirty: BOOLEAN]]
        /\ tab'[t] = new /\ \A u \in Tabs : u # t => tab'[u] = tab[u]
    BY <1>1, <1>2 DEF TopicInv
  <1>4. \A u \in Tabs : GoodTrie(tab'[u].trie, format)
    BY <1>1, <1>3 DEF TopicInv
  <1> QED BY <1>3, <1>4 DEF new

LEMMA OpenKeeps ==
  ASSUME TopicInv, NEW t \in Tabs, Open(t), had' = (had \/ storage' # <<>>)
  PROVE  TopicInv'
  <1>1. /\ GoodTrie(Stored, format) /\ GoodTrie(OldTrie, format)
        /\ OldTrie \in [Paths -> Seq(Candidate)]
    BY StoredGood, OldTrieGood DEF GoodTrie
  <1>2. \A u \in Tabs : tab[u].open /\ u \notin pending /\ ~tab[u].dirty => tab[u].trie = Stored
    BY DEF TopicInv, TabsAgree
  <1>3. ~tab[t].open /\ format' = format /\ t \notin pending /\ ~again
        /\ pending \subseteq {u \in Tabs : tab[u].open}
    BY DEF Open, TopicInv
  <1>4. CASE format = "proto" /\ storage = <<>>
    <2>1. ~had /\ ~again'
      BY <1>3, <1>4 DEF Open, TopicInv
    <2>2. CASE /\ storage' = <<OldTrie>> /\ pending' = {u \in Tabs : tab[u].open}
               /\ tab' = [tab EXCEPT ![t] = [open |-> TRUE, trie |-> OldTrie, dirty |-> FALSE]]
      <3>1. /\ tab' \in [Tabs -> [open: BOOLEAN, trie: [Paths -> Seq(Candidate)], dirty: BOOLEAN]]
            /\ tab'[t] = [open |-> TRUE, trie |-> OldTrie, dirty |-> FALSE]
            /\ \A u \in Tabs : GoodTrie(tab'[u].trie, format) /\ (u # t => tab'[u] = tab[u])
        BY <1>1, <2>2, TabReplaced
      <3>2. Stored' = OldTrie
        BY <2>2 DEF Stored
      <3>3. \A u \in Tabs : tab'[u].open /\ u \notin pending' => u = t
        BY <2>2, <3>1
      <3>4. TabsAgree'
        BY <3>1, <3>2, <3>3 DEF TabsAgree
      <3>5. pending' \subseteq {u \in Tabs : tab'[u].open}
        BY <1>3, <2>2, <3>1
      <3>6. storage' # <<>>
        BY <2>2
      <3> QED BY <1>1, <1>3, <2>1, <2>2, <3>1, <3>4, <3>5, <3>6 DEF TopicInv
    <2>3. CASE /\ tab' = [tab EXCEPT ![t] = [open |-> TRUE, trie |-> OldTrie, dirty |-> TRUE]]
               /\ UNCHANGED <<storage, pending>>
      <3>1. /\ tab' \in [Tabs -> [open: BOOLEAN, trie: [Paths -> Seq(Candidate)], dirty: BOOLEAN]]
            /\ tab'[t] = [open |-> TRUE, trie |-> OldTrie, dirty |-> TRUE]
            /\ \A u \in Tabs : GoodTrie(tab'[u].trie, format) /\ (u # t => tab'[u] = tab[u])
        BY <1>1, <2>3, TabReplaced
      <3>2. Stored' = Stored
        BY <2>3 DEF Stored
      <3>3. \A u \in Tabs : tab'[u].open /\ u \notin pending' /\ ~tab'[u].dirty => tab'[u].trie = Stored
        BY <1>2, <2>3, <3>1
      <3>4. TabsAgree'
        BY <3>2, <3>3 DEF TabsAgree
      <3>5. pending' \subseteq {u \in Tabs : tab'[u].open}
        BY <1>3, <2>3, <3>1
      <3>6. ~had'
        BY <1>4, <2>1, <2>3
      <3> QED BY <1>3, <1>4, <2>1, <2>3, <3>1, <3>4, <3>5, <3>6 DEF TopicInv
    <2> QED BY <1>4, <2>2, <2>3 DEF Open
  <1>5. CASE ~(format = "proto" /\ storage = <<>>)
    <2>1. /\ tab' = [tab EXCEPT ![t] = [open |-> TRUE, trie |-> Stored, dirty |-> FALSE]]
          /\ UNCHANGED <<storage, pending, again>>
      BY <1>5 DEF Open
    <2>2. /\ tab' \in [Tabs -> [open: BOOLEAN, trie: [Paths -> Seq(Candidate)], dirty: BOOLEAN]]
          /\ tab'[t] = [open |-> TRUE, trie |-> Stored, dirty |-> FALSE]
          /\ \A u \in Tabs : GoodTrie(tab'[u].trie, format) /\ (u # t => tab'[u] = tab[u])
      BY <1>1, <2>1, TabReplaced
    <2>3. Stored' = Stored
      BY <2>1 DEF Stored
    <2>4. \A u \in Tabs : tab'[u].open /\ u \notin pending' /\ ~tab'[u].dirty => tab'[u].trie = Stored
      BY <1>2, <2>1, <2>2
    <2>5. TabsAgree'
      BY <2>3, <2>4 DEF TabsAgree
    <2>6. pending' \subseteq {u \in Tabs : tab'[u].open}
      BY <1>3, <2>1, <2>2
    <2> QED BY <1>3, <1>5, <2>1, <2>2, <2>5, <2>6 DEF TopicInv
  <1> QED BY <1>4, <1>5

LEMMA CloseKeeps ==
  ASSUME TopicInv, Keeping, NEW t \in Tabs, Close(t)
  PROVE  TopicInv'
  <1>1. GoodTrie(EmptyTrie, format)
    BY EmptyTrieGood
  <1>2. /\ tab' \in [Tabs -> [open: BOOLEAN, trie: [Paths -> Seq(Candidate)], dirty: BOOLEAN]]
        /\ tab'[t] = [open |-> FALSE, trie |-> EmptyTrie, dirty |-> FALSE]
        /\ \A u \in Tabs : GoodTrie(tab'[u].trie, format) /\ (u # t => tab'[u] = tab[u])
    BY <1>1, TabReplaced DEF Close
  <1>3. \A u \in Tabs : tab[u].open /\ u \notin pending /\ ~tab[u].dirty => tab[u].trie = Stored
    BY DEF TopicInv, TabsAgree
  <1>4. /\ format' = format /\ again' = again /\ (had' => had \/ storage' # <<>>) /\ ~again
        /\ pending \subseteq {u \in Tabs : tab[u].open}
    BY DEF Keeping, TopicInv
  <1>5. CASE storage' = <<tab[t].trie>> /\ pending' = (pending \cup {u \in Tabs : tab[u].open}) \ {t}
    <2>1. \A u \in Tabs : tab'[u].open => u \in pending'
      BY <1>2, <1>5
    <2>2. TabsAgree'
      BY <2>1 DEF TabsAgree
    <2>3. pending' \subseteq {u \in Tabs : tab'[u].open}
      BY <1>2, <1>4, <1>5
    <2>4. /\ storage' # <<>> /\ tab[t].trie \in [Paths -> Seq(Candidate)]
          /\ GoodTrie(tab[t].trie, format)
      BY <1>5 DEF TopicInv
    <2> QED BY <1>2, <1>4, <1>5, <2>2, <2>3, <2>4 DEF TopicInv
  <1>6. CASE pending' = pending \ {t} /\ UNCHANGED storage
    <2>1. Stored' = Stored
      BY <1>6 DEF Stored
    <2>2. ASSUME NEW u \in Tabs, tab'[u].open, u \notin pending', ~tab'[u].dirty
          PROVE  tab'[u].trie = Stored
      <3>1. u # t
        BY <1>2, <2>2
      <3>2. tab'[u] = tab[u] /\ u \notin pending
        BY <1>2, <1>6, <2>2, <3>1
      <3> QED BY <1>3, <2>2, <3>2
    <2>3. TabsAgree'
      BY <2>1, <2>2 DEF TabsAgree
    <2>4. pending' \subseteq {u \in Tabs : tab'[u].open}
      BY <1>2, <1>4, <1>6
    <2> QED BY <1>2, <1>4, <1>6, <2>3, <2>4 DEF TopicInv
  <1> QED BY <1>5, <1>6 DEF Close

LEMMA TopicStep == TopicInv /\ [TopicNext]_topicVars => TopicInv'
  <1> SUFFICES ASSUME TopicInv, [TopicNext]_topicVars PROVE TopicInv'
    OBVIOUS
  <1>1. CASE UNCHANGED topicVars
    BY <1>1, IdleKeeps DEF topicVars
  <1>2. CASE TopicNext
    <2>1. PICK t \in Tabs : Operate(t) \/ OnStorageChange(t) \/ Open(t) \/ Close(t)
      BY <1>2 DEF TopicNext
    <2>2. had' = (had \/ storage' # <<>>)
      BY <1>2 DEF TopicNext
    <2>3. CASE Operate(t)
      <3>1. Keeping
        BY <2>2, <2>3 DEF Keeping, Operate, Operation
      <3> QED BY <2>3, <3>1, OperateKeeps
    <2>4. CASE OnStorageChange(t)
      <3>1. Keeping
        BY <2>2, <2>4 DEF Keeping, OnStorageChange
      <3> QED BY <2>4, <3>1, StorageHeard
    <2>5. CASE Open(t)
      BY <2>2, <2>5, OpenKeeps
    <2>6. CASE Close(t)
      <3>1. Keeping
        BY <2>2, <2>6 DEF Keeping, Close
      <3> QED BY <2>6, <3>1, CloseKeeps
    <2> QED BY <2>1, <2>3, <2>4, <2>5, <2>6
  <1> QED BY <1>1, <1>2

\* Every subject's types are counted once: as many as it has candidates.
LEMMA TypesCounted ==
  ASSUME NEW cs \in Seq(Candidate), Distinct(cs)
  PROVE  Cardinality({c.type : c \in {cs[i] : i \in DOMAIN cs}}) = Len(cs)
  <1> DEFINE types == {c.type : c \in {cs[i] : i \in DOMAIN cs}}
             n == Len(cs)
             typeAt == [i \in 1..n |-> cs[i].type]
  <1>1. n \in Nat /\ DOMAIN cs = 1..n
    BY LenProperties
  <1>2. types = {cs[i].type : i \in 1..n}
    BY <1>1
  <1>3. typeAt \in Surjection(1..n, types)
    <2> HIDE DEF types
    <2> QED BY <1>2 DEF Surjection
  <1>4. typeAt \in Injection(1..n, types)
    <2>1. typeAt \in [1..n -> types]
      BY <1>3 DEF Surjection
    <2>2. \A i, j \in 1..n : typeAt[i] = typeAt[j] => i = j
      BY DEF Distinct
    <2> HIDE DEF typeAt, types
    <2> QED BY <2>1, <2>2 DEF Injection, IsInjective
  <1>5. ExistsBijection(1..n, types)
    <2> HIDE DEF typeAt, types
    <2> QED BY <1>3, <1>4 DEF ExistsBijection, Bijection
  <1> HIDE DEF types, n
  <1>6. Cardinality(types) = n
    BY <1>1, <1>5, FS_CountingElements
  <1> QED BY <1>6 DEF types, n

\* TopicInv: the tabs of a browser that have saved what they know, and have heard of every
\* change, share one memory, and the memory of the old format is imported once
\* (ProtobufTopicCache.ts:100-140, CddlTopicCache.ts:127-160).
THEOREM TabsShareMemory == TopicSpec => []CachesSound
  <1>1. TopicInv => CachesSound
    <2> SUFFICES ASSUME TopicInv PROVE CachesSound
      OBVIOUS
    <2>1. ASSUME NEW t \in Tabs, NEW p \in Paths
          PROVE  /\ \A i \in DOMAIN tab[t].trie[p] : tab[t].trie[p][i] \in Candidate
                 /\ Cardinality({c.type : c \in {tab[t].trie[p][i] : i \in DOMAIN tab[t].trie[p]}})
                      = Len(tab[t].trie[p])
                 /\ format = "cddl" => Len(tab[t].trie[p]) <= 1
      <3>1. PICK cs : cs = tab[t].trie[p]
        OBVIOUS
      <3>2. GoodCell(cs, format)
        BY <3>1 DEF TopicInv, GoodTrie
      <3>3. cs \in Seq(Candidate) /\ Distinct(cs) /\ (format = "cddl" => Len(cs) <= 1)
        BY <3>2 DEF GoodCell
      <3>4. \A i \in DOMAIN cs : cs[i] \in Candidate
        BY <3>3
      <3>5. Cardinality({c.type : c \in {cs[i] : i \in DOMAIN cs}}) = Len(cs)
        BY <3>3, TypesCounted
      <3> QED BY <3>1, <3>3, <3>4, <3>5
    <2>2. \A t \in Tabs : tab[t].open \in BOOLEAN /\ tab[t].dirty \in BOOLEAN
      BY DEF TopicInv
    <2>3. TopicTypeOK
      BY <2>1, <2>2 DEF TopicInv, TopicTypeOK
    <2> QED BY <2>3 DEF TopicInv, CachesSound, ImportedOnce
  <1> QED BY TopicStarts, TopicStep, <1>1, PTL DEF TopicSpec

-----------------------------------------------------------------------------
(* What a subject is decoded under from one step to the next. *)

LEMMA CleanupCells ==
  ASSUME NEW T, GoodTrie(T, "cddl"), NEW p \in Paths
  PROVE  /\ Cleanup(T)[p] # <<>> => T[p] # <<>> /\ Cleanup(T)[p][1].type = T[p][1].type
         /\ T[p] # <<>> /\ T[p][1].conf >= 4 => Cleanup(T)[p] # <<>>
  <1> DEFINE cs == T[p]
             K == {i \in DOMAIN cs : cs[i].conf >= 4}
             P == Part(cs, K)
  <1>1. GoodCell(cs, "cddl") /\ cs \in Seq(Candidate) /\ Len(cs) <= 1 /\ DOMAIN cs = 1..Len(cs)
    BY DEF GoodTrie, GoodCell
  <1>2. Cleanup(T)[p] = P
    BY DEF Cleanup
  <1> HIDE DEF cs
  <1>3. K \in SUBSET (1..Len(cs))
    BY <1>1
  <1>4. /\ GoodCell(P, "cddl") /\ (K # {} => P # <<>>)
        /\ \A i \in 1..Len(P) : \E k \in K : P[i] = cs[k]
    <2> HIDE DEF K
    <2> QED BY <1>1, <1>3, PartGood
  <1>5. ASSUME P # <<>> PROVE cs # <<>> /\ P[1] = cs[1]
    <2>1. 1 \in 1..Len(P)
      BY <1>4, <1>5, EmptySeq DEF GoodCell
    <2>2. PICK k \in 1..Len(cs) : P[1] = cs[k]
      <3>1. \E k \in K : P[1] = cs[k]
        BY <1>4, <2>1
      <3> HIDE DEF K, P
      <3> QED BY <1>3, <3>1
    <2>3. k = 1
      BY <1>1, <2>2
    <2> QED BY <1>1, <2>2, <2>3
  <1>6. ASSUME cs # <<>>, cs[1].conf >= 4 PROVE P # <<>>
    <2>1. 1 \in K
      BY <1>1, <1>6, EmptySeq
    <2> HIDE DEF K, P
    <2>2. K # {}
      BY <2>1
    <2> QED BY <1>4, <2>2
  <1> QED BY <1>2, <1>5, <1>6 DEF cs

LEMMA ReadFirst ==
  ASSUME NEW T, NEW s \in Subjects, T[s] # <<>>
  PROVE  ReadUnder(T, s) = IF Valid(s) THEN {T[s][1].type} ELSE {}
  BY DEF ReadUnder, LookupPath, Preferred

\* What a tab knows after it has saved a trie, or has tried to.
LEMMA SavedTrie ==
  ASSUME TopicInv, NEW t \in Tabs, NEW T, GoodTrie(T, format), Save(t, T)
  PROVE  tab'[t].trie = T \/ (format = "cddl" /\ tab'[t].trie = Cleanup(T))
  <1>1. GoodTrie(Cleanup(T), format)
    BY CleanupGood
  <1>2. ASSUME NEW U, GoodTrie(U, format), NEW d \in BOOLEAN, SetTab(t, U, d) PROVE tab'[t].trie = U
    <2>1. tab'[t] = [open |-> tab[t].open, trie |-> U, dirty |-> d]
      BY <1>2, TabSet
    <2> QED BY <2>1
  <1>3. CASE SaveDone(t, T)
    BY <1>2, <1>3 DEF SaveDone
  <1>4. CASE SaveSmaller(t, T)
    BY <1>1, <1>2, <1>4 DEF SaveDone, SaveSmaller
  <1>5. CASE SaveFails(t, T)
    BY <1>1, <1>2, <1>5 DEF SaveFails
  <1> QED BY <1>3, <1>4, <1>5 DEF Save

LEMMA RulesKept ==
  ASSUME TopicInv, NEW t \in Tabs
  PROVE  KeepsRules(t)
  <1> DEFINE T == tab[t].trie
             N == tab'[t].trie
  <1>1. ASSUME N # T, NEW s \in Subjects, Valid(s), NEW ty \in Types, LearnedRule(t, s, ty)
        PROVE  /\ \/ ReadUnder(N, s) = {ty}
                  \/ Distrusted(T, s, ty) /\ N[s] = <<>>
               /\ \A u \in Subjects \ {s} :
                    T[u] # <<>> /\ N[u] # <<>> => ReadUnder(N, u) = ReadUnder(T, u)
    <2> DEFINE L == LearnRule(T, s, ty)
    <2>1. format = "cddl" /\ Save(t, L)
      BY <1>1 DEF LearnedRule
    <2>2. GoodTrie(T, "cddl")
      BY <2>1 DEF TopicInv
    <2>3. /\ GoodTrie(L, "cddl")
          /\ \E c \in Candidate : /\ L[s] = <<c>> /\ c.type = ty
                                  /\ c.conf >= 4 \/ Distrusted(T, s, ty)
          /\ \A u \in Subjects \ {s} :
               L[u] = T[u] \/ (T[u][1].type = ty /\ L[u][1].type = ty)
      BY <2>2, LearnRuleGood
    <2> HIDE DEF L
    <2>4. N = L \/ N = Cleanup(L)
      BY <2>1, <2>3, SavedTrie
    <2> HIDE DEF N, T
    <2>5. \A p \in Paths : N[p] # <<>> => L[p] # <<>> /\ N[p][1].type = L[p][1].type
      BY <2>3, <2>4, CleanupCells
    <2>6. \A p \in Paths : L[p] # <<>> /\ L[p][1].conf >= 4 => N[p] # <<>>
      BY <2>3, <2>4, CleanupCells
    <2>7. s \in Paths /\ \A u \in Subjects : u \in Paths
      BY PathFacts
    <2>8. L[s] # <<>> /\ L[s][1].type = ty /\ (L[s][1].conf >= 4 \/ Distrusted(T, s, ty))
      BY <2>3
    <2>9. ASSUME N[s] # <<>> PROVE ReadUnder(N, s) = {ty}
      BY <1>1, <2>5, <2>7, <2>8, <2>9, ReadFirst
    <2>10. ASSUME NEW u \in Subjects \ {s}, T[u] # <<>>, N[u] # <<>>
           PROVE  ReadUnder(N, u) = ReadUnder(T, u)
      <3>1. N[u][1].type = T[u][1].type
        BY <2>3, <2>5, <2>7, <2>10
      <3> QED BY <2>10, <3>1, ReadFirst
    <2> QED BY <2>6, <2>7, <2>8, <2>9, <2>10
  <1> QED BY <1>1 DEF KeepsRules

LEMMA CandidatesKept ==
  ASSUME TopicInv, format = "proto", [TopicNext]_topicVars, NEW t \in Tabs
  PROVE  KeepsCandidates(t)
  <1> DEFINE T == tab[t].trie
             N == tab'[t].trie
  <1> SUFFICES ASSUME NEW p \in Paths, tab[t].open, tab'[t].open, T[p] # <<>>, N[p] # <<>>,
                      t \notin pending \ pending'
               PROVE  N[p][1].type = T[p][1].type \/ (p \in Subjects /\ Chose(t, p))
    BY DEF KeepsCandidates, Preferred
  <1>1. GoodTrie(T, "proto") /\ tab \in [Tabs -> [open: BOOLEAN, trie: [Paths -> Seq(Candidate)], dirty: BOOLEAN]]
    BY DEF TopicInv
  <1>2. ASSUME tab'[t] = tab[t] PROVE N[p][1].type = T[p][1].type
    BY <1>2
  <1>3. CASE UNCHANGED topicVars
    BY <1>2, <1>3 DEF topicVars
  <1>4. CASE TopicNext
    <2>1. PICK u \in Tabs : Operate(u) \/ OnStorageChange(u) \/ Open(u) \/ Close(u)
      BY <1>4 DEF TopicNext
    <2>2. CASE u # t
      <3>1. ASSUME NEW U, NEW d, SetTab(u, U, d) PROVE tab'[t] = tab[t]
        BY <1>1, <2>2, <3>1 DEF SetTab
      <3>2. ASSUME NEW U, Save(u, U) PROVE tab'[t] = tab[t]
        BY <3>1, <3>2 DEF Save, SaveDone, SaveFails, SaveSmaller
      <3>3. CASE Operate(u)
        BY <3>1, <3>2, <3>3 DEF Operate, ClearRules, ClearCandidates, DecodeFailed, LearnedRule,
           LearnedCandidate, Idle
      <3>4. CASE OnStorageChange(u)
        BY <3>1, <3>4 DEF OnStorageChange
      <3>5. CASE Open(u) \/ Close(u)
        BY <1>1, <2>2, <3>5 DEF Open, Close
      <3> QED BY <1>2, <2>1, <3>3, <3>4, <3>5
    <2>3. CASE u = t
      <3>1. ~OnStorageChange(t) /\ ~Open(t) /\ ~Close(t)
        <4>1. ~OnStorageChange(t)
          BY DEF OnStorageChange
        <4>2. ~Open(t)
          BY DEF Open
        <4>3. ASSUME Close(t) PROVE FALSE
          <5>1. tab'[t] = [open |-> FALSE, trie |-> EmptyTrie, dirty |-> FALSE]
            BY <1>1, <4>3 DEF Close
          <5> QED BY <5>1
        <4> QED BY <4>1, <4>2, <4>3
      <3>2. CASE ClearCandidates(t)
        <4>1. N = EmptyTrie
          BY <3>2, EmptyTrieGood, SavedTrie DEF ClearCandidates
        <4> QED BY <4>1 DEF EmptyTrie
      <3>3. ASSUME NEW s \in Subjects, NEW ty \in Types, NEW prefer \in BOOLEAN,
                   LearnedCandidate(t, s, ty, prefer)
            PROVE  N[p][1].type = T[p][1].type \/ (p \in Subjects /\ Chose(t, p))
        <4> DEFINE L == LearnCandidate(T, s, ty, prefer)
        <4>1. CASE Idle(t)
          BY <1>2, <4>1 DEF Idle
        <4>2. CASE Save(t, L)
          <5>1. /\ GoodTrie(L, "proto")
                /\ \A q \in Paths : T[q] # <<>> /\ (prefer => q # s) => L[q][1].type = T[q][1].type
                /\ prefer => L[s][1].type = ty
            BY <1>1, LearnCandidateGood
          <5> HIDE DEF L
          <5>2. N = L
            BY <4>2, <5>1, SavedTrie
          <5>3. CASE prefer => p # s
            BY <5>1, <5>2, <5>3
          <5>4. CASE prefer /\ p = s
            <6>1. prefer = TRUE
              BY <5>4
            <6>2. LearnedCandidate(t, p, ty, TRUE) /\ N[p][1].type = ty
              BY <3>3, <5>1, <5>2, <5>4, <6>1
            <6>3. Chose(t, p)
              BY <6>2 DEF Chose, Preferred
            <6> QED BY <5>4, <6>3
          <5> QED BY <5>3, <5>4
        <4> QED BY <3>3, <4>1, <4>2 DEF LearnedCandidate
      <3>4. CASE Operate(t)
        <4>1. \/ ClearCandidates(t)
              \/ \E s \in Subjects, ty \in Types, prefer \in BOOLEAN : LearnedCandidate(t, s, ty, prefer)
          BY <3>4 DEF Operate, ClearRules, DecodeFailed, LearnedRule
        <4> QED BY <3>2, <3>3, <4>1
      <3> QED BY <2>1, <2>3, <3>1, <3>4
    <2> QED BY <2>2, <2>3
  <1> QED BY <1>3, <1>4

\* What is learned, from messages or into patterns, never changes what another subject is
\* decoded under, and what a message was read under is what its subject is looked up with from
\* then on, unless it had failed so often that a clean-up takes it away
\* (TopicTrie.ts:160-185, CandidateTopicTrie.ts:30-115, CddlTopicCache.ts:40-140).
THEOREM LearningKeepsPreferences == TopicSpec => PreferenceKept
  <1> DEFINE Kept == \A t \in Tabs : IF format = "proto" THEN KeepsCandidates(t) ELSE KeepsRules(t)
  <1>1. TopicInv /\ [TopicNext]_topicVars => [Kept]_topicVars
    BY RulesKept, CandidatesKept
  <1> QED BY TopicStarts, TopicStep, <1>1, PTL DEF TopicSpec, PreferenceKept

-----------------------------------------------------------------------------
(* Which rule a payload is read under. *)

Rule == RuleSet \cup {NoRule}
Answers == [rule: Rule, cached: BOOLEAN, stale: BOOLEAN, known: BOOLEAN]
Selection == [rule: Rule, cached: BOOLEAN, chosen: BOOLEAN]
Shown == [payload: Payloads \cup {NoPayload}, topic: Topics]
Memories == [Topics -> [rule: Rule, conf: 0..20]]
Fresh(e) == e.cached => ~e.stale /\ e.rule # NoRule

\* A rule that says what the loaded schemas say of a payload.
Right(r, p) == IF r = NoRule THEN Probe(p) = NoRule ELSE Holds(r, p)

\* An answer that is kept says what the schemas it was worked out against say.
KeptRight == \A m \in Messages : StillFor /\ kept[m].known => Right(kept[m].rule, m.payload)

\* What the last commit rendered stands until the schemas or the choice change.
PickedRight ==
  /\ seen \in [shown: Shown, loaded: 0..loaded, picked: Selection]
  /\ (/\ ~picked.chosen /\ ~seen.picked.chosen
      /\ seen.loaded = loaded /\ loaded # 0 /\ seen.shown.payload # NoPayload)
     => Right(picked.rule, seen.shown.payload)

\* The schemas that are read are never older than those that are loaded.
LoadsInv == \A i \in DOMAIN loads : loads[i] # 0 => loads[i] >= loaded

CddlInv == CddlTypeOK /\ KeptRight /\ PickedRight /\ LoadsInv /\ NeverSilent

LEMMA ContentFacts ==
  /\ Contents = 1..Len(RulesOf) /\ Len(RulesOf) \in Nat \ {0}
  /\ \A v \in Contents : RulesOf[v] \in Seq(RuleSet)
  <1>1. RulesOf \in Seq(Seq(RuleSet)) /\ RulesOf # <<>>
    BY CddlAssumption
  <1> QED BY <1>1, EmptySeq, LenProperties DEF Contents

LEMMA RulesTyped ==
  ASSUME CddlTypeOK
  PROVE  /\ Known \in Seq(RuleSet) /\ Usable \in Seq(RuleSet) /\ Probed \in Seq(RuleSet)
         /\ Usable # <<>> => Probed # <<>>
         /\ Known = <<>> => Usable = <<>>
  <1>1. Known \in Seq(RuleSet)
    <2>1. loaded \in 0..dir /\ dir \in Contents
      BY DEF CddlTypeOK
    <2>2. loaded # 0 => loaded \in Contents
      BY <2>1, ContentFacts
    <2> QED BY <2>2, ContentFacts DEF Known
  <1> DEFINE K == {i \in DOMAIN Known : <<loaded, FileOf[Known[i]]>> \notin Broken}
  <1>2. K \in SUBSET (1..Len(Known)) /\ Len(Known) \in Nat
    BY <1>1, LenProperties
  <1>3. Usable = Part(Known, K)
    BY DEF Usable
  <1> HIDE DEF K
  <1>4. Usable \in Seq(RuleSet) /\ Len(Usable) <= Len(Known)
    BY <1>1, <1>2, <1>3, PartFacts
  <1> DEFINE file(i) == FileOf[Usable[i]]
             J == {i \in DOMAIN Usable : Cardinality({file(j) : j \in 1..i}) <= MaxProbes}
  <1>5. J \in SUBSET (1..Len(Usable)) /\ Len(Usable) \in Nat
    BY <1>4, LenProperties
  <1>6. Probed = Part(Usable, J)
    BY DEF Probed
  <1>7. Usable # <<>> => 1 \in J
    <2> SUFFICES ASSUME Usable # <<>> PROVE 1 \in J
      OBVIOUS
    <2>1. 1 \in DOMAIN Usable
      BY <1>4, EmptySeq, LenProperties
    <2>2. {file(j) : j \in 1..1} = {file(1)}
      OBVIOUS
    <2>3. Cardinality({file(j) : j \in 1..1}) = 1
      BY <2>2, FS_Singleton
    <2> QED BY <2>1, <2>3, CddlAssumption
  <1> HIDE DEF file, J
  <1>8. /\ Probed \in Seq(RuleSet)
        /\ Usable # <<>> => Probed # <<>>
    <2>1. /\ Probed \in Seq(RuleSet) /\ Len(Probed) = Cardinality(J) /\ Cardinality(J) \in Nat
      BY <1>4, <1>5, <1>6, PartFacts
    <2>2. Usable # <<>> => Cardinality(J) # 0
      BY <1>5, <1>7, NumbersAreFinite, FS_EmptySet
    <2> QED BY <2>1, <2>2, EmptySeq
  <1>9. Known = <<>> => Usable = <<>>
    BY <1>2, <1>4, EmptySeq
  <1> QED BY <1>1, <1>4, <1>8, <1>9

LEMMA ProbeFacts ==
  ASSUME CddlTypeOK, NEW p
  PROVE  /\ Probe(p) \in Rule
         /\ Probe(p) # NoRule => Holds(Probe(p), p)
         /\ Probed = <<>> => Probe(p) = NoRule
  <1> DEFINE hits == {i \in DOMAIN Probed : Holds(Probed[i], p)}
             first == CHOOSE i \in hits : \A j \in hits : i <= j
  <1>1. Probed \in Seq(RuleSet) /\ DOMAIN Probed \subseteq Nat
    BY RulesTyped
  <1>2. CASE hits = {}
    BY <1>2 DEF Probe, Rule
  <1>3. CASE hits # {}
    <2>1. hits \in SUBSET Nat
      BY <1>1
    <2>2. \E i \in hits : \A j \in hits : i <= j
      <3> HIDE DEF hits
      <3> QED BY <1>3, <2>1, LeastNumber
    <2>3. first \in hits
      BY <2>2
    <2>4. Probe(p) = Probed[first]
      BY <1>3 DEF Probe
    <2>5. first \in DOMAIN Probed /\ Holds(Probed[first], p)
      BY <2>3
    <2> HIDE DEF first, hits
    <2>6. Probed[first] \in RuleSet /\ Probed # <<>>
      BY <1>1, <2>5
    <2> QED BY <2>4, <2>5, <2>6 DEF Rule
  <1> QED BY <1>2, <1>3

LEMMA RememberedFacts ==
  ASSUME CddlTypeOK, NEW s \in Topics
  PROVE  Remembered(s) \in Rule /\ (Known = <<>> => Remembered(s) = NoRule)
  <1>1. Known = <<>> => Usable = <<>>
    BY RulesTyped
  <1>2. memory[s].rule \in Rule
    BY DEF CddlTypeOK, Rule
  <1>3. Usable = <<>> => ~FileAmong(Usable, memory[s].rule)
    BY DEF FileAmong
  <1> QED BY <1>1, <1>2, <1>3 DEF Remembered, Rule

\* The answers of a payload, worked out now or kept.
LEMMA AnswerFacts ==
  ASSUME CddlTypeOK, KeptRight, NEW m \in Messages
  PROVE  /\ KeptNow \in [Messages -> Answers] /\ \A x \in Messages : Fresh(KeptNow[x])
         /\ Answer(m) \in Answers /\ Fresh(Answer(m)) /\ Answer(m).known
         /\ Right(Answer(m).rule, m.payload)
         /\ \A x \in Messages : KeptNow[x].known => StillFor /\ Right(KeptNow[x].rule, x.payload)
  <1>1. KeptNow \in [Messages -> Answers] /\ \A x \in Messages : Fresh(KeptNow[x])
    <2>1. CASE StillFor
      BY <2>1 DEF CddlTypeOK, KeptNow, Answers, Rule, Fresh
    <2>2. CASE ~StillFor
      <3>1. KeptNow = [x \in Messages |-> NoAnswer]
        BY <2>2 DEF KeptNow
      <3>2. NoAnswer \in Answers /\ ~NoAnswer.cached
        BY DEF NoAnswer, Answers, Rule
      <3> QED BY <3>1, <3>2 DEF Fresh
    <2> QED BY <2>1, <2>2
  <1>2. \A x \in Messages : KeptNow[x].known => StillFor /\ Right(KeptNow[x].rule, x.payload)
    <2> SUFFICES ASSUME NEW x \in Messages, KeptNow[x].known
                 PROVE  StillFor /\ Right(KeptNow[x].rule, x.payload)
      OBVIOUS
    <2>1. CASE StillFor
      BY <2>1 DEF KeptNow, KeptRight
    <2>2. CASE ~StillFor
      <3>1. KeptNow[x] = NoAnswer
        BY <2>2 DEF KeptNow
      <3> QED BY <3>1 DEF NoAnswer
    <2> QED BY <2>1, <2>2
  <1>3. Work(m) \in Answers /\ Fresh(Work(m)) /\ Work(m).known /\ Right(Work(m).rule, m.payload)
    <2> DEFINE r == Remembered(m.topic)
    <2>1. r \in Rule
      BY RememberedFacts DEF Messages
    <2>2. CASE r # NoRule /\ Holds(r, m.payload)
      <3>1. Work(m) = [rule |-> r, cached |-> TRUE, stale |-> FALSE, known |-> TRUE]
        BY <2>2 DEF Work
      <3> HIDE DEF r
      <3> QED BY <2>1, <2>2, <3>1 DEF Answers, Fresh, Right
    <2>3. CASE ~(r # NoRule /\ Holds(r, m.payload))
      <3>1. Work(m) = [rule |-> Probe(m.payload), cached |-> FALSE, stale |-> r # NoRule,
                       known |-> TRUE]
        BY <2>3 DEF Work
      <3> HIDE DEF r
      <3>2. /\ Probe(m.payload) \in Rule
            /\ Probe(m.payload) # NoRule => Holds(Probe(m.payload), m.payload)
        BY ProbeFacts
      <3> QED BY <3>1, <3>2 DEF Answers, Fresh, Right
    <2> QED BY <2>2, <2>3
  <1> QED BY <1>1, <1>2, <1>3 DEF Answer

-----------------------------------------------------------------------------
(* The steps. *)

LEMMA RightStays ==
  ASSUME loaded' = loaded
  PROVE  /\ \A r, p : Right(r, p)' <=> Right(r, p)
         /\ \A p : Probe(p)' = Probe(p)
         /\ Usable' = Usable
  <1>1. Known' = Known
    BY DEF Known
  <1>2. Usable' = Usable
    BY <1>1 DEF Usable
  <1>3. Probed' = Probed
    BY <1>2 DEF Probed
  <1>4. \A p : Probe(p)' = Probe(p)
    BY <1>3 DEF Probe, Holds
  <1> QED BY <1>2, <1>4 DEF Right, Holds

\* What working out an answer does to those that are kept, and to what was said.
LEMMA Resolving ==
  ASSUME CddlTypeOK, KeptRight, NeverSilent, NEW m \in Messages, Resolve(m), loaded' = loaded
  PROVE  /\ keptFor' = loaded /\ kept' \in [Messages -> Answers]
         /\ \A x \in Messages : Fresh(kept'[x])
         /\ KeptRight' /\ NeverSilent'
  <1>1. /\ KeptNow \in [Messages -> Answers] /\ \A x \in Messages : Fresh(KeptNow[x])
        /\ Answer(m) \in Answers /\ Fresh(Answer(m)) /\ Answer(m).known
        /\ Right(Answer(m).rule, m.payload)
        /\ \A x \in Messages : KeptNow[x].known => StillFor /\ Right(KeptNow[x].rule, x.payload)
    BY AnswerFacts
  <1>2. /\ keptFor' = loaded /\ kept' = [KeptNow EXCEPT ![m] = Answer(m)]
        /\ reported' = (IF StillFor THEN reported ELSE {})
             \cup (IF KeptNow[m].known \/ Answer(m).cached THEN {} ELSE ProbeReport(m))
    BY DEF Resolve
  <1>3. /\ kept' \in [Messages -> Answers] /\ kept'[m] = Answer(m)
        /\ \A x \in Messages : x # m => kept'[x] = KeptNow[x]
    BY <1>1, <1>2
  <1>4. \A x \in Messages : Fresh(kept'[x])
    BY <1>1, <1>3
  <1>5. KeptRight'
    <2> SUFFICES ASSUME NEW x \in Messages, kept'[x].known
                 PROVE  Right(kept[x].rule, x.payload)'
      BY DEF KeptRight
    <2>1. PICK r : r = kept'[x].rule
      OBVIOUS
    <2>2. Right(r, x.payload)
      BY <1>1, <1>3, <2>1
    <2>3. Right(r, x.payload)'
      BY <2>2, RightStays
    <2> QED BY <2>1, <2>3 DEF Right
  <1>6. NeverSilent'
    <2> SUFFICES ASSUME NEW x \in Messages, kept'[x].known, kept'[x].rule = NoRule, Usable # <<>>
                 PROVE  \E r \in reported' : r.what = "bound" \/ (r.what = "miss" /\ r.topic = x.topic)
      BY RightStays DEF NeverSilent
    <2>1. CASE KeptNow[x].known /\ KeptNow[x].rule = NoRule
      <3>1. StillFor
        BY <1>1, <2>1
      <3>2. kept[x].known /\ kept[x].rule = NoRule
        BY <2>1, <3>1 DEF KeptNow
      <3>3. \E r \in reported : r.what = "bound" \/ (r.what = "miss" /\ r.topic = x.topic)
        BY <3>1, <3>2 DEF NeverSilent
      <3> QED BY <1>2, <3>1, <3>3
    <2>2. CASE ~(KeptNow[x].known /\ KeptNow[x].rule = NoRule)
      <3>1. x = m /\ kept'[x] = Answer(m)
        BY <1>3, <2>2
      <3>2. ~KeptNow[m].known
        BY <2>2, <3>1 DEF Answer
      <3>3. Answer(m) = Work(m) /\ ~Answer(m).cached
        BY <1>1, <3>1, <3>2 DEF Answer, Fresh
      <3>4. Probe(m.payload) = NoRule
        BY <3>1, <1>1 DEF Right
      <3>5. Probed # <<>>
        BY RulesTyped
      <3>6. \/ [what |-> "bound", topic |-> "all"] \in ProbeReport(m)
            \/ [what |-> "miss", topic |-> m.topic] \in ProbeReport(m)
        BY <3>4, <3>5 DEF ProbeReport
      <3>7. ProbeReport(m) \subseteq reported'
        BY <1>2, <3>2, <3>3
      <3>8. CASE [what |-> "bound", topic |-> "all"] \in ProbeReport(m)
        <4> DEFINE r == [what |-> "bound", topic |-> "all"]
        <4>1. r \in reported' /\ r.what = "bound"
          BY <3>7, <3>8
        <4> QED BY <4>1
      <3>9. CASE [what |-> "miss", topic |-> m.topic] \in ProbeReport(m)
        <4> DEFINE r == [what |-> "miss", topic |-> m.topic]
        <4>1. r \in reported' /\ r.what = "miss" /\ r.topic = x.topic
          BY <3>1, <3>7, <3>9
        <4> QED BY <4>1
      <3> QED BY <3>6, <3>8, <3>9
    <2> QED BY <2>1, <2>2
  <1> QED BY <1>2, <1>3, <1>4, <1>5, <1>6

\* Learning and unlearning keep the memory of subjects well formed.
LEMMA Learning ==
  ASSUME CddlTypeOK, NEW mem \in Memories
  PROVE  /\ Learn(mem) \in Memories
         /\ [mem EXCEPT ![shown.topic] = Failed(mem[shown.topic])] \in Memories
  <1>1. shown.topic \in Topics /\ picked.rule \in Rule
    BY DEF CddlTypeOK, Rule
  <1> DEFINE e == mem[shown.topic]
  <1>2. e.rule \in Rule /\ e.conf \in 0..20
    BY <1>1 DEF Memories
  <1>3. Failed(e) \in [rule: Rule, conf: 0..20]
    <2> HIDE DEF e
    <2>1. (IF e.conf = 0 THEN 0 ELSE IF e.conf <= 5 THEN 2 ELSE e.conf - 3) \in 0..20
      BY <1>2
    <2> QED BY <1>2, <2>1 DEF Failed
  <1>4. Decoded(e, picked.rule) \in [rule: Rule, conf: 0..20]
    <2> HIDE DEF e
    <2>1. (IF e.rule = picked.rule /\ e.conf < 20 THEN e.conf + 1 ELSE 20) \in 0..20
      BY <1>2
    <2> QED BY <1>1, <2>1 DEF Decoded
  <1>5. /\ [mem EXCEPT ![shown.topic] = Failed(e)] \in Memories
        /\ [mem EXCEPT ![shown.topic] = Decoded(e, picked.rule)] \in Memories
    <2> HIDE DEF e
    <2> QED BY <1>1, <1>3, <1>4 DEF Memories
  <1>6. Learn(mem) \in {mem, [mem EXCEPT ![shown.topic] = Failed(e)],
                        [mem EXCEPT ![shown.topic] = Decoded(e, picked.rule)]}
    BY DEF Learn
  <1> QED BY <1>5, <1>6

\* A step that leaves the card, or the schemas, alone.
LEMMA CardStays ==
  ASSUME PickedRight, CddlTypeOK, UNCHANGED <<picked, seen>>, loaded' \in Nat, loaded' >= loaded
  PROVE  PickedRight'
  <1>1. loaded \in Nat /\ seen \in [shown: Shown, loaded: 0..loaded, picked: Selection]
    BY ContentFacts DEF PickedRight, CddlTypeOK
  <1>2. seen' \in [shown: Shown, loaded: 0..loaded', picked: Selection]
    BY <1>1
  <1>3. CASE loaded' = loaded
    <2>1. \A r, p : Right(r, p)' <=> Right(r, p)
      BY <1>3, RightStays
    <2> DEFINE calm == /\ ~picked.chosen /\ ~seen.picked.chosen
                       /\ seen.loaded = loaded /\ loaded # 0 /\ seen.shown.payload # NoPayload
    <2>2. calm => Right(picked.rule, seen.shown.payload)
      BY DEF PickedRight
    <2>3. calm' => calm
      BY <1>3
    <2>4. PICK r, p : r = picked.rule /\ p = seen.shown.payload
      OBVIOUS
    <2>5. calm' => Right(r, p)'
      BY <2>1, <2>2, <2>3, <2>4
    <2>6. Right(r, p)' => Right(picked.rule, seen.shown.payload)'
      BY <2>4 DEF Right
    <2> QED BY <1>2, <2>5, <2>6 DEF PickedRight
  <1>4. CASE loaded' # loaded
    <2>1. seen'.loaded # loaded'
      BY <1>1, <1>4
    <2> QED BY <1>2, <2>1 DEF PickedRight
  <1> QED BY <1>3, <1>4

LEMMA KeptStays ==
  ASSUME KeptRight, NeverSilent, UNCHANGED <<loaded, kept, keptFor>>, reported \subseteq reported'
  PROVE  KeptRight' /\ NeverSilent'
  <1>1. Usable' = Usable /\ \A r, p : Right(r, p)' <=> Right(r, p)
    BY RightStays
  <1>2. StillFor' <=> StillFor
    BY DEF StillFor
  <1>3. NeverSilent'
    BY <1>1, <1>2 DEF NeverSilent
  <1>4. KeptRight'
    <2> SUFFICES ASSUME NEW m \in Messages, StillFor', kept'[m].known
                 PROVE  Right(kept[m].rule, m.payload)'
      BY DEF KeptRight
    <2>1. PICK r : r = kept[m].rule
      OBVIOUS
    <2>2. Right(r, m.payload)
      BY <1>2, <2>1 DEF KeptRight
    <2>3. Right(r, m.payload)'
      BY <1>1, <2>2
    <2> QED BY <2>1, <2>3 DEF Right
  <1> QED BY <1>3, <1>4

LEMMA NothingProbed ==
  ASSUME CddlTypeOK, Usable = <<>>
  PROVE  Probed = <<>>
  <1> DEFINE J == {i \in DOMAIN Usable : Cardinality({FileOf[Usable[j]] : j \in 1..i}) <= MaxProbes}
  <1>1. Probed = Part(Usable, J)
    BY DEF Probed
  <1>2. J = {}
    OBVIOUS
  <1> HIDE DEF J
  <1> QED BY <1>1, <1>2, FS_EmptySet DEF Part

\* One commit of the card.
LEMMA Committing ==
  ASSUME CddlInv, Commit
  PROVE  CddlInv'
  <1>1. /\ seen' = [shown |-> shown, loaded |-> loaded, picked |-> picked]
        /\ UNCHANGED <<dir, loaded, loads, shown, choices>>
    BY DEF Commit, Store
  <1>2. /\ CddlTypeOK /\ KeptRight /\ NeverSilent /\ PickedRight
        /\ shown \in Shown /\ loaded \in Nat /\ picked \in Selection /\ memory \in Memories
        /\ kept \in [Messages -> Answers]
    BY ContentFacts DEF CddlInv, CddlTypeOK, Shown, Selection, Rule, Memories, Answers
  <1>3. seen' \in [shown: Shown, loaded: 0..loaded, picked: Selection]
    BY <1>1, <1>2
  <1>4. \A r, p : Right(r, p)' <=> Right(r, p)
    BY <1>1, RightStays
  <1>5. ASSUME SelectionDue, Select
        PROVE  /\ picked' \in Selection /\ Right(picked'.rule, shown.payload)
               /\ memory' \in Memories
               /\ keptFor' = loaded /\ kept' \in [Messages -> Answers]
               /\ \A x \in Messages : Fresh(kept'[x])
               /\ KeptRight' /\ NeverSilent'
    <2>1. shown \in Messages
      BY <1>2, <1>5 DEF Select, Shown, Messages
    <2>2. /\ Resolve(shown) /\ picked' = Picking(Answer(shown).rule, Answer(shown).cached)
          /\ memory' = Learn(IF Answer(shown).stale
                             THEN [memory EXCEPT ![shown.topic] = Failed(memory[shown.topic])]
                             ELSE memory)
      BY <1>5 DEF Commit
    <2>3. /\ Answer(shown).rule \in Rule /\ Answer(shown).cached \in BOOLEAN
          /\ Right(Answer(shown).rule, shown.payload)
      BY <1>2, <2>1, AnswerFacts DEF Answers
    <2>4. picked' \in Selection /\ Right(picked'.rule, shown.payload)
      <3>1. picked' = [rule |-> Answer(shown).rule, cached |-> Answer(shown).cached,
                       chosen |-> picked.chosen /\ ~NewMessage]
        BY <2>2 DEF Picking
      <3>2. (picked.chosen /\ ~NewMessage) \in BOOLEAN
        OBVIOUS
      <3> QED BY <2>3, <3>1, <3>2 DEF Selection
    <2>5. memory' \in Memories
      BY <1>2, <2>2, Learning
    <2> QED BY <1>1, <1>2, <2>1, <2>2, <2>4, <2>5, Resolving
  <1>6. ASSUME ~(SelectionDue /\ Select)
        PROVE  /\ picked' \in Selection /\ memory' \in Memories
               /\ (~SelectionDue \/ picked.chosen) => picked'.rule = picked.rule
               /\ (SelectionDue /\ ~picked.chosen) => picked'.rule = PickUnread
               /\ UNCHANGED <<kept, keptFor, reported>>
    <2>1. /\ picked' = IF SelectionDue /\ ~picked.chosen
                       THEN Picking(PickUnread, PickUnread # NoRule)
                       ELSE Picking(picked.rule, picked.cached)
          /\ memory' = Learn(memory) /\ UNCHANGED <<kept, keptFor, reported>>
      BY <1>6 DEF Commit
    <2>2. PickUnread \in Rule
      BY <1>2, RememberedFacts DEF PickUnread, Rule, Shown
    <2>3. memory' \in Memories
      BY <1>2, <2>1, Learning
    <2>4. ASSUME NEW r \in Rule, NEW b \in BOOLEAN
          PROVE  Picking(r, b) \in Selection /\ Picking(r, b).rule = r
      <3>1. (picked.chosen /\ ~NewMessage) \in BOOLEAN
        OBVIOUS
      <3> QED BY <3>1 DEF Picking, Selection
    <2>5. picked.rule \in Rule /\ picked.cached \in BOOLEAN /\ (PickUnread # NoRule) \in BOOLEAN
      BY <1>2 DEF Selection
    <2>6. CASE SelectionDue /\ ~picked.chosen
      BY <2>1, <2>2, <2>3, <2>4, <2>5, <2>6
    <2>7. CASE ~(SelectionDue /\ ~picked.chosen)
      BY <2>1, <2>3, <2>4, <2>5, <2>7
    <2> QED BY <2>6, <2>7
  <1>7. /\ keptFor' \in 0..loaded /\ kept' \in [Messages -> Answers]
        /\ \A x \in Messages : Fresh(kept'[x])
        /\ picked' \in Selection /\ memory' \in Memories /\ KeptRight' /\ NeverSilent'
    <2>1. CASE SelectionDue /\ Select
      BY <1>2, <1>5, <2>1
    <2>2. CASE ~(SelectionDue /\ Select)
      <3>1. keptFor' \in 0..loaded /\ \A x \in Messages : Fresh(kept'[x])
        BY <1>2, <1>6, <2>2 DEF CddlTypeOK, Fresh
      <3>2. KeptRight' /\ NeverSilent'
        BY <1>1, <1>2, <1>6, <2>2, KeptStays
      <3> QED BY <1>2, <1>6, <2>2, <3>1, <3>2
    <2> QED BY <2>1, <2>2
  <1>8. PickedRight'
    <2>1. ASSUME ~picked.chosen, loaded # 0, shown.payload # NoPayload
          PROVE  Right(picked'.rule, shown.payload)
      <3>1. CASE SelectionDue /\ Select
        BY <1>5, <3>1
      <3>2. CASE SelectionDue /\ ~Select
        <4>1. Known = <<>>
          BY <2>1, <3>2 DEF Select
        <4>2. picked'.rule = NoRule
          BY <1>6, <2>1, <3>2, <4>1 DEF PickUnread
        <4>3. Probe(shown.payload) = NoRule
          <5>1. Usable = <<>>
            BY <1>2, <4>1, RulesTyped
          <5>2. Probed = <<>>
            BY <1>2, <5>1, NothingProbed
          <5> QED BY <1>2, <5>2, ProbeFacts
        <4> QED BY <4>2, <4>3 DEF Right
      <3>3. CASE ~SelectionDue
        <4>1. /\ seen.shown = shown /\ seen.loaded = loaded
              /\ ~seen.picked.chosen
          BY <2>1, <3>3 DEF SelectionDue
        <4>2. Right(picked.rule, shown.payload)
          BY <1>2, <2>1, <4>1 DEF PickedRight
        <4> QED BY <1>6, <3>3, <4>2
      <3> QED BY <3>1, <3>2, <3>3
    <2>2. seen'.picked = picked /\ seen'.shown = shown
      BY <1>1
    <2>3. PICK r, p : r = picked'.rule /\ p = shown.payload
      OBVIOUS
    <2>4. (~picked.chosen /\ loaded # 0 /\ p # NoPayload) => Right(r, p)'
      BY <1>4, <2>1, <2>3
    <2>5. Right(r, p)' => Right(picked.rule, seen.shown.payload)'
      BY <2>2, <2>3 DEF Right
    <2> QED BY <1>1, <1>3, <2>2, <2>3, <2>4, <2>5 DEF PickedRight
  <1>9. CddlTypeOK'
    BY <1>1, <1>2, <1>7 DEF CddlTypeOK, Shown, Selection, Rule, Memories, Answers, Fresh
  <1>10. LoadsInv'
    BY <1>1 DEF CddlInv, LoadsInv
  <1> QED BY <1>7, <1>8, <1>9, <1>10 DEF CddlInv

-----------------------------------------------------------------------------
(* The theorem. *)

LEMMA CddlStarts == CddlInit => CddlInv
  <1> SUFFICES ASSUME CddlInit PROVE CddlInv
    OBVIOUS
  <1>1. /\ dir = 1 /\ loaded = 0 /\ loads = <<>> /\ keptFor = 0
        /\ kept = [m \in Messages |-> NoAnswer]
        /\ memory = [s \in Topics |-> [rule |-> NoRule, conf |-> 0]]
        /\ shown \in Shown
        /\ picked = [rule |-> NoRule, cached |-> FALSE, chosen |-> FALSE]
        /\ seen = [shown |-> shown, loaded |-> 0, picked |-> picked]
    BY DEF CddlInit, Shown
  <1>2. NoAnswer \in Answers /\ ~NoAnswer.cached /\ ~NoAnswer.known
    BY DEF NoAnswer, Answers, Rule
  <1>3. picked \in Selection
    BY <1>1 DEF Selection, Rule
  <1>4. CddlTypeOK
    <2>1. dir \in Contents /\ loaded \in 0..dir /\ keptFor \in 0..loaded
      BY <1>1, ContentFacts
    <2>2. loads \in Seq(0..dir) /\ Len(loads) <= 1
      BY <1>1
    <2>3. /\ kept \in [Messages -> Answers]
          /\ \A m \in Messages : kept[m].cached => ~kept[m].stale /\ kept[m].rule # NoRule
      BY <1>1, <1>2
    <2>4. memory \in Memories
      BY <1>1 DEF Memories, Rule
    <2> QED
      BY <1>1, <1>3, <2>1, <2>2, <2>3, <2>4 DEF CddlTypeOK, Answers, Memories, Shown, Selection, Rule
  <1>5. KeptRight /\ NeverSilent
    BY <1>1, <1>2 DEF KeptRight, NeverSilent
  <1>6. PickedRight
    <2>1. seen \in [shown: Shown, loaded: 0..loaded, picked: Selection]
      BY <1>1, <1>3
    <2> QED BY <1>1, <2>1 DEF PickedRight
  <1>7. LoadsInv
    BY <1>1 DEF LoadsInv
  <1> QED BY <1>4, <1>5, <1>6, <1>7 DEF CddlInv

\* The schemas are changed, asked for, read and taken.
LEMMA Loading ==
  ASSUME CddlInv, DirChanges \/ Load \/ \E i \in DOMAIN loads : LoadReads(i) \/ LoadEnds(i)
  PROVE  CddlInv'
  <1>1. /\ CddlTypeOK /\ KeptRight /\ NeverSilent /\ PickedRight /\ LoadsInv
        /\ dir \in Nat /\ loaded \in 0..dir /\ loads \in Seq(0..dir) /\ Len(loads) <= 1
        /\ Len(loads) \in Nat /\ dir \in Contents /\ keptFor \in 0..loaded
    BY ContentFacts, LenProperties DEF CddlInv, CddlTypeOK
  <1>2. UNCHANGED <<kept, keptFor, reported, memory, Card>>
    BY DEF DirChanges, Load, LoadReads, LoadEnds
  <1>3. /\ dir' \in Contents /\ dir' \in Nat /\ loaded' \in 0..dir' /\ loaded' >= loaded
        /\ loads' \in Seq(0..dir') /\ Len(loads') <= 1 /\ LoadsInv'
    <2>1. CASE DirChanges
      <3>1. /\ dir' = dir + 1 /\ dir' \in Contents /\ loaded' = loaded /\ loads' = loads
        BY <2>1 DEF DirChanges
      <3>2. loads' \in Seq(0..dir')
        <4>1. \A i \in 1..Len(loads) : loads[i] \in 0..dir'
          BY <1>1, <3>1
        <4>2. loads = [i \in 1..Len(loads) |-> loads[i]]
          BY <1>1
        <4> QED BY <1>1, <3>1, <4>1, <4>2
      <3> QED BY <1>1, <3>1, <3>2 DEF LoadsInv
    <2>2. CASE Load
      <3>1. loads' = <<0>> /\ UNCHANGED <<dir, loaded>>
        BY <2>2 DEF Load
      <3> QED BY <1>1, <3>1 DEF LoadsInv
    <2>3. ASSUME NEW i \in DOMAIN loads, LoadReads(i)
          PROVE  /\ UNCHANGED <<dir, loaded>>
                 /\ loads' \in Seq(0..dir) /\ Len(loads') <= 1 /\ LoadsInv'
      <3>1. /\ loads' = [loads EXCEPT ![i] = dir] /\ UNCHANGED <<dir, loaded>>
        BY <2>3 DEF LoadReads
      <3>2. /\ loads' \in Seq(0..dir) /\ Len(loads') = Len(loads)
            /\ \A j \in 1..Len(loads) : loads'[j] = IF j = i THEN dir ELSE loads[j]
        BY <1>1, <3>1, ExceptSeq
      <3>3. LoadsInv'
        BY <1>1, <3>1, <3>2 DEF LoadsInv
      <3> QED BY <1>1, <3>1, <3>2, <3>3
    <2>4. ASSUME NEW i \in DOMAIN loads, LoadEnds(i)
          PROVE  /\ dir' = dir /\ loaded' \in 0..dir /\ loaded' >= loaded
                 /\ loads' = <<>>
      <3>1. /\ loads' = [j \in 1..(Len(loads) - 1) |-> loads[IF j < i THEN j ELSE j + 1]]
            /\ loaded' \in {loaded} \cup ({loads[i]} \ {0}) /\ dir' = dir
        BY <2>4 DEF LoadEnds
      <3>2. Len(loads) = 1 /\ i = 1 /\ loads[i] \in 0..dir
        <4>1. DOMAIN loads = 1..Len(loads) /\ loads[i] \in 0..dir
          BY <1>1
        <4> QED BY <1>1, <4>1
      <3>3. loads' = <<>>
        BY <3>1, <3>2
      <3>4. loads[i] # 0 => loads[i] >= loaded
        BY <1>1 DEF LoadsInv
      <3> QED BY <1>1, <3>1, <3>2, <3>3, <3>4
    <2>5. \A i \in DOMAIN loads : LoadEnds(i) => LoadsInv'
      BY <2>4 DEF LoadsInv
    <2>6. \A i \in DOMAIN loads : LoadEnds(i) => loads' \in Seq(0..dir') /\ Len(loads') <= 1
      <3>1. <<>> \in Seq(0..dir') /\ Len(<<>>) <= 1
        OBVIOUS
      <3> QED BY <2>4, <3>1
    <2> QED BY <1>1, <2>1, <2>2, <2>3, <2>4, <2>5, <2>6
  <1>4. PickedRight'
    BY <1>1, <1>2, <1>3, CardStays DEF Card
  <1>5. KeptRight' /\ NeverSilent'
    <2>1. CASE loaded' = loaded
      BY <1>1, <1>2, <2>1, KeptStays
    <2>2. CASE loaded' # loaded
      <3>1. ~StillFor'
        BY <1>1, <1>2, <1>3, <2>2 DEF StillFor
      <3> QED BY <3>1 DEF KeptRight, NeverSilent
    <2> QED BY <2>1, <2>2
  <1>6. CddlTypeOK'
    <2>1. keptFor' \in 0..loaded'
      BY <1>1, <1>2, <1>3
    <2> QED BY <1>1, <1>2, <1>3, <2>1 DEF CddlTypeOK, Card
  <1> QED BY <1>3, <1>4, <1>5, <1>6 DEF CddlInv

\* What the user does with the card, and the rows of lists.
LEMMA Using ==
  ASSUME CddlInv,
         \/ ChooseRule \/ ChooseNone \/ AutoDetect
         \/ \E m \in Messages : Row(m)
         \/ \E p \in Payloads \cup {NoPayload}, s \in Topics : Show(p, s)
  PROVE  CddlInv'
  <1>1. CddlTypeOK /\ KeptRight /\ NeverSilent /\ PickedRight /\ LoadsInv /\ loaded \in Nat
    BY ContentFacts DEF CddlInv, CddlTypeOK
  <1>2. ASSUME UNCHANGED Store PROVE LoadsInv'
    BY <1>1, <1>2 DEF LoadsInv, Store
  <1>3. ASSUME NEW r \in Rule, Choosing(r), reported \subseteq reported'
        PROVE  CddlInv'
    <2>1. /\ picked' = [rule |-> r, cached |-> FALSE, chosen |-> TRUE]
          /\ UNCHANGED <<Store, kept, keptFor, memory, shown, seen>>
      BY <1>3 DEF Choosing
    <2>2. picked' \in Selection /\ picked'.chosen
      BY <2>1 DEF Selection
    <2>3. PickedRight'
      <3>1. seen' \in [shown: Shown, loaded: 0..loaded', picked: Selection]
        BY <1>1, <2>1 DEF PickedRight, Store
      <3> QED BY <2>2, <3>1 DEF PickedRight
    <2>4. KeptRight' /\ NeverSilent'
      BY <1>1, <1>3, <2>1, KeptStays DEF Store
    <2>5. CddlTypeOK'
      BY <1>1, <2>1, <2>2 DEF CddlTypeOK, Selection, Rule, Store
    <2> QED BY <1>2, <2>1, <2>3, <2>4, <2>5 DEF CddlInv
  <1>4. CASE ChooseRule
    <2>1. PICK i \in DOMAIN Usable : Choosing(Usable[i]) /\ UNCHANGED reported
      BY <1>4 DEF ChooseRule
    <2>2. Usable[i] \in Rule
      BY <1>1, RulesTyped DEF Rule
    <2> QED BY <1>3, <2>1, <2>2
  <1>5. CASE ChooseNone
    <2>1. Choosing(NoRule) /\ UNCHANGED reported /\ NoRule \in Rule
      BY <1>5 DEF ChooseNone, Rule
    <2> QED BY <1>3, <2>1
  <1>6. CASE AutoDetect
    <2>1. reported \subseteq reported'
      BY <1>6 DEF AutoDetect
    <2>2. CASE Probe(shown.payload) # NoRule
      <3>1. Choosing(Probe(shown.payload)) /\ Probe(shown.payload) \in Rule
        BY <1>1, <1>6, <2>2, ProbeFacts DEF AutoDetect
      <3> QED BY <1>3, <2>1, <3>1
    <2>3. CASE Probe(shown.payload) = NoRule
      <3>1. UNCHANGED <<Store, kept, keptFor, memory, Card>>
        BY <1>6, <2>3 DEF AutoDetect
      <3>2. PickedRight' /\ KeptRight' /\ NeverSilent'
        BY <1>1, <2>1, <3>1, CardStays, KeptStays DEF Card, Store
      <3>3. CddlTypeOK'
        BY <1>1, <3>1 DEF CddlTypeOK, Card, Store
      <3> QED BY <1>2, <3>1, <3>2, <3>3 DEF CddlInv
    <2> QED BY <2>2, <2>3
  <1>7. ASSUME NEW m \in Messages, Row(m) PROVE CddlInv'
    <2>1. Resolve(m) /\ UNCHANGED <<Store, memory, Card>>
      BY <1>7 DEF Row
    <2>2. /\ keptFor' = loaded /\ kept' \in [Messages -> Answers]
          /\ \A x \in Messages : Fresh(kept'[x])
          /\ KeptRight' /\ NeverSilent'
      BY <1>1, <2>1, Resolving DEF Store
    <2>3. PickedRight'
      BY <1>1, <2>1, CardStays DEF Card, Store
    <2>4. CddlTypeOK'
      BY <1>1, <2>1, <2>2 DEF CddlTypeOK, Answers, Fresh, Rule, Card, Store
    <2> QED BY <1>2, <2>1, <2>2, <2>3, <2>4 DEF CddlInv
  <1>8. ASSUME NEW p \in Payloads \cup {NoPayload}, NEW s \in Topics, Show(p, s) PROVE CddlInv'
    <2>1. /\ shown' = [payload |-> p, topic |-> s]
          /\ UNCHANGED <<Store, kept, keptFor, reported, memory, picked, seen>>
      BY <1>8 DEF Show
    <2>2. PickedRight' /\ KeptRight' /\ NeverSilent'
      BY <1>1, <2>1, CardStays, KeptStays DEF Store
    <2>3. CddlTypeOK'
      BY <1>1, <2>1 DEF CddlTypeOK, Store
    <2> QED BY <1>2, <2>1, <2>2, <2>3 DEF CddlInv
  <1> QED BY <1>4, <1>5, <1>6, <1>7, <1>8

\* Once its effects have run, a card nobody chose a rule for shows its payload under a rule of
\* the schemas that are loaded which it satisfies, if any of those tried does; and a payload
\* is never left undetected without saying so (cbor/resolve.ts:68-224, useCddlSchema.ts:55-140).
THEOREM RulesStaySound == CddlSpec => []RulesSound
  <1>1. CddlInv /\ [CddlNext]_cddlVars => CddlInv'
    <2> SUFFICES ASSUME CddlInv, [CddlNext]_cddlVars PROVE CddlInv'
      OBVIOUS
    <2>1. CASE Commit
      BY <2>1, Committing
    <2>2. CASE DirChanges \/ Load \/ \E i \in DOMAIN loads : LoadReads(i) \/ LoadEnds(i)
      BY <2>2, Loading
    <2>3. CASE \/ ChooseRule \/ ChooseNone \/ AutoDetect
               \/ \E m \in Messages : Row(m)
               \/ \E p \in Payloads \cup {NoPayload}, s \in Topics : Show(p, s)
      BY <2>3, Using
    <2>4. CASE UNCHANGED cddlVars
      <3>1. UNCHANGED <<dir, loaded, loads, kept, keptFor, reported, memory, shown, picked, seen>>
        BY <2>4 DEF cddlVars
      <3>2. loaded \in Nat
        BY ContentFacts DEF CddlInv, CddlTypeOK
      <3>3. PickedRight' /\ KeptRight' /\ NeverSilent'
        BY <3>1, <3>2, CardStays, KeptStays DEF CddlInv
      <3>4. CddlTypeOK' /\ LoadsInv'
        BY <3>1 DEF CddlInv, CddlTypeOK, LoadsInv
      <3> QED BY <3>3, <3>4 DEF CddlInv
    <2> QED BY <2>1, <2>2, <2>3, <2>4 DEF CddlNext
  <1>2. CddlInv => RulesSound
    <2> SUFFICES ASSUME CddlInv PROVE RulesSound
      OBVIOUS
    <2>1. SettledRule
      <3> SUFFICES ASSUME ~CommitDue, loaded # 0, shown.payload # NoPayload, ~picked.chosen
                   PROVE  Right(picked.rule, shown.payload)
        BY DEF SettledRule, Right
      <3>1. seen = [shown |-> shown, loaded |-> loaded, picked |-> picked]
        BY DEF CommitDue
      <3>2. seen.shown = shown /\ seen.loaded = loaded /\ seen.picked = picked
        BY <3>1
      <3> QED BY <3>2 DEF CddlInv, PickedRight
    <2> QED BY <2>1 DEF CddlInv, RulesSound
  <1> QED BY CddlStarts, <1>1, <1>2, PTL DEF CddlSpec

-----------------------------------------------------------------------------
(* The session: cards, and what is written and read of them. *)

Value == {"void", "set", "read", "new", "edit"}
Asked(t) == (Needed \ {"connection"}) \cap Fields(t)
Faces == UNION {[Fields(t) -> Value] : t \in Drawn}
Asks(c) == c.f \in [Fields(c.type) -> Value] /\ \A x \in Asked(c.type) : c.f[x] = "set"
Item == {c \in [uuid: 1..MaxUuid, type: Drawn, f: Faces] : Asks(c)}

\* What each type writes and reads.
LEMMA TypesAnswer ==
  ASSUME NEW t \in Drawn
  PROVE  /\ \A x \in Fields(t) \ Forgotten(t) :
              x \in DOMAIN Reads(t) /\ Reads(t)[x] \in DOMAIN Writes(t) /\ Writes(t)[Reads(t)[x]] = x
         /\ Asked(t) \cap Forgotten(t) = {}
         /\ \A k \in DOMAIN Writes(t) : Writes(t)[k] \in Fields(t)
  <1>1. CASE t = "connection"
    BY <1>1 DEF Fields, Forgotten, Unsaved, Asked, Needed, Reads, Writes, Same, CnnReads, CnnWrites
  <1>2. CASE t = "cnn_metrics"
    BY <1>2 DEF Fields, Forgotten, Unsaved, Asked, Needed, Reads, Writes, Same, MetricsReads, MetricsWrites
  <1>3. CASE t = "client_metrics"
    BY <1>3 DEF Fields, Forgotten, Unsaved, Asked, Needed, Reads, Writes, Same, ClientsReads, ClientsWrites
  <1>4. CASE t = "messages"
    BY <1>4 DEF Fields, Forgotten, Unsaved, Asked, Needed, Reads, Writes, Same, MessagesReads, MessagesWrites
  <1>5. CASE t = "message"
    BY <1>5 DEF Fields, Forgotten, Unsaved, Asked, Needed, Reads, Writes, Same, MessageReads, MessageWrites
  <1>6. CASE t = "message_send"
    BY <1>6 DEF Fields, Forgotten, Unsaved, Asked, Needed, Reads, Writes, Same, SendReads, SendWrites
  <1>7. CASE t = "sync"
    BY <1>7 DEF Fields, Forgotten, Unsaved, Asked, Needed, Reads, Writes, Same, SyncReads, SyncWrites
  <1>8. CASE t = "streams"
    BY <1>8 DEF Fields, Forgotten, Unsaved, Asked, Needed, Reads, Writes, Same, StreamsReads, StreamsWrites
  <1>9. CASE t = "stream"
    BY <1>9 DEF Fields, Forgotten, Unsaved, Asked, Needed, Reads, Writes, Same, StreamReads, StreamWrites
  <1>10. CASE t = "stream_messages"
    BY <1>10 DEF Fields, Forgotten, Unsaved, Asked, Needed, Reads, Writes, Same, StreamMessagesReads, StreamMessagesWrites
  <1>11. CASE t = "consumers"
    BY <1>11 DEF Fields, Forgotten, Unsaved, Asked, Needed, Reads, Writes, Same, ConsumersReads, ConsumersWrites
  <1>12. CASE t = "consumer"
    BY <1>12 DEF Fields, Forgotten, Unsaved, Asked, Needed, Reads, Writes, Same, ConsumerReads, ConsumerWrites
  <1>13. CASE t = "buckets"
    BY <1>13 DEF Fields, Forgotten, Unsaved, Asked, Needed, Reads, Writes, Same, BucketsReads, BucketsWrites
  <1>14. CASE t = "bucket"
    BY <1>14 DEF Fields, Forgotten, Unsaved, Asked, Needed, Reads, Writes, Same, BucketReads, BucketWrites
  <1>15. CASE t = "kventries"
    BY <1>15 DEF Fields, Forgotten, Unsaved, Asked, Needed, Reads, Writes, Same, EntriesReads, EntriesWrites
  <1>16. CASE t = "kventry"
    BY <1>16 DEF Fields, Forgotten, Unsaved, Asked, Needed, Reads, Writes, Same, EntryReads, EntryWrites
  <1>17. CASE t = "json_config"
    BY <1>17 DEF Fields, Forgotten, Unsaved, Asked, Needed, Reads, Writes, Same, JsonReads, JsonWrites
  <1>18. CASE t = "logs"
    BY <1>18 DEF Fields, Forgotten, Unsaved, Asked, Needed, Reads, Writes, Same, LogsReads, LogsWrites, Nothing
  <1>19. CASE t = "about"
    BY <1>19 DEF Fields, Forgotten, Unsaved, Asked, Needed, Reads, Writes, Same, AboutReads, AboutWrites, Nothing
  <1>20. CASE t = "shortcut"
    BY <1>20 DEF Fields, Forgotten, Unsaved, Asked, Needed, Reads, Writes, Same, ShortcutWrites, Nothing
  <1>21. CASE t \in {"connections", "cnn_loader", "help"}
    BY <1>21, ZenonT(30) DEF Fields, Forgotten, Unsaved, Asked, Needed, Reads, Writes, Same, Nothing
  <1> QED BY <1>1, <1>2, <1>3, <1>4, <1>5, <1>6, <1>7, <1>8, <1>9, <1>10, <1>11, <1>12, <1>13, <1>14, <1>15, <1>16, <1>17, <1>18, <1>19, <1>20, <1>21 DEF Drawn

\* What a card of each type needs to ask with.
LEMMA AskedOf ==
  /\ Asked("connections") = {} /\ Asked("cnn_loader") = {} /\ Asked("connection") = {}
  /\ Asked("shortcut") = {} /\ Asked("logs") = {} /\ Asked("about") = {} /\ Asked("json_config") = {}
  /\ \A t \in {"cnn_metrics", "client_metrics", "messages", "message_send", "sync", "streams", "buckets"} :
       Asked(t) \subseteq {"connectionId"}
  /\ Asked("message") \subseteq {"message", "format"}
  /\ \A t \in {"stream", "stream_messages"} : Asked(t) \subseteq {"connectionId", "stream"}
  /\ Asked("consumers") \subseteq {"connectionId", "streamName"}
  /\ Asked("consumer") \subseteq {"connectionId", "streamName", "consumer"}
  /\ \A t \in {"bucket", "kventries"} : Asked(t) \subseteq {"connectionId", "bucket"}
  /\ Asked("kventry") \subseteq {"connectionId", "bucket", "kventry"}
  BY DEF Asked, Needed, Fields, Unsaved, Reads, Writes, Same, Nothing, CnnReads, CnnWrites,
         MetricsReads, MetricsWrites, ClientsReads, ClientsWrites, MessagesReads, MessagesWrites,
         MessageReads, MessageWrites, SendReads, SendWrites, SyncReads, SyncWrites, StreamsReads,
         StreamsWrites, StreamReads, StreamWrites, StreamMessagesReads, StreamMessagesWrites,
         ConsumersReads, ConsumersWrites, ConsumerReads, ConsumerWrites, BucketsReads, BucketsWrites,
         BucketReads, BucketWrites, EntriesReads, EntriesWrites, EntryReads, EntryWrites, JsonReads,
         JsonWrites, LogsReads, LogsWrites, AboutReads, AboutWrites, ShortcutWrites

View == {v \in [uuid: {0}, type: Drawn, f: Faces] : Asks(v)}

LEMMA BuiltFacts ==
  ASSUME NEW t \in Drawn, NEW given, NEW edit \in {"read", "new"}, Asked(t) \subseteq given
  PROVE  BuildStore(t, given, edit) \in View /\ BuildStore(t, given, edit).type = t
  <1> DEFINE face == [x \in Fields(t) |-> IF x \in given THEN "set"
                                          ELSE IF x = "editState" THEN edit ELSE "void"]
  <1>1. face \in [Fields(t) -> Value] /\ face \in Faces
    BY DEF Value, Faces
  <1>2. \A x \in Asked(t) : face[x] = "set"
    BY DEF Asked
  <1>3. BuildStore(t, given, edit) = [uuid |-> 0, type |-> t, f |-> face]
    BY DEF BuildStore
  <1> HIDE DEF face
  <1> QED BY <1>1, <1>2, <1>3 DEF View, Asks

\* Whatever is built of a card has what it needs.
LEMMA BuildsFacts ==
  ASSUME NEW p, NEW known
  PROVE  /\ {BuildConnectionMessages(p, known), BuildConnectionSync(p, known), BuildStreams(p, known),
              BuildBuckets(p, known), BuildStream(p), BuildStreamNew(p), BuildStreamMessages(p),
              BuildConsumers(p), BuildConsumer(p), BuildConsumerNew(p), BuildBucket(p),
              BuildBucketNew(p), BuildKVEntries(p), BuildKVEntry(p), BuildKVEntryNew(p)}
            \subseteq View \cup {NoView}
         /\ {BuildConnectionNew, BuildConnection, BuildConnectionMessageSend, BuildConnectionMetrics,
              BuildClientMetrics, BuildMessageDetail} \subseteq View
  <1> DEFINE Builds(t, given) == BuildStore(t, given, "read") \in View /\ BuildStore(t, given, "new") \in View
  <1>1. \A t \in Drawn : \A given : Asked(t) \subseteq given => Builds(t, given)
    BY BuiltFacts
  <1>2. /\ Builds("messages", {"connectionId"}) /\ Builds("sync", {"connectionId"})
        /\ Builds("streams", {"connectionId"}) /\ Builds("buckets", {"connectionId"})
    BY <1>1, AskedOf DEF Drawn
  <1>3. /\ Builds("cnn_metrics", {"connectionId"}) /\ Builds("client_metrics", {"connectionId"})
        /\ Builds("message_send", {"connectionId", "subjects"}) /\ Builds("connection", {})
        /\ Builds("connection", {"connection"}) /\ Builds("message", {"message", "format"})
    BY <1>1, AskedOf DEF Drawn
  <1>4. /\ Builds("stream_messages", {"connectionId", "stream"})
        /\ Builds("stream", {"connectionId", "stream", "allStreams"})
        /\ Builds("consumers", {"connectionId", "streamName"})
        /\ Builds("consumer", {"connectionId", "streamName", "consumer"})
        /\ \A more : Builds("stream", {"connectionId", "stream"} \cup more)
    BY <1>1, AskedOf DEF Drawn
  <1>5. /\ Builds("bucket", {"connectionId", "bucket"}) /\ Builds("kventries", {"connectionId", "bucket"})
        /\ Builds("kventry", {"connectionId", "bucket", "kventry"})
    BY <1>1, AskedOf DEF Drawn
  <1>6. /\ BuildConnectionMessages(p, known) \in View \cup {NoView}
        /\ BuildConnectionSync(p, known) \in View \cup {NoView}
        /\ BuildStreams(p, known) \in View \cup {NoView} /\ BuildBuckets(p, known) \in View \cup {NoView}
    BY <1>2 DEF BuildConnectionMessages, BuildConnectionSync, BuildStreams, BuildBuckets, OrNone
  <1>7. /\ BuildStream(p) \in View \cup {NoView} /\ BuildStreamNew(p) \in View \cup {NoView}
        /\ BuildStreamMessages(p) \in View \cup {NoView} /\ BuildConsumers(p) \in View \cup {NoView}
        /\ BuildConsumer(p) \in View \cup {NoView} /\ BuildConsumerNew(p) \in View \cup {NoView}
    BY <1>4 DEF BuildStream, BuildStreamNew, BuildStreamMessages, BuildConsumers, BuildConsumer,
                BuildConsumerNew, OrNone
  <1>8. /\ BuildBucket(p) \in View \cup {NoView} /\ BuildBucketNew(p) \in View \cup {NoView}
        /\ BuildKVEntries(p) \in View \cup {NoView} /\ BuildKVEntry(p) \in View \cup {NoView}
        /\ BuildKVEntryNew(p) \in View \cup {NoView}
    BY <1>5 DEF BuildBucket, BuildBucketNew, BuildKVEntries, BuildKVEntry, BuildKVEntryNew, OrNone
  <1>9. {BuildConnectionNew, BuildConnection, BuildConnectionMessageSend, BuildConnectionMetrics,
         BuildClientMetrics, BuildMessageDetail} \subseteq View
    BY <1>3 DEF BuildConnectionNew, BuildConnection, BuildConnectionMessageSend,
                BuildConnectionMetrics, BuildClientMetrics, BuildMessageDetail
  <1> HIDE DEF Builds
  <1> QED BY <1>6, <1>7, <1>8, <1>9

\* Whatever opens below a card, or beside it.
LEMMA OpensFacts ==
  ASSUME NEW p, NEW b, NEW d \in BOOLEAN
  PROVE  /\ Opens(p, b, d) \subseteq View \cup {NoView}
         /\ OpenConsumers(p) \cup OpenStreamMessages(p) \subseteq View \cup {NoView}
  <1>1. \A t, view : view \in View \cup {NoView} => ToggledView(t, b, d, view) \subseteq View \cup {NoView}
    BY DEF ToggledView
  <1>2. OpenConsumers(p) \cup OpenStreamMessages(p) \subseteq View \cup {NoView}
    BY BuildsFacts DEF OpenConsumers, OpenStreamMessages
  <1>3. /\ BuildStore("shortcut", {}, "read") \in View /\ BuildStore("cnn_loader", {}, "read") \in View
        /\ BuildStore("json_config", {"value", "onClose"}, "read") \in View
    BY BuiltFacts, AskedOf DEF Drawn
  <1>4. CnnOpens(p, b, d) \subseteq View \cup {NoView}
    <2>1. /\ OpenMessages(p, b, d, TRUE) \subseteq View \cup {NoView}
          /\ OpenStreams(p, b, d, TRUE) \subseteq View \cup {NoView}
          /\ OpenBuckets(p, b, d, TRUE) \subseteq View \cup {NoView}
          /\ OpenSync(p, b, d) \subseteq View \cup {NoView}
      BY <1>1, BuildsFacts DEF OpenMessages, OpenStreams, OpenBuckets, OpenSync
    <2>2. OpenMessageSend(p) \subseteq View \cup {NoView} /\ OpenMetrics(p, b, d) \subseteq View \cup {NoView}
      BY <1>1, BuildsFacts DEF OpenMessageSend, OpenMetrics
    <2> QED BY <2>1, <2>2 DEF CnnOpens
  <1>5. CnnListOpens(b, d) \subseteq View \cup {NoView}
    BY <1>3, BuildsFacts DEF CnnListOpens, SelectCnn, CreateCnn, OpenLoader
  <1>6. OpenClients(b, d) \subseteq View \cup {NoView} /\ OpenShortcut(b, d) \subseteq View \cup {NoView}
    BY <1>1, <1>3, BuildsFacts DEF OpenClients, OpenShortcut
  <1>7. /\ ToggleConsumer(p, b, d) \subseteq View \cup {NoView}
        /\ ToggleMessages(p, b, d) \subseteq View \cup {NoView}
        /\ OpenKVEntries(p, b) \subseteq View \cup {NoView} /\ OpenStream(p) \subseteq View \cup {NoView}
    BY <1>2, BuildsFacts DEF ToggleConsumer, ToggleMessages, OpenKVEntries, OpenStream
  <1>8. /\ OpenStreamJson(b) \subseteq View \cup {NoView} /\ OpenBucketJson(b) \subseteq View \cup {NoView}
        /\ OpenConsumerJson(b) \subseteq View \cup {NoView}
    BY <1>3 DEF OpenStreamJson, OpenBucketJson, OpenConsumerJson, JsonOf
  <1>9. /\ ListOpens("stream", b, BuildStream(p), BuildStreamNew(p)) \subseteq View \cup {NoView}
        /\ ListOpens("bucket", b, BuildBucket(p), BuildBucketNew(p)) \subseteq View \cup {NoView}
        /\ ListOpens("kventry", b, BuildKVEntry(p), BuildKVEntryNew(p)) \subseteq View \cup {NoView}
        /\ ListOpens("consumer", b, BuildConsumer(p), BuildConsumerNew(p)) \subseteq View \cup {NoView}
    BY BuildsFacts DEF ListOpens
  <1>10. /\ OpenMessageDetail(b) \subseteq View \cup {NoView} /\ OpenStreamDetail(b) \subseteq View \cup {NoView}
         /\ OpenSyncDetail(b) \subseteq View \cup {NoView} /\ OpenSend \subseteq View \cup {NoView}
    BY BuildsFacts DEF OpenMessageDetail, OpenStreamDetail, OpenSyncDetail, OpenSend
  <1> QED BY <1>2, <1>4, <1>5, <1>6, <1>7, <1>8, <1>9, <1>10 DEF Opens

-----------------------------------------------------------------------------
(* What happens to one card. *)

LEMMA CardFacts ==
  /\ \A c : c \in Item <=> c \in [uuid: 1..MaxUuid, type: Drawn, f: Faces] /\ Asks(c)
  /\ NoView \notin Item /\ NoView \notin View
  BY DEF Item, View, NoView, Drawn

\* A view that is given a uuid is a card.
LEMMA NamedFacts ==
  ASSUME NEW v \in View \cup {NoView}, NEW u \in 1..MaxUuid
  PROVE  /\ Named(v, u) = NoView <=> v = NoView
         /\ v # NoView => Named(v, u) \in Item /\ Named(v, u).uuid = u /\ Named(v, u).type = v.type
  <1>1. CASE v = NoView
    BY <1>1 DEF Named
  <1>2. CASE v # NoView
    <2>1. v \in [uuid: {0}, type: Drawn, f: Faces] /\ Asks(v)
      BY <1>2 DEF View
    <2>2. Named(v, u) = [v EXCEPT !.uuid = u]
      BY <1>2 DEF Named
    <2>3. /\ Named(v, u) \in [uuid: 1..MaxUuid, type: Drawn, f: Faces]
          /\ Named(v, u).uuid = u /\ Named(v, u).type = v.type /\ Named(v, u).f = v.f
      BY <2>1, <2>2
    <2>4. Asks(Named(v, u))
      BY <2>1, <2>3 DEF Asks
    <2> QED BY <1>2, <2>3, <2>4, CardFacts
  <1> QED BY <1>1, <1>2

\* Another face of the same type.
LEMMA FaceFacts ==
  ASSUME NEW c \in Item, NEW g \in [Fields(c.type) -> Value], \A x \in Asked(c.type) : g[x] = "set"
  PROVE  [c EXCEPT !.f = g] \in Item /\ [c EXCEPT !.f = g].uuid = c.uuid /\ [c EXCEPT !.f = g].type = c.type
  <1>1. c \in [uuid: 1..MaxUuid, type: Drawn, f: Faces]
    BY DEF Item
  <1>2. g \in Faces
    BY <1>1 DEF Faces
  <1> DEFINE d == [c EXCEPT !.f = g]
  <1>3. d \in [uuid: 1..MaxUuid, type: Drawn, f: Faces] /\ d.uuid = c.uuid /\ d.type = c.type /\ d.f = g
    BY <1>1, <1>2
  <1> HIDE DEF d
  <1>4. Asks(d)
    BY <1>3 DEF Asks
  <1>5. d \in Item
    BY <1>3, <1>4 DEF Item
  <1> QED BY <1>3, <1>5 DEF d

LEMMA ChangedFacts ==
  ASSUME NEW c \in Item, NEW v
  PROVE  /\ Selected(c, v) \in Item /\ Selected(c, v).uuid = c.uuid /\ Selected(c, v).type = c.type
         /\ Filled(c) \in Item /\ Filled(c).uuid = c.uuid /\ Filled(c).type = c.type
         /\ InEdit(c) \in Item /\ InEdit(c).uuid = c.uuid /\ InEdit(c).type = c.type
  <1>1. c.f \in [Fields(c.type) -> Value] /\ \A x \in Asked(c.type) : c.f[x] = "set"
    BY DEF Item, Asks
  <1>2. \A x \in Asked(c.type) : x \in Fields(c.type) /\ x \notin {"select", "editState", "connection", "onClose"}
    BY DEF Asked, Needed
  <1>3. Selected(c, v) \in Item /\ Selected(c, v).uuid = c.uuid /\ Selected(c, v).type = c.type
    <2>1. CASE "select" \notin Fields(c.type)
      BY <2>1 DEF Selected
    <2>2. CASE "select" \in Fields(c.type)
      <3> DEFINE row == IF v # NoView /\ v.f["editState"] # "new" THEN "set" ELSE "void"
                 g == [c.f EXCEPT !["select"] = row]
      <3>1. g \in [Fields(c.type) -> Value]
        BY <1>1, <2>2 DEF Value
      <3>2. \A x \in Asked(c.type) : g[x] = "set"
        BY <1>1, <1>2
      <3>3. Selected(c, v) = [c EXCEPT !.f = g]
        BY <2>2 DEF Selected
      <3> HIDE DEF g
      <3> QED BY <3>1, <3>2, <3>3, FaceFacts
    <2> QED BY <2>1, <2>2
  <1>4. Filled(c) \in Item /\ Filled(c).uuid = c.uuid /\ Filled(c).type = c.type
    <2> DEFINE g == [x \in DOMAIN c.f |->
                      IF x \in {"editState", "connection", "onClose"} THEN c.f[x] ELSE "set"]
    <2>1. g \in [Fields(c.type) -> Value] /\ \A x \in Asked(c.type) : g[x] = "set"
      BY <1>1, <1>2 DEF Value
    <2>2. Filled(c) = [c EXCEPT !.f = g]
      BY DEF Filled
    <2> HIDE DEF g
    <2> QED BY <2>1, <2>2, FaceFacts
  <1>5. InEdit(c) \in Item /\ InEdit(c).uuid = c.uuid /\ InEdit(c).type = c.type
    <2> DEFINE g == [c.f EXCEPT !["editState"] = "edit"]
    <2>1. g \in [Fields(c.type) -> Value] /\ \A x \in Asked(c.type) : g[x] = "set"
      BY <1>1, <1>2 DEF Value
    <2>2. InEdit(c) = [c EXCEPT !.f = g]
      BY DEF InEdit
    <2> HIDE DEF g
    <2> QED BY <2>1, <2>2, FaceFacts
  <1> QED BY <1>3, <1>4, <1>5

\* What is stored of a card is enough to build it again, but for what it forgets.
LEMMA RestoredFacts ==
  ASSUME NEW c \in Item
  PROVE  LET s == GetSerialization(c)
         IN  /\ s.uuid = c.uuid /\ s.type = c.type
             /\ SetSerialization(s) \in Item /\ SetSerialization(s).uuid = c.uuid
             /\ SetSerialization(s).type = c.type /\ SameCard(c, SetSerialization(s))
  <1> DEFINE s == GetSerialization(c)
             t == c.type
             W == Writes(t)
             R == Reads(t)
             blank == BuildStore(t, {}, "read").f
             value(x) == IF x \in DOMAIN R
                         THEN LET k == R[x] IN IF k \in DOMAIN s.data THEN s.data[k] ELSE "void"
                         ELSE blank[x]
             g == [x \in Fields(t) |-> value(x)]
  <1>1. /\ t \in Drawn /\ c.uuid \in 1..MaxUuid /\ c.f \in [Fields(t) -> Value]
        /\ \A x \in Asked(t) : x \in Fields(t) /\ c.f[x] = "set"
    BY DEF Item, Asks, Asked
  <1>2. s.uuid = c.uuid /\ s.type = t /\ DOMAIN s.data = DOMAIN W /\ \A k \in DOMAIN W : s.data[k] = c.f[W[k]]
    BY DEF GetSerialization
  <1>3. SetSerialization(s) = [uuid |-> c.uuid, type |-> t, f |-> g]
    BY <1>2 DEF SetSerialization
  <1>4. /\ \A x \in Fields(t) \ Forgotten(t) : x \in DOMAIN R /\ R[x] \in DOMAIN W /\ W[R[x]] = x
        /\ Asked(t) \cap Forgotten(t) = {} /\ \A k \in DOMAIN W : W[k] \in Fields(t)
    BY <1>1, TypesAnswer
  <1>5. \A x \in Fields(t) : blank[x] \in Value
    BY DEF BuildStore, Value
  <1> HIDE DEF s, t, W, R, blank
  <1>6. \A x \in Fields(t) \ Forgotten(t) : value(x) = c.f[x]
    BY <1>2, <1>4
  <1>7. \A x \in Fields(t) : value(x) \in Value
    BY <1>1, <1>2, <1>4, <1>5 DEF Value
  <1>8. g \in [Fields(t) -> Value] /\ g \in Faces
    BY <1>1, <1>7 DEF Faces
  <1>9. \A x \in Asked(t) : g[x] = "set"
    BY <1>1, <1>4, <1>6
  <1>10. \A x \in Fields(t) \ Forgotten(t) : g[x] = c.f[x]
    BY <1>6
  <1> HIDE DEF g
  <1> DEFINE r == SetSerialization(s)
  <1>11. /\ r \in [uuid: 1..MaxUuid, type: Drawn, f: Faces]
         /\ r.uuid = c.uuid /\ r.type = t /\ r.f = g
    BY <1>1, <1>3, <1>8
  <1> HIDE DEF r
  <1>12. r \in Item
    BY <1>8, <1>9, <1>11 DEF Item, Asks
  <1>13. SameCard(c, r)
    BY <1>10, <1>11 DEF SameCard, t
  <1> QED BY <1>2, <1>11, <1>12, <1>13 DEF s, t, r

-----------------------------------------------------------------------------
(* What happens to one chain. *)

Chain == Seq(Item) \ {<<>>}

LEMMA AddLinkFacts ==
  ASSUME NEW S, NEW chain \in Seq(S), NEW i \in 0..Len(chain), NEW v \in S \cup {NoView}
  PROVE  /\ AddLink(chain, i, v) \in Seq(S)
         /\ Len(AddLink(chain, i, v)) = (IF v = NoView THEN i ELSE i + 1)
         /\ \A j \in 1..i : AddLink(chain, i, v)[j] = chain[j]
         /\ v # NoView => AddLink(chain, i, v)[i + 1] = v
  <1> DEFINE head == SubSeq(chain, 1, i)
             tail == IF v = NoView THEN <<>> ELSE <<v>>
  <1>1. Len(chain) \in Nat /\ i \in Nat /\ i <= Len(chain)
    BY LenProperties
  <1>2. head \in Seq(S) /\ Len(head) = i /\ \A j \in 1..i : head[j] = chain[j]
    BY <1>1, SubSeqProperties
  <1>3. tail \in Seq(S) /\ Len(tail) = (IF v = NoView THEN 0 ELSE 1) /\ (v # NoView => tail[1] = v)
    OBVIOUS
  <1>4. AddLink(chain, i, v) = head \o tail
    BY DEF AddLink
  <1> HIDE DEF head, tail
  <1>5. /\ head \o tail \in Seq(S) /\ Len(head \o tail) = Len(head) + Len(tail)
        /\ \A j \in 1..(Len(head) + Len(tail)) :
             (head \o tail)[j] = IF j <= Len(head) THEN head[j] ELSE tail[j - Len(head)]
    BY <1>2, <1>3, ConcatProperties
  <1> QED BY <1>1, <1>2, <1>3, <1>4, <1>5

LEMMA FirstLink ==
  ASSUME NEW S, NEW chain \in Seq(S), Len(chain) >= 1, NEW v \in S \cup {NoView}
  PROVE  /\ AddLink(chain, 1, v) \in Seq(S)
         /\ Len(AddLink(chain, 1, v)) = (IF v = NoView THEN 1 ELSE 2)
         /\ AddLink(chain, 1, v)[1] = chain[1]
         /\ v # NoView => AddLink(chain, 1, v)[2] = v
  <1>1. Len(chain) \in Nat /\ 1 \in 0..Len(chain) /\ 1 \in 1..1 /\ 1 + 1 = 2
    BY LenProperties
  <1>2. AddLink(chain, 1, v) \in Seq(S)
    BY <1>1, AddLinkFacts
  <1>3. Len(AddLink(chain, 1, v)) = (IF v = NoView THEN 1 ELSE 1 + 1)
    BY <1>1, AddLinkFacts
  <1>4. AddLink(chain, 1, v)[1] = chain[1]
    BY <1>1, AddLinkFacts
  <1>5. v # NoView => AddLink(chain, 1, v)[1 + 1] = v
    BY <1>1, AddLinkFacts
  <1> QED BY <1>1, <1>2, <1>3, <1>4, <1>5

\* A card as it is built again; the uuid of what is opened below it comes from outside.
Loose == [uuid: 0..MaxUuid, type: Drawn, f: Faces]
Again(c) == SetSerialization(GetSerialization(c))

\* What is built again of a chain from place m on.
BuiltFrom(r, c, m, u) == \E cut \in (Cuts(c) \cup {Len(c)}) \cap (m..Len(c)) :
  /\ r \in Seq(Loose) /\ Len(r) >= cut - m + 1
  /\ \A i \in m..cut : r[i - m + 1] = Again(c[i])
  /\ \/ Len(r) = cut - m + 1
     \/ /\ Len(r) = cut - m + 2 /\ c[cut].type = "bucket" /\ r[cut - m + 2].type = "kventries"
        /\ r[cut - m + 2].uuid = u /\ (u > 0 => r[cut - m + 2] \in Item)

\* A restored detail of a connection closes what is below it: no connection is known.
LEMMA NoneKnown ==
  ASSUME NEW p, NEW b
  PROVE  /\ OpenMessages(p, b, FALSE, FALSE) = {NoView} /\ OpenStreams(p, b, FALSE, FALSE) = {NoView}
         /\ OpenBuckets(p, b, FALSE, FALSE) = {NoView}
  BY DEF OpenMessages, OpenStreams, OpenBuckets, ToggledView, BuildConnectionMessages, BuildStreams,
         BuildBuckets, OrNone

LEMMA LinkedFacts ==
  ASSUME NEW c \in Chain, NEW options \in Options, NEW u \in 0..MaxUuid, NEW m \in 2..Len(c),
         NEW r, BuiltFrom(r, c, m, u)
  PROVE  BuiltFrom(OnLinked(r, options, u), c, m, u)
  <1> DEFINE o == OnLinked(r, options, u)
  <1>1. /\ c \in Seq(Item) /\ Len(c) \in Nat /\ m \in Nat /\ m >= 2 /\ m <= Len(c) /\ MaxUuid \in Nat
        /\ c[m] \in Item
    BY LenProperties, SessionAssumption DEF Chain
  <1>2. PICK cut \in (Cuts(c) \cup {Len(c)}) \cap (m..Len(c)) :
          /\ r \in Seq(Loose) /\ Len(r) >= cut - m + 1
          /\ \A i \in m..cut : r[i - m + 1] = Again(c[i])
          /\ \/ Len(r) = cut - m + 1
             \/ /\ Len(r) = cut - m + 2 /\ c[cut].type = "bucket" /\ r[cut - m + 2].type = "kventries"
                /\ r[cut - m + 2].uuid = u /\ (u > 0 => r[cut - m + 2] \in Item)
    BY DEF BuiltFrom
  <1>3. /\ cut \in Nat /\ m <= cut /\ Len(r) \in Nat /\ Len(r) >= 1 /\ r # <<>>
        /\ r[1] = Again(c[m]) /\ r[1] \in Loose /\ r[1].type = c[m].type
    <2>1. cut \in Nat /\ m <= cut /\ Len(r) \in Nat /\ Len(r) >= 1
      BY <1>1, <1>2, LenProperties
    <2>2. r # <<>> /\ 1 \in DOMAIN r /\ r[1] \in Loose
      BY <1>2, <2>1, LenProperties
    <2>3. r[m - m + 1] = Again(c[m]) /\ m - m + 1 = 1
      BY <1>1, <1>2, <2>1
    <2>4. Again(c[m]).type = c[m].type
      BY <1>1, RestoredFacts DEF Again
    <2> QED BY <2>1, <2>2, <2>3, <2>4
  \* Either nothing is opened, or what is below gives way to what is.
  <1>4. ASSUME c[m].type \in {"connection", "bucket"},
               NEW v, v = NoView \/ v \in Loose, o = AddLink(r, 1, v),
               v = NoView \/ (c[m].type = "bucket" /\ v.type = "kventries" /\ v.uuid = u /\ (u > 0 => v \in Item))
        PROVE  BuiltFrom(o, c, m, u)
    <2>1. /\ o \in Seq(Loose) /\ Len(o) = (IF v = NoView THEN 1 ELSE 2)
          /\ o[1] = r[1] /\ (v # NoView => o[2] = v)
      <3>1. r \in Seq(Loose) /\ v \in Loose \cup {NoView}
        BY <1>2, <1>4
      <3> HIDE DEF o
      <3> QED BY <1>3, <1>4, <3>1, FirstLink
    <2>2. m \in (Cuts(c) \cup {Len(c)}) \cap (m..Len(c))
      BY <1>1, <1>4 DEF Cuts
    <2>3. /\ Len(o) >= m - m + 1 /\ \A i \in m..m : o[i - m + 1] = Again(c[i])
      BY <1>1, <1>3, <2>1
    <2>4. \/ Len(o) = m - m + 1
          \/ /\ Len(o) = m - m + 2 /\ c[m].type = "bucket" /\ o[m - m + 2].type = "kventries"
             /\ o[m - m + 2].uuid = u /\ (u > 0 => o[m - m + 2] \in Item)
      BY <1>1, <1>4, <2>1
    <2> HIDE DEF o
    <2> QED BY <2>1, <2>2, <2>3, <2>4 DEF BuiltFrom
  <1>5. CASE c[m].type = "connection"
    <2>1. o = CnnOnLinked(r, options.connection)
      BY <1>3, <1>5 DEF OnLinked
    <2>2. o = r \/ o = AddLink(r, 1, NoView)
      BY <2>1, NoneKnown DEF CnnOnLinked, LinkedView
    <2> QED BY <1>4, <1>5, <2>2
  <1>6. CASE c[m].type = "bucket"
    <2>1. o = BucketOnLinked(r, options.bucket, u)
      BY <1>3, <1>6 DEF OnLinked
    <2> DEFINE w == IF Below(r, 1) # "kventries" THEN BuildKVEntries(r[1]) ELSE NoView
               v == Named(w, u)
    <2>2. CASE options.bucket # "kventries"
      BY <2>1, <2>2 DEF BucketOnLinked
    <2>3. CASE options.bucket = "kventries"
      <3>1. {Named(x, u) : x \in OpenKVEntries(r[1], Below(r, 1))} = {v}
        BY DEF OpenKVEntries
      <3>2. o = AddLink(r, 1, v)
        BY <2>1, <2>3, <3>1 DEF BucketOnLinked, LinkedView
      <3>3. w \in View \cup {NoView} /\ (w # NoView => w.type = "kventries")
        <4>1. BuildKVEntries(r[1]) \in View \cup {NoView}
          BY BuildsFacts
        <4>2. BuildKVEntries(r[1]) # NoView => BuildKVEntries(r[1]).type = "kventries"
          BY DEF BuildKVEntries, OrNone, BuildStore
        <4> QED BY <4>1, <4>2
      <3> HIDE DEF w
      <3>4. w = NoView => v = NoView
        BY DEF Named
      <3>5. w # NoView => v \in Loose /\ v.type = "kventries" /\ v.uuid = u
        BY <3>3 DEF Named, View, Loose
      <3>6. w # NoView /\ u > 0 => v \in Item
        BY <1>1, <3>3, NamedFacts
      <3> HIDE DEF v
      <3> QED BY <1>4, <1>6, <3>2, <3>4, <3>5, <3>6
    <2> QED BY <2>2, <2>3
  <1>7. CASE c[m].type \notin {"connection", "bucket"}
    BY <1>3, <1>7 DEF OnLinked
  <1> QED BY <1>5, <1>6, <1>7

\* One more card on top of what has been built of those below it.
LEMMA OnTopFacts ==
  ASSUME NEW c \in Chain, NEW u, NEW m \in 1..(Len(c) - 1), NEW o, BuiltFrom(o, c, m + 1, u)
  PROVE  BuiltFrom(<<Again(c[m])>> \o o, c, m, u)
  <1>1. c \in Seq(Item) /\ Len(c) \in Nat /\ m \in Nat /\ m + 1 <= Len(c) /\ c[m] \in Item
    BY LenProperties DEF Chain
  <1>2. PICK cut \in (Cuts(c) \cup {Len(c)}) \cap ((m + 1)..Len(c)) :
          /\ o \in Seq(Loose) /\ Len(o) >= cut - (m + 1) + 1
          /\ \A i \in (m + 1)..cut : o[i - (m + 1) + 1] = Again(c[i])
          /\ \/ Len(o) = cut - (m + 1) + 1
             \/ /\ Len(o) = cut - (m + 1) + 2 /\ c[cut].type = "bucket"
                /\ o[cut - (m + 1) + 2].type = "kventries"
                /\ o[cut - (m + 1) + 2].uuid = u /\ (u > 0 => o[cut - (m + 1) + 2] \in Item)
    BY DEF BuiltFrom
  <1> DEFINE a == Again(c[m])
             r == <<a>> \o o
  <1>3. cut \in Nat /\ cut >= m + 1 /\ cut <= Len(c) /\ Len(o) \in Nat
    BY <1>1, <1>2, LenProperties
  <1>4. a \in Loose
    <2>1. a \in Item
      BY <1>1, RestoredFacts DEF Again
    <2> QED BY <2>1, SessionAssumption DEF Item, Loose
  <1>5. /\ r \in Seq(Loose) /\ Len(r) = 1 + Len(o) /\ r[1] = a
        /\ \A j \in 1..Len(o) : r[j + 1] = o[j]
    <2> HIDE DEF a
    <2>1. <<a>> \in Seq(Loose) /\ Len(<<a>>) = 1 /\ <<a>>[1] = a
      BY <1>4
    <2>2. /\ r \in Seq(Loose) /\ Len(r) = Len(<<a>>) + Len(o)
          /\ \A i \in 1..(Len(<<a>>) + Len(o)) : r[i] = IF i <= Len(<<a>>) THEN <<a>>[i] ELSE o[i - Len(<<a>>)]
      BY <1>2, <2>1, ConcatProperties
    <2> HIDE DEF r
    <2> QED BY <1>3, <2>1, <2>2
  <1> HIDE DEF r, a
  <1>6. cut \in (Cuts(c) \cup {Len(c)}) \cap (m..Len(c))
    BY <1>1, <1>2, <1>3
  <1>7. \A i \in m..cut : r[i - m + 1] = Again(c[i])
    <2> SUFFICES ASSUME NEW i \in m..cut PROVE r[i - m + 1] = Again(c[i])
      OBVIOUS
    <2>1. CASE i = m
      BY <1>1, <1>5, <2>1 DEF a
    <2>2. CASE i # m
      <3>1. i \in (m + 1)..cut /\ i - m \in 1..Len(o) /\ i - (m + 1) + 1 = i - m
        BY <1>1, <1>2, <1>3, <2>2
      <3> QED BY <1>2, <1>5, <3>1
    <2> QED BY <2>1, <2>2
  <1>8. Len(r) >= cut - m + 1
    BY <1>1, <1>2, <1>3, <1>5
  <1>9. \/ Len(r) = cut - m + 1
        \/ /\ Len(r) = cut - m + 2 /\ c[cut].type = "bucket" /\ r[cut - m + 2].type = "kventries"
           /\ r[cut - m + 2].uuid = u /\ (u > 0 => r[cut - m + 2] \in Item)
    <2>1. CASE Len(o) = cut - (m + 1) + 1
      BY <1>1, <1>3, <1>5, <2>1
    <2>2. CASE /\ Len(o) = cut - (m + 1) + 2 /\ c[cut].type = "bucket"
               /\ o[cut - (m + 1) + 2].type = "kventries"
               /\ o[cut - (m + 1) + 2].uuid = u /\ (u > 0 => o[cut - (m + 1) + 2] \in Item)
      <3>1. cut - m + 1 \in 1..Len(o) /\ cut - (m + 1) + 2 = cut - m + 1 /\ cut - m + 1 + 1 = cut - m + 2
        BY <1>1, <1>3, <2>2
      <3>2. r[cut - m + 2] = o[cut - (m + 1) + 2]
        BY <1>5, <3>1
      <3>3. Len(r) = cut - m + 2
        BY <1>1, <1>3, <1>5, <2>2
      <3> QED BY <2>2, <3>2, <3>3
    <2> QED BY <1>2, <2>1, <2>2
  <1> QED BY <1>5, <1>6, <1>7, <1>8, <1>9 DEF BuiltFrom, r, a

LEMMA LastBuilt ==
  ASSUME NEW c \in Chain, NEW u
  PROVE  BuiltFrom(<<Again(c[Len(c)])>>, c, Len(c), u)
  <1>1. c \in Seq(Item) /\ Len(c) \in Nat /\ Len(c) >= 1
    BY EmptySeq DEF Chain
  <1>2. c[Len(c)] \in Item
    BY <1>1, ElementOfSeq
  <1> DEFINE a == Again(c[Len(c)])
             r == <<a>>
  <1>3. a \in Loose
    <2>1. a \in Item
      BY <1>2, RestoredFacts DEF Again
    <2> QED BY <2>1, SessionAssumption DEF Item, Loose
  <1>4. r \in Seq(Loose) /\ Len(r) = 1 /\ r[1] = a
    BY <1>3
  <1>5. Len(c) \in (Cuts(c) \cup {Len(c)}) \cap (Len(c)..Len(c)) /\ Len(c) - Len(c) + 1 = 1
    BY <1>1
  <1>6. \A i \in Len(c)..Len(c) : i = Len(c)
    BY <1>1
  <1> HIDE DEF r
  <1>7. \A i \in Len(c)..Len(c) : r[i - Len(c) + 1] = Again(c[i])
    BY <1>4, <1>5, <1>6
  <1> QED BY <1>4, <1>5, <1>7 DEF BuiltFrom, r

\* The chain that comes back of the states of a chain.
LEMMA ChainRestored ==
  ASSUME NEW c \in Chain, NEW options \in Options, NEW u \in 0..MaxUuid
  PROVE  BuiltFrom(RestoreChain(Serialize(c), options, u), c, 1, u)
  <1> DEFINE s == Serialize(c)
             N == Len(c)
             step(m, k) == IF k = 0 THEN <<>>
                           ELSE <<SetSerialization(s[Len(s) - k + 1])>> \o OnLinked(m[k - 1], options, u)
             Built(m, k) == m = [j \in 0..k |-> step(m, j)]
             none == {k \in 0..N : ~\E m : Built(m, k)}
             built == CHOOSE m : m = [k \in 0..Len(s) |-> step(m, k)]
  <1>1. c \in Seq(Item) /\ N \in Nat /\ N >= 1 /\ DOMAIN c = 1..N
    BY EmptySeq, LenProperties DEF Chain
  <1>2. Len(s) = N /\ \A i \in 1..N : s[i] = GetSerialization(c[i])
    BY <1>1 DEF Serialize
  <1>3. none = {}
    <2> SUFFICES ASSUME none # {} PROVE FALSE
      OBVIOUS
    <2>1. PICK n \in none : \A k \in none : n <= k
      <3>1. none \in SUBSET Nat
        BY <1>1
      <3> HIDE DEF none
      <3> QED BY <3>1, LeastNumber
    <2> HIDE DEF s
    <2>2. n # 0
      <3>1. Built([k \in 0..0 |-> <<>>], 0)
        OBVIOUS
      <3> QED BY <2>1, <3>1
    <2>3. n \in 0..N /\ n - 1 \in 0..N /\ n - 1 \notin none
      <3>1. n \in 0..N
        BY <2>1
      <3> HIDE DEF none
      <3>2. n - 1 \in 0..N /\ ~(n <= n - 1)
        BY <1>1, <2>2, <3>1
      <3> QED BY <2>1, <3>1, <3>2
    <2>4. PICK m : Built(m, n - 1)
      BY <2>3
    <2> DEFINE m2 == [k \in 0..n |-> IF k = n THEN step(m, n) ELSE m[k]]
    <2>5. Built(m2, n)
      <3>1. \A k \in 0..n : m2[k] = step(m2, k)
        <4> SUFFICES ASSUME NEW k \in 0..n PROVE m2[k] = step(m2, k)
          OBVIOUS
        <4>1. CASE k = n
          <5>1. n - 1 \in 0..n /\ m2[n - 1] = m[n - 1]
            BY <2>2, <2>3
          <5> QED BY <2>2, <2>3, <4>1, <5>1
        <4>2. CASE k # n
          <5>1. k \in 0..(n - 1) /\ m2[k] = m[k] /\ m[k] = step(m, k)
            <6>1. k \in 0..(n - 1) /\ m2[k] = m[k]
              BY <1>1, <2>3, <4>2
            <6> HIDE DEF step
            <6> QED BY <2>4, <6>1
          <5>2. k # 0 => m2[k - 1] = m[k - 1]
            BY <2>3, <5>1, SMTT(30)
          <5> QED BY <5>1, <5>2
        <4> QED BY <4>1, <4>2
      <3> QED BY <3>1
    <2> HIDE DEF Built, m2
    <2> QED BY <2>1, <2>5
  <1>4. \E m : Built(m, N)
    <2>1. N \in 0..N /\ N \notin none
      <3> HIDE DEF none
      <3> QED BY <1>1, <1>3
    <2> HIDE DEF Built
    <2> QED BY <2>1
  <1>5. built = [k \in 0..N |-> step(built, k)]
    BY <1>2, <1>4, ZenonT(30)
  <1>6. RestoreChain(s, options, u) = built[N]
    BY <1>2 DEF RestoreChain
  <1> HIDE DEF built
  <1> DEFINE odd == {k \in 1..N : ~BuiltFrom(built[k], c, N - k + 1, u)}
  <1>7. odd = {}
    <2> SUFFICES ASSUME odd # {} PROVE FALSE
      OBVIOUS
    <2>1. PICK n \in odd : \A k \in odd : n <= k
      <3>1. odd \in SUBSET Nat
        BY <1>1
      <3> HIDE DEF odd
      <3> QED BY <3>1, LeastNumber
    <2>2. /\ n \in 1..N /\ n \in 0..N /\ n - 1 \in 0..N /\ N - n + 1 \in 1..N
          /\ ~BuiltFrom(built[n], c, N - n + 1, u)
      BY <1>1, <2>1
    <2>3. built[n] = <<Again(c[N - n + 1])>> \o OnLinked(built[n - 1], options, u)
      <3>1. built[n] = step(built, n) /\ n # 0
        <4>1. n \in 0..N /\ n # 0
          BY <1>1, <2>2
        <4> HIDE DEF step
        <4> QED BY <1>5, <4>1
      <3>2. s[Len(s) - n + 1] = GetSerialization(c[N - n + 1])
        BY <1>2, <2>2
      <3> HIDE DEF s
      <3> QED BY <3>1, <3>2 DEF Again
    <2>4. CASE n = 1
      <3>1. built[0] = <<>> /\ n - 1 = 0 /\ N - n + 1 = N
        BY <1>1, <1>5, <2>4
      <3>2. OnLinked(<<>>, options, u) = <<>>
        BY DEF OnLinked
      <3>3. built[n] = <<Again(c[N])>>
        <4>1. <<Again(c[N])>> \in Seq({Again(c[N])})
          OBVIOUS
        <4> QED BY <2>3, <3>1, <3>2, <4>1, ConcatEmptySeq
      <3> QED BY <2>2, <3>1, <3>3, LastBuilt
    <2>5. CASE n # 1
      <3>1. n - 1 \in 1..N /\ n - 1 \notin odd
        BY <1>1, <2>1, <2>2, <2>5
      <3> DEFINE m == N - n + 1
      <3>2. N - (n - 1) + 1 = m + 1 /\ m \in 1..(N - 1) /\ m + 1 \in 2..N
        BY <1>1, <2>2, <2>5
      <3>3. BuiltFrom(built[n - 1], c, m + 1, u)
        BY <3>1, <3>2
      <3> HIDE DEF m, odd
      <3>4. BuiltFrom(OnLinked(built[n - 1], options, u), c, m + 1, u)
        BY <3>2, <3>3, LinkedFacts
      <3>5. BuiltFrom(<<Again(c[m])>> \o OnLinked(built[n - 1], options, u), c, m, u)
        BY <3>2, <3>4, OnTopFacts
      <3> QED BY <2>2, <2>3, <3>5 DEF m
    <2> QED BY <2>4, <2>5
  <1>8. N \in 1..N /\ N - N + 1 = 1
    BY <1>1
  <1>9. BuiltFrom(built[N], c, 1, u)
    BY <1>7, <1>8
  <1> QED BY <1>6, <1>9

\* The first card of a chain that comes back is the first card.
LEMMA FirstRestored ==
  ASSUME NEW c \in Chain, NEW options \in Options, NEW u \in 0..MaxUuid
  PROVE  LET r == RestoreChain(Serialize(c), options, u)
         IN  /\ r \in Seq(Loose) /\ Len(r) >= 1 /\ r[1] \in Item /\ r[1].uuid = c[1].uuid
             /\ c[1] \in Item
  <1> DEFINE r == RestoreChain(Serialize(c), options, u)
  <1>1. c \in Seq(Item) /\ Len(c) \in Nat /\ Len(c) >= 1 /\ c[1] \in Item
    BY EmptySeq, ElementOfSeq DEF Chain
  <1>2. PICK cut \in (Cuts(c) \cup {Len(c)}) \cap (1..Len(c)) :
          /\ r \in Seq(Loose) /\ Len(r) >= cut - 1 + 1
          /\ \A i \in 1..cut : r[i - 1 + 1] = Again(c[i])
    BY ChainRestored DEF BuiltFrom
  <1> HIDE DEF r
  <1>3. cut \in Nat /\ cut >= 1 /\ 1 - 1 + 1 = 1 /\ Len(r) \in Nat
    BY <1>1, <1>2, LenProperties
  <1>4. r[1] = Again(c[1]) /\ Len(r) >= 1
    BY <1>2, <1>3
  <1>5. Again(c[1]) \in Item /\ Again(c[1]).uuid = c[1].uuid
    BY <1>1, RestoredFacts DEF Again
  <1> QED BY <1>1, <1>2, <1>4, <1>5 DEF r

\* A chain that comes back is a chain, of the same cards up to a cut, and at most one more.
LEMMA ChainFacts ==
  ASSUME NEW c \in Chain, NEW options \in Options, NEW u \in 1..MaxUuid
  PROVE  LET r == RestoreChain(Serialize(c), options, u)
         IN  /\ r \in Chain /\ SameChain(c, r) /\ SubSeq(r, 1, 1) \in Chain
             /\ \A i \in DOMAIN r : \/ i \in DOMAIN c /\ r[i].uuid = c[i].uuid
                                    \/ i = Len(r) /\ r[i].uuid = u
  <1> DEFINE r == RestoreChain(Serialize(c), options, u)
  <1>1. /\ c \in Seq(Item) /\ Len(c) \in Nat /\ DOMAIN c = 1..Len(c) /\ \A i \in 1..Len(c) : c[i] \in Item
        /\ u \in 0..MaxUuid /\ u > 0
    BY LenProperties, SessionAssumption DEF Chain
  <1>2. PICK cut \in (Cuts(c) \cup {Len(c)}) \cap (1..Len(c)) :
          /\ r \in Seq(Loose) /\ Len(r) >= cut - 1 + 1
          /\ \A i \in 1..cut : r[i - 1 + 1] = Again(c[i])
          /\ \/ Len(r) = cut - 1 + 1
             \/ /\ Len(r) = cut - 1 + 2 /\ c[cut].type = "bucket" /\ r[cut - 1 + 2].type = "kventries"
                /\ r[cut - 1 + 2].uuid = u /\ (u > 0 => r[cut - 1 + 2] \in Item)
    BY <1>1, ChainRestored DEF BuiltFrom
  <1> HIDE DEF r
  <1>14. DOMAIN r = 1..Len(r) /\ Len(r) \in Nat
    BY <1>2, LenProperties
  <1>3. cut \in Nat /\ cut >= 1 /\ cut <= Len(c) /\ Len(c) \in Nat /\ Len(r) \in Nat
    BY <1>1, <1>2, <1>14
  <1>15. cut - 1 + 1 = cut /\ cut - 1 + 2 = cut + 1 /\ \A i \in 1..cut : i - 1 + 1 = i
    BY <1>3
  <1>4. \A i \in 1..cut : r[i] = Again(c[i])
    BY <1>2, <1>15
  <1> DEFINE More == /\ Len(r) = cut + 1 /\ c[cut].type = "bucket" /\ r[cut + 1].type = "kventries"
                     /\ r[cut + 1].uuid = u /\ r[cut + 1] \in Item
  <1>5. Len(r) = cut \/ More
    BY <1>1, <1>2, <1>15
  <1>16. Len(r) >= cut /\ (Len(r) # cut => Len(r) = cut + 1 /\ r[Len(r)].uuid = u /\ r[Len(r)] \in Item)
    BY <1>3, <1>5
  <1> HIDE DEF More
  <1>6. \A i \in 1..cut : r[i] \in Item /\ r[i].uuid = c[i].uuid /\ SameCard(c[i], r[i])
    <2> SUFFICES ASSUME NEW i \in 1..cut PROVE r[i] \in Item /\ r[i].uuid = c[i].uuid /\ SameCard(c[i], r[i])
      OBVIOUS
    <2>1. i \in 1..Len(c)
      BY <1>3
    <2>2. c[i] \in Item /\ r[i] = Again(c[i])
      BY <1>1, <1>4, <2>1
    <2> QED BY <2>2, RestoredFacts DEF Again
  <1>7. \A i \in 1..Len(r) : i \in 1..cut \/ (i = Len(r) /\ Len(r) = cut + 1)
    BY <1>3, <1>16
  <1>8. \A i \in 1..Len(r) : r[i] \in Item
    BY <1>3, <1>6, <1>7, <1>16
  <1>9. r \in Seq(Item)
    <2>1. r = [i \in 1..Len(r) |-> r[i]]
      BY <1>2, <1>14, LenProperties
    <2>2. [i \in 1..Len(r) |-> r[i]] \in Seq(Item)
      BY <1>8, <1>14, IsASeq
    <2> QED BY <2>1, <2>2
  <1>10. r \in Chain
    <2>1. Len(r) >= 1
      BY <1>3, <1>16
    <2>2. r # <<>>
      BY <1>3, <2>1, EmptySeq
    <2> QED BY <1>9, <2>2 DEF Chain
  <1>11. SameChain(c, r)
    <2>1. cut \in Cuts(c) \cup {Len(c)}
      BY <1>2
    <2> QED BY <1>5, <1>6, <1>16, <2>1 DEF SameChain, More
  <1>12. SubSeq(r, 1, 1) \in Chain
    <2>1. 1 \in 1..Len(r) /\ r[1] \in Item
      BY <1>3, <1>8, <1>16
    <2>2. SubSeq(r, 1, 1) \in Seq(Item) /\ Len(SubSeq(r, 1, 1)) = 1
      <3>1. \A i \in 1..1 : r[i] \in Item
        BY <2>1
      <3>2. /\ SubSeq(r, 1, 1) \in Seq(Item)
            /\ Len(SubSeq(r, 1, 1)) = IF 1 <= 1 THEN 1 - 1 + 1 ELSE 0
        BY <3>1, SubSeqProperties
      <3> QED BY <3>2
    <2>3. SubSeq(r, 1, 1) # <<>>
      <3>1. \A q : Len(q) = 1 => q # <<>>
        OBVIOUS
      <3> QED BY <2>2, <3>1
    <2> QED BY <2>2, <2>3 DEF Chain
  <1>13. \A i \in DOMAIN r : (i \in DOMAIN c /\ r[i].uuid = c[i].uuid) \/ (i = Len(r) /\ r[i].uuid = u)
    <2> SUFFICES ASSUME NEW i \in DOMAIN r
                 PROVE  (i \in DOMAIN c /\ r[i].uuid = c[i].uuid) \/ (i = Len(r) /\ r[i].uuid = u)
      OBVIOUS
    <2>1. CASE i \in 1..cut
      <3>1. i \in 1..Len(c)
        BY <1>3, <2>1
      <3> QED BY <1>1, <1>6, <2>1, <3>1
    <2>2. CASE i = Len(r) /\ Len(r) = cut + 1
      BY <1>3, <1>16, <2>2
    <2> QED BY <1>7, <1>14, <2>1, <2>2
  <1> QED BY <1>10, <1>11, <1>12, <1>13 DEF r

\* The new uuids are unused ones, each another one.
LEMMA NewUuidFacts ==
  /\ IsFiniteSet(Unused) /\ Cardinality(Unused) \in Nat /\ Unused \subseteq 1..MaxUuid
  /\ Unused \cap UsedUuids = {}
  /\ \A k \in 1..Cardinality(Unused) : NewUuid(k) \in Unused
  /\ \A k, l \in 1..Cardinality(Unused) : NewUuid(k) = NewUuid(l) => k = l
  <1>1. MaxUuid \in Nat /\ Unused \in SUBSET (1..MaxUuid) /\ Unused \cap UsedUuids = {}
    BY SessionAssumption DEF Unused
  <1>2. IsFiniteSet(Unused) /\ Cardinality(Unused) \in Nat
    BY <1>1, NumbersAreFinite
  <1>3. \A k \in 1..Cardinality(Unused) :
          NewUuid(k) \in Unused /\ Cardinality(Unused \cap (1..NewUuid(k))) = k
    <2> SUFFICES ASSUME NEW k \in 1..Cardinality(Unused)
                 PROVE  NewUuid(k) \in Unused /\ Cardinality(Unused \cap (1..NewUuid(k))) = k
      OBVIOUS
    <2>1. \E v \in Unused : Cardinality(Unused \cap (1..v)) = k
      BY <1>1, PlaceInPart
    <2> QED BY <2>1 DEF NewUuid
  <1>4. \A k, l \in 1..Cardinality(Unused) : NewUuid(k) = NewUuid(l) => k = l
    <2> SUFFICES ASSUME NEW k \in 1..Cardinality(Unused), NEW l \in 1..Cardinality(Unused),
                        NewUuid(k) = NewUuid(l)
                 PROVE  k = l
      OBVIOUS
    <2> QED BY <1>3
  <1> QED BY <1>1, <1>2, <1>3, <1>4

-----------------------------------------------------------------------------
(* Two decks. *)

Deck == [Places -> Seq(Chain)]
Separate(D) == \A s, r \in Spots(D) : At(D, s).uuid = At(D, r).uuid => s = r
Heads(D) == {At(D, s).uuid : s \in {t \in Spots(D) : t[3] = 1}}

LEMMA SpotFacts ==
  ASSUME NEW D \in Deck
  PROVE  /\ \A p \in Places : /\ D[p] \in Seq(Chain) /\ Len(D[p]) \in Nat /\ DOMAIN D[p] = 1..Len(D[p])
         /\ \A p \in Places : \A n \in 1..Len(D[p]) :
              /\ D[p][n] \in Chain /\ D[p][n] \in Seq(Item) /\ Len(D[p][n]) \in Nat /\ Len(D[p][n]) >= 1
              /\ DOMAIN D[p][n] = 1..Len(D[p][n]) /\ D[p][n][1] \in Item
         /\ \A s : s \in Spots(D) <=>
              \E p \in Places : \E n \in 1..Len(D[p]) : \E i \in 1..Len(D[p][n]) : s = <<p, n, i>>
         /\ \A p \in Places : \A n \in 1..Len(D[p]) : \A i \in 1..Len(D[p][n]) :
              /\ <<p, n, i>> \in Spots(D) /\ At(D, <<p, n, i>>) = D[p][n][i] /\ D[p][n][i] \in Item
         /\ \A s \in Spots(D) :
              /\ s[1] \in Places /\ s[2] \in 1..Len(D[s[1]]) /\ s[3] \in 1..Len(D[s[1]][s[2]])
              /\ s = <<s[1], s[2], s[3]>> /\ At(D, s) \in Item
  <1>1. \A p \in Places : D[p] \in Seq(Chain) /\ Len(D[p]) \in Nat /\ DOMAIN D[p] = 1..Len(D[p])
    <2> SUFFICES ASSUME NEW p \in Places
                 PROVE  D[p] \in Seq(Chain) /\ Len(D[p]) \in Nat /\ DOMAIN D[p] = 1..Len(D[p])
      OBVIOUS
    <2>1. D[p] \in Seq(Chain)
      BY DEF Deck
    <2> QED BY <2>1, LenProperties
  <1>2. \A p \in Places : \A n \in 1..Len(D[p]) :
          /\ D[p][n] \in Chain /\ D[p][n] \in Seq(Item) /\ Len(D[p][n]) \in Nat /\ Len(D[p][n]) >= 1
          /\ DOMAIN D[p][n] = 1..Len(D[p][n]) /\ D[p][n][1] \in Item
    <2> SUFFICES ASSUME NEW p \in Places, NEW n \in 1..Len(D[p])
                 PROVE  /\ D[p][n] \in Chain /\ D[p][n] \in Seq(Item) /\ Len(D[p][n]) \in Nat
                        /\ Len(D[p][n]) >= 1 /\ DOMAIN D[p][n] = 1..Len(D[p][n]) /\ D[p][n][1] \in Item
      OBVIOUS
    <2>1. D[p][n] \in Chain
      BY <1>1, ElementOfSeq
    <2>2. D[p][n] \in Seq(Item) /\ D[p][n] # <<>>
      BY <2>1 DEF Chain
    <2>3. /\ Len(D[p][n]) \in Nat /\ DOMAIN D[p][n] = 1..Len(D[p][n])
      BY <2>2, LenProperties
    <2>4. Len(D[p][n]) >= 1
      BY <2>2, <2>3, EmptySeq
    <2>5. 1 \in 1..Len(D[p][n])
      BY <2>3, <2>4
    <2>6. D[p][n][1] \in Item
      BY <2>2, <2>5, ElementOfSeq
    <2> QED BY <2>1, <2>2, <2>3, <2>4, <2>6
  <1>3. \A s : s \in Spots(D) <=>
          \E p \in Places : \E n \in 1..Len(D[p]) : \E i \in 1..Len(D[p][n]) : s = <<p, n, i>>
    <2> SUFFICES ASSUME NEW s
                 PROVE  s \in Spots(D) <=>
                   \E p \in Places : \E n \in 1..Len(D[p]) : \E i \in 1..Len(D[p][n]) : s = <<p, n, i>>
      OBVIOUS
    <2>1. s \in Spots(D) <=>
            \E p \in Places : \E n \in DOMAIN D[p] : s \in {<<p, n, i>> : i \in DOMAIN D[p][n]}
      <3> DEFINE Chains(p) == UNION {{<<p, n, i>> : i \in DOMAIN D[p][n]} : n \in DOMAIN D[p]}
      <3>1. Spots(D) = UNION {Chains(p) : p \in Places}
        BY DEF Spots
      <3>2. \A p : s \in Chains(p) <=> \E n \in DOMAIN D[p] : s \in {<<p, n, i>> : i \in DOMAIN D[p][n]}
        OBVIOUS
      <3> HIDE DEF Chains
      <3>3. s \in Spots(D) <=> \E p \in Places : s \in Chains(p)
        BY <3>1
      <3> QED BY <3>2, <3>3
    <2>2. \A p \in Places : \A n \in 1..Len(D[p]) :
            s \in {<<p, n, i>> : i \in DOMAIN D[p][n]} <=> \E i \in 1..Len(D[p][n]) : s = <<p, n, i>>
      BY <1>2
    <2>3. \A p \in Places :
            (\E n \in DOMAIN D[p] : s \in {<<p, n, i>> : i \in DOMAIN D[p][n]})
              <=> \E n \in 1..Len(D[p]) : \E i \in 1..Len(D[p][n]) : s = <<p, n, i>>
      BY <1>1, <2>2
    <2> QED BY <2>1, <2>3
  <1>4. ASSUME NEW p \in Places, NEW n \in 1..Len(D[p]), NEW i \in 1..Len(D[p][n])
        PROVE  /\ <<p, n, i>> \in Spots(D) /\ At(D, <<p, n, i>>) = D[p][n][i] /\ D[p][n][i] \in Item
    <2>1. D[p][n] \in Seq(Item)
      BY <1>2
    <2>2. D[p][n][i] \in Item
      BY <2>1, ElementOfSeq
    <2> QED BY <1>3, <2>2 DEF At
  <1>5. ASSUME NEW s \in Spots(D)
        PROVE  /\ s[1] \in Places /\ s[2] \in 1..Len(D[s[1]]) /\ s[3] \in 1..Len(D[s[1]][s[2]])
               /\ s = <<s[1], s[2], s[3]>> /\ At(D, s) \in Item
    <2>1. PICK p \in Places : \E n \in 1..Len(D[p]) : \E i \in 1..Len(D[p][n]) : s = <<p, n, i>>
      BY <1>3
    <2>2. PICK n \in 1..Len(D[p]) : \E i \in 1..Len(D[p][n]) : s = <<p, n, i>>
      BY <2>1
    <2>3. PICK i \in 1..Len(D[p][n]) : s = <<p, n, i>>
      BY <2>2
    <2>4. s[1] = p /\ s[2] = n /\ s[3] = i
      BY <2>3
    <2> QED BY <1>4, <2>3, <2>4
  <1> QED BY <1>1, <1>2, <1>3, <1>4, <1>5

\* D2 comes of D: no card twice, and what begins a chain still does.
Follows(D2, D) ==
  Separate(D) => Separate(D2) /\ \A u \in DeckUuids(D2) \cap Heads(D) : u \in Heads(D2)

\* g tells where a card of D2 was in D.
LEMMA TracedFacts ==
  ASSUME NEW D, NEW D2, NEW g,
         \A s \in Spots(D2) : At(D2, s).uuid \in DeckUuids(D) =>
           g[s] \in Spots(D) /\ At(D, g[s]).uuid = At(D2, s).uuid /\ (g[s][3] = 1 => s[3] = 1),
         \A s, r \in Spots(D2) :
           At(D2, s).uuid \in DeckUuids(D) /\ At(D2, r).uuid \in DeckUuids(D) /\ g[s] = g[r] => s = r,
         \A s, r \in Spots(D2) :
           At(D2, s).uuid \notin DeckUuids(D) /\ At(D2, r).uuid = At(D2, s).uuid => s = r
  PROVE  Follows(D2, D)
  <1> SUFFICES ASSUME Separate(D)
               PROVE  Separate(D2) /\ \A u \in DeckUuids(D2) \cap Heads(D) : u \in Heads(D2)
    BY DEF Follows
  <1>1. ASSUME NEW s \in Spots(D2), NEW r \in Spots(D2), At(D2, s).uuid = At(D2, r).uuid PROVE s = r
    <2>1. CASE At(D2, s).uuid \in DeckUuids(D)
      <3>1. /\ g[s] \in Spots(D) /\ At(D, g[s]).uuid = At(D2, s).uuid
            /\ g[r] \in Spots(D) /\ At(D, g[r]).uuid = At(D2, r).uuid
        BY <1>1, <2>1
      <3>2. g[s] = g[r]
        BY <1>1, <3>1 DEF Separate
      <3> QED BY <1>1, <2>1, <3>2
    <2>2. CASE At(D2, s).uuid \notin DeckUuids(D)
      BY <1>1, <2>2
    <2> QED BY <2>1, <2>2
  <1>2. ASSUME NEW u \in DeckUuids(D2) \cap Heads(D) PROVE u \in Heads(D2)
    <2>1. PICK s \in Spots(D2) : At(D2, s).uuid = u
      BY DEF DeckUuids
    <2>2. PICK t \in Spots(D) : t[3] = 1 /\ At(D, t).uuid = u
      BY DEF Heads
    <2>3. u \in DeckUuids(D)
      BY <2>2 DEF DeckUuids
    <2>4. g[s] \in Spots(D) /\ At(D, g[s]).uuid = u /\ (g[s][3] = 1 => s[3] = 1)
      BY <2>1, <2>3
    <2>5. g[s] = t
      BY <2>2, <2>4 DEF Separate
    <2>6. s \in {t2 \in Spots(D2) : t2[3] = 1}
      BY <2>2, <2>4, <2>5
    <2> QED BY <2>1, <2>6 DEF Heads
  <1> QED BY <1>1, <1>2 DEF Separate

\* Cards stay where they are, and the others are new ones.
LEMMA StayedFacts ==
  ASSUME NEW D, NEW D2,
         \A s \in Spots(D2) : At(D2, s).uuid \in DeckUuids(D) =>
           s \in Spots(D) /\ At(D, s).uuid = At(D2, s).uuid,
         \A s, r \in Spots(D2) :
           At(D2, s).uuid \notin DeckUuids(D) /\ At(D2, r).uuid = At(D2, s).uuid => s = r
  PROVE  Follows(D2, D)
  <1> DEFINE g == [s \in Spots(D2) |-> s]
  <1>1. \A s \in Spots(D2) : g[s] = s
    OBVIOUS
  <1> HIDE DEF g
  <1> QED BY <1>1, TracedFacts

\* All cards but one stay, and that one has a uuid of its own.
OneMore(D2, D, x, u) ==
  \A t \in Spots(D2) : \/ t \in Spots(D) /\ At(D, t).uuid = At(D2, t).uuid
                       \/ t = x /\ At(D2, t).uuid = u
LEMMA OneMoreFacts ==
  ASSUME NEW D, NEW D2, NEW x, NEW u, u \notin DeckUuids(D), OneMore(D2, D, x, u)
  PROVE  Follows(D2, D) /\ DeckUuids(D2) \subseteq DeckUuids(D) \cup {u}
  <1> USE DEF OneMore
  <1>1. \A t \in Spots(D2) : At(D2, t).uuid \in DeckUuids(D) \/ At(D2, t).uuid = u
    BY DEF DeckUuids
  <1>2. DeckUuids(D2) \subseteq DeckUuids(D) \cup {u}
    BY <1>1 DEF DeckUuids
  <1>3. \A t \in Spots(D2) : At(D2, t).uuid \in DeckUuids(D) =>
           t \in Spots(D) /\ At(D, t).uuid = At(D2, t).uuid
    OBVIOUS
  <1>4. \A t \in Spots(D2) : At(D2, t).uuid \notin DeckUuids(D) => t = x
    BY DEF DeckUuids
  <1>5. \A s, r \in Spots(D2) :
           At(D2, s).uuid \notin DeckUuids(D) /\ At(D2, r).uuid = At(D2, s).uuid => s = r
    BY <1>4
  <1> QED BY <1>2, <1>3, <1>5, StayedFacts

LEMMA WithChainFacts ==
  ASSUME deck \in Deck, NEW s \in Spots(deck), NEW chain \in Chain, NEW u, u \notin DeckUuids(deck),
         \A i \in 1..Len(chain) : \/ i \in 1..Len(ChainAt(s)) /\ chain[i].uuid = ChainAt(s)[i].uuid
                                  \/ i = Len(chain) /\ chain[i].uuid = u
  PROVE  /\ WithChain(s, chain) \in Deck /\ Follows(WithChain(s, chain), deck)
         /\ DeckUuids(WithChain(s, chain)) \subseteq DeckUuids(deck) \cup {u}
  <1> DEFINE D == WithChain(s, chain)
  <1> DEFINE p == s[1]
             n == s[2]
  <1>1. p \in Places /\ n \in 1..Len(deck[p]) /\ s[3] \in 1..Len(deck[p][n])
    BY SpotFacts
  <1>2. deck[p] \in Seq(Chain) /\ deck \in [Places -> Seq(Chain)]
    BY <1>1 DEF Deck
  <1>3. D = [deck EXCEPT ![p] = [deck[p] EXCEPT ![n] = chain]] /\ ChainAt(s) = deck[p][n]
    BY <1>1, <1>2 DEF WithChain, ChainAt
  <1> HIDE DEF p, n
  <1> DEFINE q == [deck[p] EXCEPT ![n] = chain]
  <1>4. /\ q \in Seq(Chain) /\ Len(q) = Len(deck[p])
        /\ \A j \in 1..Len(deck[p]) : q[j] = IF j = n THEN chain ELSE deck[p][j]
    BY <1>1, <1>2, ExceptSeq
  <1>13. D = [deck EXCEPT ![p] = q]
    BY <1>3
  <1> HIDE DEF q, D
  <1>5. D \in Deck /\ D[p] = q /\ \A o \in Places : o # p => D[o] = deck[o]
    BY <1>1, <1>2, <1>13, <1>4 DEF Deck
  <1>6. \A t \in Spots(D) : \/ t \in Spots(deck) /\ At(deck, t).uuid = At(D, t).uuid
                            \/ t = <<p, n, Len(chain)>> /\ At(D, t).uuid = u
    <2> SUFFICES ASSUME NEW o \in Places, NEW m \in 1..Len(D[o]), NEW i \in 1..Len(D[o][m])
                 PROVE  \/ <<o, m, i>> \in Spots(deck) /\ At(deck, <<o, m, i>>).uuid = At(D, <<o, m, i>>).uuid
                        \/ <<o, m, i>> = <<p, n, Len(chain)>> /\ At(D, <<o, m, i>>).uuid = u
      BY <1>5, SpotFacts
    <2>1. At(D, <<o, m, i>>) = D[o][m][i]
      BY <1>5, SpotFacts
    <2>2. CASE o = p /\ m = n
      <3>1. D[o][m] = chain
        BY <1>4, <1>5, <2>2
      <3>2. CASE i \in 1..Len(ChainAt(s)) /\ chain[i].uuid = ChainAt(s)[i].uuid
        <4>1. <<o, m, i>> \in Spots(deck) /\ At(deck, <<o, m, i>>) = deck[o][m][i]
          BY <1>3, <2>2, <3>2, SpotFacts
        <4> QED BY <1>3, <2>1, <2>2, <3>1, <3>2, <4>1
      <3>3. CASE i = Len(chain) /\ chain[i].uuid = u
        BY <2>1, <2>2, <3>1, <3>3
      <3> QED BY <3>1, <3>2, <3>3
    <2>3. CASE ~(o = p /\ m = n)
      <3>1. m \in 1..Len(deck[o]) /\ D[o][m] = deck[o][m]
        BY <1>4, <1>5, <2>3
      <3>2. <<o, m, i>> \in Spots(deck) /\ At(deck, <<o, m, i>>) = deck[o][m][i]
        BY <3>1, SpotFacts
      <3> QED BY <2>1, <3>1, <3>2
    <2> QED BY <2>2, <2>3
  <1>7. Follows(D, deck) /\ DeckUuids(D) \subseteq DeckUuids(deck) \cup {u}
    <2> DEFINE x == <<p, n, Len(chain)>>
    <2>1. OneMore(D, deck, x, u)
      BY <1>6 DEF OneMore
    <2> HIDE DEF x
    <2> QED BY <2>1, OneMoreFacts
  <1> QED BY <1>5, <1>7 DEF D

LEMMA WithRootFacts ==
  ASSUME deck \in Deck, NEW p \in Places, NEW c \in Item, c.uuid \notin DeckUuids(deck)
  PROVE  /\ WithRoot(p, c) \in Deck /\ Follows(WithRoot(p, c), deck)
         /\ DeckUuids(WithRoot(p, c)) = DeckUuids(deck) \cup {c.uuid}
         /\ c.uuid \in Heads(WithRoot(p, c))
  <1> DEFINE D == WithRoot(p, c)
             q == Append(deck[p], <<c>>)
             n == Len(deck[p])
  <1>1. deck[p] \in Seq(Chain) /\ deck \in [Places -> Seq(Chain)] /\ n \in Nat
    BY SpotFacts DEF Deck
  <1>2. <<c>> \in Chain /\ Len(<<c>>) = 1 /\ <<c>>[1] = c
    BY DEF Chain
  <1>3. D = [deck EXCEPT ![p] = q]
    BY DEF WithRoot
  <1>4. /\ q \in Seq(Chain) /\ Len(q) = n + 1 /\ \A j \in 1..n : q[j] = deck[p][j]
        /\ q[n + 1] = <<c>>
    <2> DEFINE e == <<c>>
    <2>1. e \in Chain
      BY <1>2
    <2> HIDE DEF e
    <2>2. /\ Append(deck[p], e) \in Seq(Chain) /\ Len(Append(deck[p], e)) = n + 1
          /\ \A j \in 1..n : Append(deck[p], e)[j] = deck[p][j] /\ Append(deck[p], e)[n + 1] = e
      BY <1>1, <2>1, AppendProperties
    <2>3. Append(deck[p], e)[n + 1] = e
      BY <1>1, <2>1, AppendProperties
    <2> QED BY <2>2, <2>3 DEF e
  <1> HIDE DEF q
  <1>5. D \in Deck /\ D[p] = q /\ \A o \in Places : o # p => D[o] = deck[o]
    BY <1>1, <1>3, <1>4 DEF Deck
  <1> HIDE DEF D, n
  <1>6. /\ n + 1 \in 1..Len(D[p]) /\ D[p][n + 1] = <<c>> /\ 1 \in 1..Len(D[p][n + 1])
        /\ D[p][n + 1][1] = c
    BY <1>1, <1>2, <1>4, <1>5
  <1>7. <<p, n + 1, 1>> \in Spots(D) /\ At(D, <<p, n + 1, 1>>) = c
    BY <1>5, <1>6, SpotFacts
  <1>8. c.uuid \in Heads(D) /\ c.uuid \in DeckUuids(D)
    <2>1. <<p, n + 1, 1>>[3] = 1
      OBVIOUS
    <2>2. <<p, n + 1, 1>> \in {t \in Spots(D) : t[3] = 1}
      BY <1>7, <2>1
    <2> QED BY <1>7, <2>2 DEF Heads, DeckUuids
  <1>9. \A t \in Spots(deck) : t \in Spots(D) /\ At(D, t) = At(deck, t)
    <2> SUFFICES ASSUME NEW o \in Places, NEW m \in 1..Len(deck[o]), NEW i \in 1..Len(deck[o][m])
                 PROVE  <<o, m, i>> \in Spots(D) /\ At(D, <<o, m, i>>) = At(deck, <<o, m, i>>)
      BY SpotFacts
    <2>1. m \in 1..Len(D[o]) /\ D[o][m] = deck[o][m]
      <3>1. CASE o = p
        BY <1>1, <1>4, <1>5, <3>1 DEF n
      <3>2. CASE o # p
        BY <1>5, <3>2
      <3> QED BY <3>1, <3>2
    <2>2. i \in 1..Len(D[o][m])
      BY <2>1
    <2>3. At(deck, <<o, m, i>>) = deck[o][m][i]
      BY SpotFacts
    <2>4. <<o, m, i>> \in Spots(D) /\ At(D, <<o, m, i>>) = D[o][m][i]
      BY <1>5, <2>1, <2>2, SpotFacts
    <2> QED BY <2>1, <2>3, <2>4
  <1>10. \A t \in Spots(D) : \/ t \in Spots(deck) /\ At(deck, t).uuid = At(D, t).uuid
                             \/ t = <<p, n + 1, 1>> /\ At(D, t).uuid = c.uuid
    <2> SUFFICES ASSUME NEW t \in Spots(D)
                 PROVE  \/ t \in Spots(deck)
                        \/ t = <<p, n + 1, 1>>
      BY <1>7, <1>9
    <2>1. PICK o \in Places : \E m \in 1..Len(D[o]) : \E i \in 1..Len(D[o][m]) : t = <<o, m, i>>
      BY <1>5, SpotFacts
    <2>2. PICK m \in 1..Len(D[o]) : \E i \in 1..Len(D[o][m]) : t = <<o, m, i>>
      BY <2>1
    <2>3. PICK i \in 1..Len(D[o][m]) : t = <<o, m, i>>
      BY <2>2
    <2>4. CASE o = p /\ m = n + 1
      <3>1. Len(D[o][m]) = 1
        BY <1>2, <1>6, <2>4
      <3>2. i = 1
        BY <3>1
      <3> QED BY <2>3, <2>4, <3>2
    <2>5. CASE ~(o = p /\ m = n + 1)
      <3>1. m \in 1..Len(deck[o]) /\ D[o][m] = deck[o][m]
        <4>1. CASE o = p
          BY <1>1, <1>4, <1>5, <2>5, <4>1 DEF n
        <4>2. CASE o # p
          BY <1>5, <4>2
        <4> QED BY <4>1, <4>2
      <3> QED BY <2>3, <3>1, SpotFacts
    <2> QED BY <2>4, <2>5
  <1>11. Follows(D, deck) /\ DeckUuids(D) \subseteq DeckUuids(deck) \cup {c.uuid}
    <2> DEFINE x == <<p, n + 1, 1>>
               u == c.uuid
    <2>1. OneMore(D, deck, x, u)
      BY <1>10 DEF OneMore
    <2>2. u \notin DeckUuids(deck)
      OBVIOUS
    <2> HIDE DEF x, u
    <2>3. Follows(D, deck) /\ DeckUuids(D) \subseteq DeckUuids(deck) \cup {u}
      BY <2>1, <2>2, OneMoreFacts
    <2> QED BY <2>3 DEF u
  <1>12. DeckUuids(deck) \subseteq DeckUuids(D)
    BY <1>9 DEF DeckUuids
  <1> QED BY <1>5, <1>8, <1>11, <1>12 DEF D

LEMMA RemoveAtFacts ==
  ASSUME NEW S, NEW q \in Seq(S), NEW n \in 1..Len(q)
  PROVE  /\ RemoveAt(q, n) \in Seq(S) /\ Len(RemoveAt(q, n)) = Len(q) - 1
         /\ \A j \in 1..(Len(q) - 1) : RemoveAt(q, n)[j] = IF j < n THEN q[j] ELSE q[j + 1]
  <1> DEFINE a == SubSeq(q, 1, n - 1)
             b == SubSeq(q, n + 1, Len(q))
  <1>1. Len(q) \in Nat /\ n \in Nat /\ n >= 1 /\ n <= Len(q) /\ \A j \in 1..Len(q) : q[j] \in S
    BY LenProperties
  <1>2. a \in Seq(S) /\ Len(a) = n - 1 /\ \A j \in 1..(n - 1) : a[j] = q[j]
    <2>1. \A j \in 1..(n - 1) : q[j] \in S
      BY <1>1
    <2>2. /\ a \in Seq(S) /\ Len(a) = (IF 1 <= n - 1 THEN n - 1 - 1 + 1 ELSE 0)
          /\ \A j \in 1..(n - 1 - 1 + 1) : a[j] = q[1 + j - 1]
      BY <1>1, <2>1, SubSeqProperties
    <2> HIDE DEF a
    <2> QED BY <1>1, <2>2
  <1>3. b \in Seq(S) /\ Len(b) = Len(q) - n /\ \A j \in 1..(Len(q) - n) : b[j] = q[n + j]
    <2>1. \A j \in (n + 1)..Len(q) : q[j] \in S
      BY <1>1
    <2>2. /\ b \in Seq(S) /\ Len(b) = (IF n + 1 <= Len(q) THEN Len(q) - (n + 1) + 1 ELSE 0)
          /\ \A j \in 1..(Len(q) - (n + 1) + 1) : b[j] = q[n + 1 + j - 1]
      BY <1>1, <2>1, SubSeqProperties
    <2> HIDE DEF b
    <2> QED BY <1>1, <2>2
  <1>4. RemoveAt(q, n) = a \o b
    BY DEF RemoveAt
  <1> HIDE DEF a, b
  <1>5. /\ a \o b \in Seq(S) /\ Len(a \o b) = Len(a) + Len(b)
        /\ \A j \in 1..(Len(a) + Len(b)) : (a \o b)[j] = IF j <= Len(a) THEN a[j] ELSE b[j - Len(a)]
    BY <1>2, <1>3, ConcatProperties
  <1>6. Len(a) = n - 1 /\ Len(a) + Len(b) = Len(q) - 1
    BY <1>1, <1>2, <1>3
  <1>7. ASSUME NEW j \in 1..(Len(q) - 1)
        PROVE  (a \o b)[j] = IF j < n THEN q[j] ELSE q[j + 1]
    <2>1. (a \o b)[j] = IF j <= n - 1 THEN a[j] ELSE b[j - (n - 1)]
      BY <1>5, <1>6
    <2>2. CASE j < n
      <3>1. j \in 1..(n - 1) /\ j <= n - 1
        BY <1>1, <2>2
      <3> QED BY <1>2, <2>1, <2>2, <3>1
    <2>3. CASE ~(j < n)
      <3>1. ~(j <= n - 1) /\ j - (n - 1) \in 1..(Len(q) - n) /\ n + (j - (n - 1)) = j + 1
        BY <1>1, <2>3
      <3> QED BY <1>3, <2>1, <2>3, <3>1
    <2> QED BY <2>2, <2>3
  <1> HIDE DEF a, b
  <1> QED BY <1>4, <1>5, <1>6, <1>7

\* No new card: g tells where each was.
Came(D2, D, g) ==
  /\ \A t \in Spots(D2) : g[t] \in Spots(D) /\ At(D, g[t]).uuid = At(D2, t).uuid /\ (g[t][3] = 1 => t[3] = 1)
  /\ \A t, r \in Spots(D2) : g[t] = g[r] => t = r
LEMMA CameFacts ==
  ASSUME NEW D, NEW D2, NEW g, Came(D2, D, g)
  PROVE  Follows(D2, D) /\ DeckUuids(D2) \subseteq DeckUuids(D)
  <1>1. DeckUuids(D2) \subseteq DeckUuids(D)
    BY DEF Came, DeckUuids
  <1>2. \A t \in Spots(D2) : At(D2, t).uuid \in DeckUuids(D)
    BY <1>1 DEF DeckUuids
  <1>3. Follows(D2, D)
    BY <1>2, TracedFacts DEF Came
  <1> QED BY <1>1, <1>3

LEMMA RemovedFacts ==
  ASSUME deck \in Deck, NEW p \in Places, NEW n \in 1..Len(deck[p])
  PROVE  LET D == [deck EXCEPT ![p] = RemoveAt(deck[p], n)]
         IN  D \in Deck /\ Follows(D, deck) /\ DeckUuids(D) \subseteq DeckUuids(deck)
  <1> DEFINE q == RemoveAt(deck[p], n)
             D == [deck EXCEPT ![p] = q]
             g == [t \in Spots(D) |-> IF t[1] = p /\ t[2] >= n THEN <<p, t[2] + 1, t[3]>> ELSE t]
  <1>1. deck[p] \in Seq(Chain) /\ deck \in [Places -> Seq(Chain)] /\ Len(deck[p]) \in Nat /\ n \in Nat
    BY SpotFacts DEF Deck
  <1>2. /\ q \in Seq(Chain) /\ Len(q) = Len(deck[p]) - 1
        /\ \A j \in 1..(Len(deck[p]) - 1) : q[j] = IF j < n THEN deck[p][j] ELSE deck[p][j + 1]
    BY <1>1, RemoveAtFacts
  <1> HIDE DEF q
  <1>3. D \in Deck /\ D[p] = q /\ \A o \in Places : o # p => D[o] = deck[o]
    BY <1>1, <1>2 DEF Deck
  <1> HIDE DEF D
  <1>4. \A o \in Places : \A m \in 1..Len(D[o]) : \A i \in 1..Len(D[o][m]) :
          LET t == <<o, m, i>> IN
            /\ t \in Spots(D) /\ At(D, t) = D[o][m][i]
            /\ g[t] = IF o = p /\ m >= n THEN <<p, m + 1, i>> ELSE <<o, m, i>>
    BY <1>3, SpotFacts
  <1>5. \A t \in Spots(D) : \E o \in Places : \E m \in 1..Len(D[o]) : \E i \in 1..Len(D[o][m]) : t = <<o, m, i>>
    BY <1>3, SpotFacts
  <1> HIDE DEF g
  <1>6. ASSUME NEW o \in Places, NEW m \in 1..Len(D[o]), NEW i \in 1..Len(D[o][m])
        PROVE  LET t == <<o, m, i>> IN
                 g[t] \in Spots(deck) /\ At(deck, g[t]).uuid = At(D, t).uuid /\ (g[t][3] = 1 => t[3] = 1)
    <2> DEFINE t == <<o, m, i>>
    <2>1. At(D, t) = D[o][m][i] /\ g[t] = IF o = p /\ m >= n THEN <<p, m + 1, i>> ELSE <<o, m, i>>
      BY <1>4
    <2>2. CASE o = p /\ m >= n
      <3>1. m + 1 \in 1..Len(deck[p]) /\ D[o][m] = deck[p][m + 1]
        BY <1>1, <1>2, <1>3, <2>2
      <3>2. g[t] = <<p, m + 1, i>>
        BY <2>1, <2>2
      <3>3. <<p, m + 1, i>> \in Spots(deck) /\ At(deck, <<p, m + 1, i>>) = deck[p][m + 1][i]
        BY <3>1, SpotFacts
      <3> QED BY <2>1, <3>1, <3>2, <3>3
    <2>3. CASE ~(o = p /\ m >= n)
      <3>1. m \in 1..Len(deck[o]) /\ D[o][m] = deck[o][m]
        <4>1. CASE o = p
          BY <1>1, <1>2, <1>3, <2>3, <4>1, SMTT(30)
        <4>2. CASE o # p
          BY <1>3, <4>2
        <4> QED BY <4>1, <4>2
      <3>2. g[t] = <<o, m, i>>
        BY <2>1, <2>3
      <3>3. <<o, m, i>> \in Spots(deck) /\ At(deck, <<o, m, i>>) = deck[o][m][i]
        BY <3>1, SpotFacts
      <3> QED BY <2>1, <3>1, <3>2, <3>3
    <2> QED BY <2>2, <2>3
  <1>8. Came(D, deck, g)
    <2>1. ASSUME NEW t \in Spots(D)
          PROVE  g[t] \in Spots(deck) /\ At(deck, g[t]).uuid = At(D, t).uuid /\ (g[t][3] = 1 => t[3] = 1)
      <3>1. PICK o \in Places : \E m \in 1..Len(D[o]) : \E i \in 1..Len(D[o][m]) : t = <<o, m, i>>
        BY <1>5
      <3>2. PICK m \in 1..Len(D[o]) : \E i \in 1..Len(D[o][m]) : t = <<o, m, i>>
        BY <3>1
      <3>3. PICK i \in 1..Len(D[o][m]) : t = <<o, m, i>>
        BY <3>2
      <3> QED BY <1>6, <3>3
    <2>2. ASSUME NEW t \in Spots(D), NEW r \in Spots(D), g[t] = g[r] PROVE t = r
      <3>1. PICK o \in Places : \E m \in 1..Len(D[o]) : \E i \in 1..Len(D[o][m]) : t = <<o, m, i>>
        BY <1>5
      <3>2. PICK m \in 1..Len(D[o]) : \E i \in 1..Len(D[o][m]) : t = <<o, m, i>>
        BY <3>1
      <3>3. PICK i \in 1..Len(D[o][m]) : t = <<o, m, i>>
        BY <3>2
      <3>4. PICK o2 \in Places : \E m2 \in 1..Len(D[o2]) : \E i2 \in 1..Len(D[o2][m2]) : r = <<o2, m2, i2>>
        BY <1>5
      <3>5. PICK m2 \in 1..Len(D[o2]) : \E i2 \in 1..Len(D[o2][m2]) : r = <<o2, m2, i2>>
        BY <3>4
      <3>6. PICK i2 \in 1..Len(D[o2][m2]) : r = <<o2, m2, i2>>
        BY <3>5
      <3>7. g[<<o, m, i>>] = g[<<o2, m2, i2>>]
        BY <2>2, <3>3, <3>6
      <3>9. <<o, m, i>> = <<o2, m2, i2>>
        <4>1. m \in Nat /\ m2 \in Nat
          OBVIOUS
        <4>2. /\ g[<<o, m, i>>] = IF o = p /\ m >= n THEN <<p, m + 1, i>> ELSE <<o, m, i>>
              /\ g[<<o2, m2, i2>>] = IF o2 = p /\ m2 >= n THEN <<p, m2 + 1, i2>> ELSE <<o2, m2, i2>>
          BY <1>4
        <4>3. CASE o = p /\ m >= n
          <5>1. g[<<o, m, i>>] = <<p, m + 1, i>>
            BY <4>2, <4>3
          <5>2. CASE o2 = p /\ m2 >= n
            <6>1. <<p, m + 1, i>> = <<p, m2 + 1, i2>>
              BY <3>7, <4>2, <5>1, <5>2
            <6>2. m + 1 = m2 + 1 /\ i = i2
              BY <6>1
            <6> QED BY <4>1, <4>3, <5>2, <6>2
          <5>3. CASE ~(o2 = p /\ m2 >= n)
            <6>1. <<p, m + 1, i>> = <<o2, m2, i2>>
              BY <3>7, <4>2, <5>1, <5>3
            <6>2. o2 = p /\ m2 = m + 1
              BY <6>1
            <6> QED BY <1>1, <4>1, <4>3, <5>3, <6>2
          <5> QED BY <5>2, <5>3
        <4>4. CASE ~(o = p /\ m >= n)
          <5>1. g[<<o, m, i>>] = <<o, m, i>>
            BY <4>2, <4>4
          <5>2. CASE o2 = p /\ m2 >= n
            <6>1. <<o, m, i>> = <<p, m2 + 1, i2>>
              BY <3>7, <4>2, <5>1, <5>2
            <6>2. o = p /\ m = m2 + 1
              BY <6>1
            <6> QED BY <1>1, <4>1, <4>4, <5>2, <6>2
          <5>3. CASE ~(o2 = p /\ m2 >= n)
            BY <3>7, <4>2, <5>1, <5>3
          <5> QED BY <5>2, <5>3
        <4> QED BY <4>3, <4>4
      <3> QED BY <3>3, <3>6, <3>9
    <2> QED BY <2>1, <2>2 DEF Came
  <1>9. Follows(D, deck) /\ DeckUuids(D) \subseteq DeckUuids(deck)
    BY <1>8, CameFacts
  <1> QED BY <1>3, <1>9 DEF D, q

\* The chain of a card moves to the other deck, or the end of it that the card begins.
LEMMA MovedFacts ==
  ASSUME deck \in Deck, NEW s \in Spots(deck)
  PROVE  Moved(s) \in Deck /\ Follows(Moved(s), deck) /\ DeckUuids(Moved(s)) \subseteq DeckUuids(deck)
  <1> DEFINE p == s[1]
             n == s[2]
             k == s[3]
             c == deck[p][n]
             tail == SubSeq(c, k, Len(c))
             head == SubSeq(c, 1, k - 1)
             D == Moved(s)
             over(t) == t[1] # p /\ t[2] = Len(deck[t[1]]) + 1
             past(t) == t[1] = p /\ k = 1 /\ t[2] >= n
             g == [t \in Spots(D) |-> IF over(t) THEN <<p, n, t[3] + k - 1>>
                                      ELSE IF past(t) THEN <<p, t[2] + 1, t[3]>> ELSE t]
  <1>1. /\ p \in Places /\ n \in 1..Len(deck[p]) /\ k \in 1..Len(c)
        /\ \A o \in Places : deck[o] \in Seq(Chain) /\ Len(deck[o]) \in Nat
        /\ n \in Nat /\ k \in Nat /\ c \in Seq(Item) /\ Len(c) \in Nat /\ \A j \in 1..Len(c) : c[j] \in Item
    <2>1. /\ p \in Places /\ n \in 1..Len(deck[p]) /\ k \in 1..Len(c)
          /\ \A o \in Places : deck[o] \in Seq(Chain) /\ Len(deck[o]) \in Nat
      BY SpotFacts
    <2>2. c \in Seq(Item) /\ Len(c) \in Nat
      BY <2>1, SpotFacts
    <2>3. \A j \in 1..Len(c) : c[j] \in Item
      BY <2>2, ElementOfSeq
    <2> QED BY <2>1, <2>2, <2>3
  <1>2. /\ tail \in Chain /\ Len(tail) = Len(c) - k + 1
        /\ \A j \in 1..(Len(c) - k + 1) : tail[j] = c[k + j - 1]
    <2>1. \A j \in k..Len(c) : c[j] \in Item
      BY <1>1
    <2> HIDE DEF k, c
    <2>2. /\ tail \in Seq(Item) /\ Len(tail) = (IF k <= Len(c) THEN Len(c) - k + 1 ELSE 0)
          /\ \A j \in 1..(Len(c) - k + 1) : tail[j] = c[k + j - 1]
      BY <1>1, <2>1, SubSeqProperties
    <2> HIDE DEF tail
    <2>3. Len(tail) = Len(c) - k + 1 /\ Len(tail) >= 1
      BY <1>1, <2>2
    <2>4. tail # <<>>
      BY <2>3, EmptySeq
    <2> QED BY <2>2, <2>3, <2>4 DEF Chain
  <1>3. ASSUME k # 1
        PROVE  head \in Chain /\ Len(head) = k - 1 /\ \A j \in 1..(k - 1) : head[j] = c[j]
    <2>1. \A j \in 1..(k - 1) : c[j] \in Item
      BY <1>1
    <2> HIDE DEF k, c
    <2>2. /\ head \in Seq(Item) /\ Len(head) = (IF 1 <= k - 1 THEN k - 1 - 1 + 1 ELSE 0)
          /\ \A j \in 1..(k - 1 - 1 + 1) : head[j] = c[1 + j - 1]
      BY <1>1, <2>1, SubSeqProperties
    <2> HIDE DEF head
    <2>3. Len(head) = k - 1 /\ Len(head) >= 1 /\ \A j \in 1..(k - 1) : head[j] = c[j]
      BY <1>1, <1>3, <2>2
    <2>4. head # <<>>
      BY <2>3, EmptySeq
    <2> QED BY <2>2, <2>3, <2>4 DEF Chain
  <1>4. /\ D = [o \in Places |-> IF o # p THEN Append(deck[o], tail)
                                 ELSE IF k = 1 THEN RemoveAt(deck[o], n)
                                 ELSE [deck[o] EXCEPT ![n] = head]]
    BY DEF Moved, ChainAt
  <1> HIDE DEF p, n, k, c, tail, head
  \* The other deck.
  <1>5. ASSUME NEW o \in Places, o # p
        PROVE  /\ D[o] \in Seq(Chain) /\ Len(D[o]) = Len(deck[o]) + 1 /\ D[o][Len(deck[o]) + 1] = tail
               /\ \A m \in 1..Len(deck[o]) : D[o][m] = deck[o][m]
    <2>1. D[o] = Append(deck[o], tail)
      BY <1>4, <1>5
    <2> HIDE DEF D
    <2> QED BY <1>1, <1>2, <2>1, AppendProperties
  \* Its own deck.
  <1>6. ASSUME k = 1
        PROVE  /\ D[p] \in Seq(Chain) /\ Len(D[p]) = Len(deck[p]) - 1
               /\ \A m \in 1..(Len(deck[p]) - 1) : D[p][m] = IF m < n THEN deck[p][m] ELSE deck[p][m + 1]
    <2>1. D[p] = RemoveAt(deck[p], n)
      BY <1>1, <1>4, <1>6
    <2> HIDE DEF D
    <2> QED BY <1>1, <2>1, RemoveAtFacts
  <1>7. ASSUME k # 1
        PROVE  /\ D[p] \in Seq(Chain) /\ Len(D[p]) = Len(deck[p])
               /\ \A m \in 1..Len(deck[p]) : D[p][m] = IF m = n THEN head ELSE deck[p][m]
    <2>1. D[p] = [deck[p] EXCEPT ![n] = head]
      BY <1>1, <1>4, <1>7
    <2> HIDE DEF D
    <2> QED BY <1>1, <1>3, <1>7, <2>1, ExceptSeq
  <1>8. D \in Deck
    <2>1. \A o \in Places : D[o] \in Seq(Chain)
      BY <1>5, <1>6, <1>7
    <2>2. D = [o \in Places |-> D[o]]
      BY <1>4
    <2> QED BY <2>1, <2>2 DEF Deck
  <1>9. /\ \A t \in Spots(D) : g[t] = IF over(t) THEN <<p, n, t[3] + k - 1>>
                                      ELSE IF past(t) THEN <<p, t[2] + 1, t[3]>> ELSE t
    OBVIOUS
  <1> HIDE DEF D, g
  <1>10. \A t \in Spots(D) : /\ t[1] \in Places /\ t[2] \in 1..Len(D[t[1]]) /\ t[3] \in 1..Len(D[t[1]][t[2]])
                             /\ t = <<t[1], t[2], t[3]>> /\ t[2] \in Nat /\ t[3] \in Nat
                             /\ At(D, t) = D[t[1]][t[2]][t[3]]
    <2> SUFFICES ASSUME NEW t \in Spots(D)
                 PROVE  /\ t[1] \in Places /\ t[2] \in 1..Len(D[t[1]]) /\ t[3] \in 1..Len(D[t[1]][t[2]])
                        /\ t = <<t[1], t[2], t[3]>> /\ t[2] \in Nat /\ t[3] \in Nat
                        /\ At(D, t) = D[t[1]][t[2]][t[3]]
      OBVIOUS
    <2>1. /\ t[1] \in Places /\ t[2] \in 1..Len(D[t[1]]) /\ t[3] \in 1..Len(D[t[1]][t[2]])
          /\ t = <<t[1], t[2], t[3]>>
      BY <1>8, SpotFacts
    <2> QED BY <2>1 DEF At
  <1>11. ASSUME NEW t \in Spots(D), over(t)
         PROVE  /\ g[t] = <<p, n, t[3] + k - 1>> /\ g[t] \in Spots(deck)
                /\ At(deck, g[t]) = At(D, t) /\ t[3] + k - 1 >= k
    <2>1. D[t[1]][t[2]] = tail
      BY <1>5, <1>10, <1>11
    <2>2. t[3] \in 1..Len(tail) /\ At(D, t) = tail[t[3]]
      BY <1>10, <2>1
    <2>3. t[3] \in 1..(Len(c) - k + 1) /\ tail[t[3]] = c[k + t[3] - 1]
      BY <1>2, <2>2
    <2>4. t[3] + k - 1 \in 1..Len(c) /\ k + t[3] - 1 = t[3] + k - 1 /\ t[3] + k - 1 >= k
      BY <1>1, <2>3
    <2>5. <<p, n, t[3] + k - 1>> \in Spots(deck) /\ At(deck, <<p, n, t[3] + k - 1>>) = deck[p][n][t[3] + k - 1]
      BY <1>1, <2>4, SpotFacts DEF c
    <2>6. g[t] = <<p, n, t[3] + k - 1>>
      BY <1>9, <1>11
    <2> QED BY <2>2, <2>3, <2>4, <2>5, <2>6 DEF c
  <1>12. ASSUME NEW t \in Spots(D), ~over(t), past(t)
         PROVE  /\ g[t] = <<p, t[2] + 1, t[3]>> /\ g[t] \in Spots(deck)
                /\ At(deck, g[t]) = At(D, t)
    <2>1. t[2] \in 1..(Len(deck[p]) - 1) /\ t[2] + 1 \in 1..Len(deck[p]) /\ D[t[1]][t[2]] = deck[p][t[2] + 1]
      BY <1>1, <1>6, <1>10, <1>12, SMTT(30)
    <2>2. t[3] \in 1..Len(deck[p][t[2] + 1]) /\ At(D, t) = deck[p][t[2] + 1][t[3]]
      BY <1>10, <2>1
    <2>3. <<p, t[2] + 1, t[3]>> \in Spots(deck) /\ At(deck, <<p, t[2] + 1, t[3]>>) = deck[p][t[2] + 1][t[3]]
      BY <1>1, <2>1, <2>2, SpotFacts, SMTT(30)
    <2>4. g[t] = <<p, t[2] + 1, t[3]>>
      BY <1>9, <1>12
    <2> QED BY <2>2, <2>3, <2>4
  <1>13. ASSUME NEW t \in Spots(D), ~over(t), ~past(t)
         PROVE  /\ g[t] = t /\ t \in Spots(deck) /\ At(deck, t) = At(D, t)
                /\ (t[1] = p /\ t[2] = n => t[3] < k)
                /\ (t[1] = p /\ k = 1 => t[2] < n)
    <2>1. g[t] = t
      BY <1>9, <1>13
    <2>2. ASSUME t[2] \in 1..Len(deck[t[1]]), D[t[1]][t[2]] = deck[t[1]][t[2]]
          PROVE  t \in Spots(deck) /\ At(deck, t) = At(D, t)
      <3>1. t[1] \in Places /\ t[3] \in 1..Len(deck[t[1]][t[2]]) /\ t = <<t[1], t[2], t[3]>>
        BY <1>10, <2>2
      <3>2. <<t[1], t[2], t[3]>> \in Spots(deck) /\ At(deck, <<t[1], t[2], t[3]>>) = deck[t[1]][t[2]][t[3]]
        BY <2>2, <3>1, SpotFacts
      <3>3. At(D, t) = D[t[1]][t[2]][t[3]]
        BY <1>10
      <3> QED BY <2>2, <3>1, <3>2, <3>3
    <2>3. CASE t[1] # p
      <3>1. t[2] \in 1..(Len(deck[t[1]]) + 1) /\ t[2] # Len(deck[t[1]]) + 1
        BY <1>5, <1>10, <1>13, <2>3
      <3>2. t[2] \in 1..Len(deck[t[1]])
        BY <1>1, <1>10, <3>1
      <3>3. D[t[1]][t[2]] = deck[t[1]][t[2]]
        BY <1>5, <1>10, <2>3, <3>2
      <3> QED BY <2>1, <2>2, <2>3, <3>2, <3>3
    <2>4. CASE t[1] = p /\ k = 1
      <3>1. t[2] \in 1..(Len(deck[p]) - 1) /\ t[2] < n
        BY <1>1, <1>6, <1>10, <1>13, <2>4
      <3>2. t[2] \in 1..Len(deck[p]) /\ t[2] # n
        BY <1>1, <3>1
      <3>3. D[p][t[2]] = deck[p][t[2]]
        BY <1>6, <2>4, <3>1
      <3> QED BY <2>1, <2>2, <2>4, <3>1, <3>2, <3>3
    <2>5. CASE t[1] = p /\ k # 1 /\ t[2] # n
      <3>1. t[2] \in 1..Len(deck[p]) /\ D[p][t[2]] = deck[p][t[2]]
        BY <1>1, <1>7, <1>10, <2>5
      <3> QED BY <2>1, <2>2, <2>5, <3>1
    <2>6. CASE t[1] = p /\ k # 1 /\ t[2] = n
      <3>1. D[p][n] = head /\ Len(head) = k - 1 /\ \A j \in 1..(k - 1) : head[j] = c[j]
        BY <1>1, <1>3, <1>7, <2>6
      <3>2. t[3] \in 1..(k - 1) /\ At(D, t) = c[t[3]] /\ t[3] < k /\ t[3] \in 1..Len(c)
        BY <1>1, <1>10, <2>6, <3>1
      <3>3. t = <<p, n, t[3]>>
        BY <1>10, <2>6
      <3>4. <<p, n, t[3]>> \in Spots(deck) /\ At(deck, <<p, n, t[3]>>) = deck[p][n][t[3]]
        BY <1>1, <3>2, SpotFacts DEF c
      <3> QED BY <2>1, <2>6, <3>2, <3>3, <3>4 DEF c
    <2> QED BY <2>3, <2>4, <2>5, <2>6
  <1>14. ASSUME NEW t \in Spots(D), g[t][3] = 1 PROVE t[3] = 1
    <2>1. CASE over(t)
      <3>1. g[t][3] = t[3] + k - 1
        BY <1>11, <2>1
      <3>2. t[3] >= 1
        BY <1>10
      <3> QED BY <1>1, <1>10, <1>14, <3>1, <3>2
    <2>2. CASE ~over(t) /\ past(t)
      BY <1>12, <1>14, <2>2
    <2>3. CASE ~over(t) /\ ~past(t)
      BY <1>13, <1>14, <2>3
    <2> QED BY <2>1, <2>2, <2>3
  <1>20. ASSUME NEW t \in Spots(D), over(t) PROVE g[t][1] = p /\ g[t][2] = n /\ g[t][3] = t[3] + k - 1
    <2>1. g[t] = <<p, n, t[3] + k - 1>>
      BY <1>11, <1>20
    <2> QED BY <2>1
  <1>21. ASSUME NEW t \in Spots(D), ~over(t), past(t)
         PROVE  g[t][1] = p /\ g[t][2] = t[2] + 1 /\ g[t][3] = t[3]
    <2>1. g[t] = <<p, t[2] + 1, t[3]>>
      BY <1>12, <1>21
    <2> QED BY <2>1
  <1>15. ASSUME NEW t \in Spots(D), NEW r \in Spots(D), g[t] = g[r], over(t) PROVE t = r
    <2>1. g[t][1] = p /\ g[t][2] = n /\ g[t][3] = t[3] + k - 1 /\ t[3] + k - 1 >= k
      BY <1>11, <1>15, <1>20
    <2>2. CASE over(r)
      <3>1. g[r][3] = r[3] + k - 1
        BY <1>20, <2>2
      <3>2. t[3] + k - 1 = r[3] + k - 1
        BY <1>15, <2>1, <3>1
      <3>3. t[3] = r[3]
        BY <1>1, <1>10, <3>2
      <3>4. t[1] = r[1] /\ t[2] = r[2]
        BY <1>1, <1>10, <1>15, <2>2 DEF Places
      <3>5. t = <<t[1], t[2], t[3]>> /\ r = <<r[1], r[2], r[3]>>
        BY <1>10
      <3> QED BY <3>3, <3>4, <3>5
    <2>3. CASE ~over(r) /\ past(r)
      <3>1. g[r][2] = r[2] + 1 /\ r[2] >= n
        BY <1>21, <2>3
      <3>2. n = r[2] + 1
        BY <1>15, <2>1, <3>1
      <3> QED BY <1>1, <1>10, <3>1, <3>2
    <2>4. CASE ~over(r) /\ ~past(r)
      <3>1. g[r] = r /\ (r[1] = p /\ r[2] = n => r[3] < k)
        BY <1>13, <2>4
      <3>2. r[1] = p /\ r[2] = n /\ r[3] = t[3] + k - 1
        BY <1>15, <2>1, <3>1
      <3> QED BY <1>1, <1>10, <2>1, <3>1, <3>2
    <2> QED BY <2>2, <2>3, <2>4
  <1>16. ASSUME NEW t \in Spots(D), NEW r \in Spots(D), g[t] = g[r], ~over(t), past(t), ~over(r)
         PROVE  t = r
    <2>1. g[t][1] = p /\ g[t][2] = t[2] + 1 /\ g[t][3] = t[3] /\ t[2] >= n /\ k = 1 /\ t[1] = p
      BY <1>16, <1>21
    <2>2. CASE past(r)
      <3>1. g[r][2] = r[2] + 1 /\ g[r][3] = r[3] /\ r[1] = p
        BY <1>16, <1>21, <2>2
      <3>2. t[2] + 1 = r[2] + 1 /\ t[3] = r[3]
        BY <1>16, <2>1, <3>1
      <3>3. t[2] = r[2]
        BY <1>10, <3>2
      <3>4. t = <<t[1], t[2], t[3]>> /\ r = <<r[1], r[2], r[3]>>
        BY <1>10
      <3> QED BY <2>1, <3>1, <3>2, <3>3, <3>4
    <2>3. CASE ~past(r)
      <3>1. g[r] = r /\ (r[1] = p /\ k = 1 => r[2] < n)
        BY <1>13, <1>16, <2>3
      <3>2. r[1] = p /\ r[2] = t[2] + 1
        BY <1>16, <2>1, <3>1
      <3> QED BY <1>1, <1>10, <2>1, <3>1, <3>2
    <2> QED BY <2>2, <2>3
  <1>17. ASSUME NEW t \in Spots(D), NEW r \in Spots(D), g[t] = g[r] PROVE t = r
    <2>1. CASE over(t)
      BY <1>15, <1>17, <2>1
    <2>2. CASE over(r)
      BY <1>15, <1>17, <2>2
    <2>3. CASE ~over(t) /\ ~over(r) /\ past(t)
      BY <1>16, <1>17, <2>3
    <2>4. CASE ~over(t) /\ ~over(r) /\ past(r)
      BY <1>16, <1>17, <2>4
    <2>5. CASE ~over(t) /\ ~over(r) /\ ~past(t) /\ ~past(r)
      BY <1>13, <1>17, <2>5
    <2> QED BY <2>1, <2>2, <2>3, <2>4, <2>5
  <1>18. \A t \in Spots(D) : g[t] \in Spots(deck) /\ At(deck, g[t]) = At(D, t)
    <2> SUFFICES ASSUME NEW t \in Spots(D) PROVE g[t] \in Spots(deck) /\ At(deck, g[t]) = At(D, t)
      OBVIOUS
    <2>1. CASE over(t)
      BY <1>11, <2>1
    <2>2. CASE ~over(t) /\ past(t)
      BY <1>12, <2>2
    <2>3. CASE ~over(t) /\ ~past(t)
      BY <1>13, <2>3
    <2> QED BY <2>1, <2>2, <2>3
  <1> HIDE DEF over, past
  <1>19. Came(D, deck, g)
    BY <1>14, <1>17, <1>18 DEF Came
  <1> QED BY <1>8, <1>19, CameFacts DEF D

-----------------------------------------------------------------------------
(* The inductive invariant. *)

Once(q) == \A i, j \in DOMAIN q : q[i] = q[j] => i = j
Pinned == [uuid: 1..MaxUuid, card: Item \cup {NoView}]
Menu == {m \in Seq(Pinned) :
           /\ \A j \in DOMAIN m : m[j].card = NoView \/ m[j].card.uuid = m[j].uuid
           /\ \A i, j \in DOMAIN m : m[i].uuid = m[j].uuid => i = j}
UuidSeqs == {q \in Seq(1..MaxUuid) : Once(q)}
States == {Serialize(c) : c \in Chain}
Disk == [all: Seq(States), roots: [Places -> Seq(1..MaxUuid)], menu: UuidSeqs]

SessionTyped ==
  /\ phase \in {"start", "loading", "up", "offline", "broken"} /\ wide \in BOOLEAN
  /\ deck \in Deck /\ menu \in Menu /\ disk \in Disk /\ saved.deck \in Deck
  /\ steps \in 0..MaxSteps

\* The menu and the deck.
PinsMatch(m, D) == \A j \in DOMAIN m : (m[j].uuid \in DeckUuids(D)) = (m[j].card = NoView)
PinsInv == PinsMatch(menu, deck)
AloneInv == torn \/ Separate(deck)
\* A pinned card that is in a deck begins a chain there.
HeadsPinned(m, D) == \A j \in DOMAIN m : m[j].card = NoView => m[j].uuid \in Heads(D)
HeadsInv == torn \/ HeadsPinned(menu, deck)

\* What the storage tells of a deck and a menu that were saved whole.
RootsOf(D) == [p \in Places |-> [n \in DOMAIN D[p] |-> D[p][n][1].uuid]]
There(all, u, c) == FindState(all, u) # 0 /\ all[FindState(all, u)] = Serialize(c)
Tells(all, D, m) ==
  /\ Separate(D)
  /\ \A p \in Places : \A n \in 1..Len(D[p]) : There(all, D[p][n][1].uuid, D[p][n])
  /\ \A j \in DOMAIN m : /\ FindState(all, m[j]) # 0
                         /\ m[j] \in DeckUuids(D) => m[j] \in Heads(D)
DiskInv == saved.whole =>
  /\ disk.roots = RootsOf(saved.deck) /\ disk.menu = saved.menu
  /\ torn \/ Tells(disk.all, saved.deck, saved.menu)
LoadInv == phase = "loading" =>
  /\ \A p \in Places : \A n \in DOMAIN disk.roots[p] : FindState(disk.all, disk.roots[p][n]) # 0
  /\ torn \/ saved.whole \/ disk = NoDisk

SessionInv == SessionTyped /\ PinsInv /\ AloneInv /\ HeadsInv /\ DiskInv /\ LoadInv /\ RestoredAsSaved

-----------------------------------------------------------------------------
(* The menu. *)

LEMMA MenuFacts ==
  ASSUME menu \in Menu
  PROVE  /\ menu \in Seq(Pinned) /\ Len(menu) \in Nat /\ DOMAIN menu = 1..Len(menu)
         /\ \A j \in 1..Len(menu) :
              /\ menu[j].uuid \in 1..MaxUuid /\ menu[j].card \in Item \cup {NoView}
              /\ menu[j].card = NoView \/ menu[j].card.uuid = menu[j].uuid
              /\ menu[j] = [uuid |-> menu[j].uuid, card |-> menu[j].card] /\ menu[j] \in Pinned
         /\ \A i, j \in 1..Len(menu) : menu[i].uuid = menu[j].uuid => i = j
         /\ DOMAIN MenuUuids = 1..Len(menu) /\ Len(MenuUuids) = Len(menu)
         /\ \A j \in 1..Len(menu) : MenuUuids[j] = menu[j].uuid /\ menu[j].uuid \in ToSet(MenuUuids)
         /\ MenuUuids \in UuidSeqs
         /\ \A u : u \in ToSet(MenuUuids) <=> \E j \in 1..Len(menu) : menu[j].uuid = u
  <1>1. menu \in Seq(Pinned) /\ Len(menu) \in Nat /\ DOMAIN menu = 1..Len(menu)
    BY LenProperties DEF Menu
  <1>2. \A j \in 1..Len(menu) : menu[j] \in Pinned
    BY <1>1, ElementOfSeq
  <1>3. \A j \in 1..Len(menu) :
              /\ menu[j].uuid \in 1..MaxUuid /\ menu[j].card \in Item \cup {NoView}
              /\ menu[j] = [uuid |-> menu[j].uuid, card |-> menu[j].card]
    BY <1>2 DEF Pinned
  <1>4. /\ \A j \in 1..Len(menu) : menu[j].card = NoView \/ menu[j].card.uuid = menu[j].uuid
        /\ \A i, j \in 1..Len(menu) : menu[i].uuid = menu[j].uuid => i = j
    BY <1>1 DEF Menu
  <1>5. /\ DOMAIN MenuUuids = 1..Len(menu) /\ Len(MenuUuids) = Len(menu)
        /\ \A j \in 1..Len(menu) : MenuUuids[j] = menu[j].uuid
    BY <1>1 DEF MenuUuids
  <1>6. \A u : u \in ToSet(MenuUuids) <=> \E j \in 1..Len(menu) : menu[j].uuid = u
    BY <1>5 DEF ToSet
  <1>7. MenuUuids \in Seq(1..MaxUuid)
    <2> DEFINE e(j) == menu[j].uuid
    <2>1. MenuUuids = [j \in 1..Len(menu) |-> e(j)]
      BY <1>1 DEF MenuUuids
    <2>2. \A j \in 1..Len(menu) : e(j) \in 1..MaxUuid
      BY <1>3
    <2> HIDE DEF e
    <2>3. [j \in 1..Len(menu) |-> e(j)] \in Seq(1..MaxUuid)
      BY <1>1, <2>2, IsASeq
    <2> QED BY <2>1, <2>3
  <1>8. MenuUuids \in UuidSeqs
    BY <1>4, <1>5, <1>7 DEF UuidSeqs, Once
  <1> QED BY <1>1, <1>2, <1>3, <1>4, <1>5, <1>6, <1>8

\* A menu from its pins.
LEMMA AMenu ==
  ASSUME NEW n \in Nat, NEW m, m = [j \in 1..n |-> m[j]],
         \A j \in 1..n : m[j] \in Pinned /\ (m[j].card = NoView \/ m[j].card.uuid = m[j].uuid),
         \A i, j \in 1..n : m[i].uuid = m[j].uuid => i = j
  PROVE  m \in Menu
  <1>1. [j \in 1..n |-> m[j]] \in Seq(Pinned)
    BY IsASeq
  <1>2. m \in Seq(Pinned) /\ DOMAIN m = 1..n
    BY <1>1
  <1> QED BY <1>2 DEF Menu

\* What leaves the decks is kept in the menu.
LEMMA PinsAfterFacts ==
  ASSUME deck \in Deck, menu \in Menu, PinsInv, NEW D \in Deck,
         DeckUuids(D) \cap ToSet(MenuUuids) \subseteq DeckUuids(deck)
  PROVE  /\ PinsAfter(D) \in Menu /\ DOMAIN PinsAfter(D) = DOMAIN menu
         /\ PinsMatch(PinsAfter(D), D)
         /\ \A j \in DOMAIN menu : /\ PinsAfter(D)[j].uuid = menu[j].uuid
                                   /\ PinsAfter(D)[j].card = NoView =>
                                        menu[j].card = NoView /\ menu[j].uuid \in DeckUuids(D)
  <1> DEFINE m == PinsAfter(D)
             gone(j) == menu[j].card = NoView /\ menu[j].uuid \notin DeckUuids(D)
             was(j) == At(deck, CHOOSE s \in Spots(deck) : At(deck, s).uuid = menu[j].uuid)
  <1>1. DOMAIN menu = 1..Len(menu) /\ Len(menu) \in Nat
    BY MenuFacts
  <1>2. m = [j \in 1..Len(menu) |-> IF gone(j) THEN [menu[j] EXCEPT !.card = was(j)] ELSE menu[j]]
    BY <1>1 DEF PinsAfter
  <1>3. ASSUME NEW j \in 1..Len(menu), gone(j) PROVE was(j) \in Item /\ was(j).uuid = menu[j].uuid
    <2>1. menu[j].uuid \in DeckUuids(deck)
      BY <1>1, <1>3 DEF PinsInv, PinsMatch
    <2>2. \E s \in Spots(deck) : At(deck, s).uuid = menu[j].uuid
      BY <2>1 DEF DeckUuids
    <2>3. PICK s \in Spots(deck) : was(j) = At(deck, s) /\ At(deck, s).uuid = menu[j].uuid
      BY <2>2
    <2> QED BY <2>3, SpotFacts
  <1> HIDE DEF m, was
  <1>4. ASSUME NEW j \in 1..Len(menu)
        PROVE  /\ m[j] \in Pinned /\ m[j].uuid = menu[j].uuid
               /\ m[j].card = NoView \/ m[j].card.uuid = m[j].uuid
               /\ (m[j].uuid \in DeckUuids(D)) = (m[j].card = NoView)
               /\ m[j].card = NoView => menu[j].card = NoView /\ menu[j].uuid \in DeckUuids(D)
    <2>0. /\ menu[j] \in Pinned /\ menu[j].uuid \in ToSet(MenuUuids)
          /\ menu[j].card = NoView \/ menu[j].card.uuid = menu[j].uuid
          /\ menu[j].uuid \in 1..MaxUuid
          /\ menu[j] = [uuid |-> menu[j].uuid, card |-> menu[j].card]
      BY MenuFacts
    <2>1. CASE gone(j)
      <3>1. was(j) \in Item /\ was(j).uuid = menu[j].uuid /\ was(j) # NoView
        BY <1>3, <2>1, CardFacts
      <3>2. m[j] = [menu[j] EXCEPT !.card = was(j)]
        BY <1>2, <2>1
      <3>3. m[j] \in Pinned /\ m[j].uuid = menu[j].uuid /\ m[j].card = was(j)
        BY <2>0, <3>1, <3>2 DEF Pinned
      <3> QED BY <2>1, <3>1, <3>3
    <2>2. CASE ~gone(j)
      <3>1. m[j] = menu[j]
        BY <1>2, <2>2
      <3>2. (menu[j].uuid \in DeckUuids(deck)) = (menu[j].card = NoView)
        BY <1>1 DEF PinsInv, PinsMatch
      <3>3. menu[j].uuid \in DeckUuids(D) => menu[j].uuid \in DeckUuids(deck)
        BY <2>0
      <3> QED BY <2>0, <2>2, <3>1, <3>2, <3>3
    <2> QED BY <2>1, <2>2
  <1>5. m = [j \in 1..Len(menu) |-> m[j]]
    BY <1>2
  <1>6. \A i, j \in 1..Len(menu) : m[i].uuid = m[j].uuid => i = j
    BY <1>4, MenuFacts
  <1>7. m \in Menu
    BY <1>1, <1>4, <1>5, <1>6, AMenu
  <1>8. DOMAIN m = DOMAIN menu
    BY <1>1, <1>5
  <1>9. PinsMatch(m, D)
    BY <1>1, <1>4, <1>8 DEF PinsMatch
  <1> QED BY <1>1, <1>4, <1>7, <1>8, <1>9 DEF m

-----------------------------------------------------------------------------
(* The steps of the user. *)

\* What a step of the user leaves alone, and what it has to keep.
LEMMA UserKeeps ==
  ASSUME SessionInv, NEW phases, Acts(phases), wide' \in BOOLEAN, deck' \in Deck, menu' \in Menu,
         PinsMatch(menu', deck'), torn \/ (Separate(deck') /\ HeadsPinned(menu', deck'))
  PROVE  SessionInv'
  <1>1. /\ phase' = phase /\ disk' = disk /\ saved' = saved /\ torn' = torn /\ fresh' = FALSE
        /\ steps' = steps + 1 /\ steps < MaxSteps
    BY DEF Acts
  <1>2. SessionTyped'
    <2>1. steps' \in 0..MaxSteps
      BY <1>1, SessionAssumption DEF SessionInv, SessionTyped
    <2>2. phase' \in {"start", "loading", "up", "offline", "broken"} /\ disk' \in Disk /\ saved'.deck \in Deck
      BY <1>1 DEF SessionInv, SessionTyped
    <2> QED BY <2>1, <2>2 DEF SessionTyped
  <1>3. PinsInv' /\ AloneInv' /\ HeadsInv'
    BY <1>1 DEF PinsInv, AloneInv, HeadsInv
  <1>4. DiskInv' /\ LoadInv'
    BY <1>1 DEF SessionInv, DiskInv, LoadInv
  <1>5. RestoredAsSaved'
    BY <1>1 DEF RestoredAsSaved
  <1> QED BY <1>2, <1>3, <1>4, <1>5 DEF SessionInv

LEMMA DeckStep ==
  ASSUME SessionInv, NEW phases, Acts(phases), wide' \in BOOLEAN, NEW D \in Deck, SetDeck(D),
         Follows(D, deck), DeckUuids(D) \cap ToSet(MenuUuids) \subseteq DeckUuids(deck)
  PROVE  SessionInv'
  <1>1. deck \in Deck /\ menu \in Menu /\ PinsInv /\ (torn \/ (Separate(deck) /\ HeadsPinned(menu, deck)))
    BY DEF SessionInv, SessionTyped, AloneInv, HeadsInv
  <1>2. deck' = D /\ menu' = PinsAfter(D)
    BY DEF SetDeck
  <1>3. /\ menu' \in Menu /\ DOMAIN menu' = DOMAIN menu /\ PinsMatch(menu', D)
        /\ \A j \in DOMAIN menu : /\ menu'[j].uuid = menu[j].uuid
                                  /\ menu'[j].card = NoView =>
                                       menu[j].card = NoView /\ menu[j].uuid \in DeckUuids(D)
    BY <1>1, <1>2, PinsAfterFacts
  <1>4. CASE ~torn
    <2>1. Separate(D) /\ \A u \in DeckUuids(D) \cap Heads(deck) : u \in Heads(D)
      BY <1>1, <1>4 DEF Follows
    <2>2. HeadsPinned(menu', D)
      BY <1>1, <1>3, <1>4, <2>1 DEF HeadsPinned
    <2> QED BY <1>2, <1>3, <2>1, <2>2, UserKeeps
  <1>5. CASE torn
    BY <1>2, <1>3, <1>5, UserKeeps
  <1> QED BY <1>4, <1>5

\* A step that leaves the deck alone.
LEMMA MenuStep ==
  ASSUME SessionInv, NEW phases, Acts(phases), wide' \in BOOLEAN, deck' = deck, menu' \in Menu,
         PinsMatch(menu', deck), torn \/ HeadsPinned(menu', deck)
  PROVE  SessionInv'
  <1>1. deck \in Deck /\ (torn \/ Separate(deck))
    BY DEF SessionInv, SessionTyped, AloneInv
  <1> QED BY <1>1, UserKeeps

LEMMA UuidsUsed ==
  /\ DeckUuids(deck) \subseteq UsedUuids /\ ToSet(MenuUuids) \subseteq UsedUuids
  /\ ToSet(disk.menu) \subseteq UsedUuids
  /\ Room(1) => /\ NewUuid(1) \in 1..MaxUuid /\ NewUuid(1) \notin DeckUuids(deck)
                /\ NewUuid(1) \notin ToSet(MenuUuids)
  <1>1. /\ DeckUuids(deck) \subseteq UsedUuids /\ ToSet(MenuUuids) \subseteq UsedUuids
        /\ ToSet(disk.menu) \subseteq UsedUuids
    BY DEF UsedUuids
  <1>2. ASSUME Room(1) PROVE NewUuid(1) \in Unused
    <2>1. 1 \in 1..Cardinality(Unused)
      BY <1>2, NewUuidFacts DEF Room
    <2> QED BY <2>1, NewUuidFacts
  <1> QED BY <1>1, <1>2, NewUuidFacts, ZenonT(30)

\* A card of a deck and what it is in.
LEMMA SpotOfDeck ==
  ASSUME deck \in Deck, NEW s \in Spots(deck)
  PROVE  /\ ChainAt(s) \in Chain /\ ChainAt(s) \in Seq(Item) /\ Len(ChainAt(s)) \in Nat
         /\ s[3] \in 1..Len(ChainAt(s)) /\ ChainAt(s)[s[3]] = At(deck, s) /\ At(deck, s) \in Item
         /\ s[1] \in Places /\ s[2] \in 1..Len(deck[s[1]])
         /\ At(deck, s).uuid \in DeckUuids(deck)
  BY SpotFacts, ZenonT(30) DEF ChainAt, At, DeckUuids

\* A chain with something else below one of its cards, which may have changed its face.
LEMMA LinkStep ==
  ASSUME SessionInv, NEW phases, Acts(phases), wide' \in BOOLEAN, NEW s \in Spots(deck), Room(1),
         NEW c \in Item, c.uuid = At(deck, s).uuid, NEW view \in View \cup {NoView},
         SetDeck(WithChain(s, AddLink([ChainAt(s) EXCEPT ![s[3]] = c], s[3], Named(view, NewUuid(1)))))
  PROVE  SessionInv'
  <1> DEFINE k == s[3]
             old == ChainAt(s)
             mid == [old EXCEPT ![k] = c]
             new == Named(view, NewUuid(1))
             chain == AddLink(mid, k, new)
             u == NewUuid(1)
  <1>1. /\ deck \in Deck /\ old \in Seq(Item) /\ Len(old) \in Nat /\ k \in 1..Len(old)
        /\ old[k].uuid = c.uuid
    BY SpotOfDeck DEF SessionInv, SessionTyped
  <1>2. mid \in Seq(Item) /\ Len(mid) = Len(old) /\ \A i \in 1..Len(old) : mid[i].uuid = old[i].uuid
    <2> HIDE DEF old, k
    <2>1. /\ mid \in Seq(Item) /\ Len(mid) = Len(old)
          /\ \A i \in 1..Len(old) : mid[i] = IF i = k THEN c ELSE old[i]
      BY <1>1, ExceptSeq
    <2> QED BY <1>1, <2>1
  <1>3. u \in 1..MaxUuid /\ u \notin DeckUuids(deck) /\ u \notin ToSet(MenuUuids)
    BY UuidsUsed
  <1>4. new \in Item \cup {NoView} /\ (new # NoView => new.uuid = u)
    BY <1>3, NamedFacts
  <1> HIDE DEF k, old, mid, new, u
  <1>5. /\ chain \in Seq(Item) /\ Len(chain) = (IF new = NoView THEN k ELSE k + 1)
        /\ \A j \in 1..k : chain[j] = mid[j]
        /\ new # NoView => chain[k + 1] = new
    <2>1. k \in 0..Len(mid)
      BY <1>1, <1>2
    <2>2. new \in Item \cup {NoView}
      BY <1>4
    <2>3. chain \in Seq(Item)
      BY <1>2, <2>1, <2>2, AddLinkFacts
    <2>4. Len(chain) = (IF new = NoView THEN k ELSE k + 1)
      BY <1>2, <2>1, <2>2, AddLinkFacts
    <2>5. \A j \in 1..k : chain[j] = mid[j]
      BY <1>2, <2>1, <2>2, AddLinkFacts
    <2>6. new # NoView => chain[k + 1] = new
      BY <1>2, <2>1, <2>2, AddLinkFacts
    <2> QED BY <2>3, <2>4, <2>5, <2>6
  <1> HIDE DEF chain
  <1>6. chain \in Chain
    <2>1. Len(chain) >= 1
      BY <1>1, <1>5
    <2>2. chain # <<>>
      BY <2>1, EmptySeq
    <2> QED BY <1>5, <2>2 DEF Chain
  <1>7. \A i \in 1..Len(chain) : \/ i \in 1..Len(old) /\ chain[i].uuid = old[i].uuid
                                 \/ i = Len(chain) /\ chain[i].uuid = u
    <2> SUFFICES ASSUME NEW i \in 1..Len(chain)
                 PROVE  \/ i \in 1..Len(old) /\ chain[i].uuid = old[i].uuid
                        \/ i = Len(chain) /\ chain[i].uuid = u
      OBVIOUS
    <2>1. CASE i \in 1..k
      <3>1. i \in 1..Len(old)
        BY <1>1, <2>1
      <3> QED BY <1>2, <1>5, <2>1, <3>1
    <2>2. CASE i \notin 1..k
      <3>1. new # NoView /\ i = k + 1 /\ i = Len(chain)
        BY <1>1, <1>5, <2>2
      <3> QED BY <1>4, <1>5, <3>1
    <2> QED BY <2>1, <2>2
  <1> DEFINE D == WithChain(s, chain)
  <1>8. D \in Deck /\ Follows(D, deck) /\ DeckUuids(D) \subseteq DeckUuids(deck) \cup {u}
    BY <1>1, <1>3, <1>6, <1>7, WithChainFacts DEF old
  <1>9. SetDeck(D)
    BY DEF chain, k, old, mid, new
  <1> HIDE DEF D
  <1> QED BY <1>3, <1>8, <1>9, DeckStep

\* A card of its own.
LEMMA RootStep ==
  ASSUME SessionInv, NEW phases, Acts(phases), wide' \in BOOLEAN, NEW p \in Places, Room(1),
         NEW view \in View, SetDeck(WithRoot(p, Named(view, NewUuid(1))))
  PROVE  SessionInv'
  <1> DEFINE u == NewUuid(1)
             c == Named(view, u)
             D == WithRoot(p, c)
  <1>1. u \in 1..MaxUuid /\ u \notin DeckUuids(deck) /\ u \notin ToSet(MenuUuids)
    BY UuidsUsed
  <1>2. view # NoView
    BY CardFacts
  <1>3. c \in Item /\ c.uuid = u
    BY <1>1, <1>2, NamedFacts
  <1> HIDE DEF u, c
  <1>4. deck \in Deck
    BY DEF SessionInv, SessionTyped
  <1>5. D \in Deck /\ Follows(D, deck) /\ DeckUuids(D) = DeckUuids(deck) \cup {u}
    BY <1>1, <1>3, <1>4, WithRootFacts
  <1>6. SetDeck(D)
    BY DEF u, c
  <1> HIDE DEF D
  <1> QED BY <1>1, <1>5, <1>6, DeckStep

\* A chain of the cards that were there.
LEMMA ChainStep ==
  ASSUME SessionInv, NEW phases, Acts(phases), wide' \in BOOLEAN, NEW s \in Spots(deck),
         NEW chain \in Seq(Item), Len(chain) >= 1, SetDeck(WithChain(s, chain)),
         \A i \in 1..Len(chain) : i \in 1..Len(ChainAt(s)) /\ chain[i].uuid = ChainAt(s)[i].uuid
  PROVE  SessionInv'
  <1> DEFINE D == WithChain(s, chain)
  <1>1. deck \in Deck /\ menu \in Menu
    BY DEF SessionInv, SessionTyped
  <1>2. chain \in Chain
    <2>1. chain # <<>>
      BY EmptySeq
    <2> QED BY <2>1 DEF Chain
  <1>3. 0 \notin DeckUuids(deck) /\ 0 \notin ToSet(MenuUuids)
    <2>1. \A x \in Item : x.uuid \in 1..MaxUuid
      BY DEF Item
    <2>2. 0 \notin 1..MaxUuid
      BY SessionAssumption
    <2>3. 0 \notin DeckUuids(deck)
      BY <1>1, <2>1, <2>2, SpotFacts DEF DeckUuids
    <2> QED BY <1>1, <2>2, <2>3, MenuFacts
  <1>4. D \in Deck /\ Follows(D, deck) /\ DeckUuids(D) \subseteq DeckUuids(deck) \cup {0}
    BY <1>1, <1>2, <1>3, WithChainFacts
  <1>5. SetDeck(D)
    OBVIOUS
  <1> HIDE DEF D
  <1> QED BY <1>3, <1>4, <1>5, DeckStep

\* Another face of a card.
LEMMA CardStep ==
  ASSUME SessionInv, NEW phases, Acts(phases), wide' \in BOOLEAN, NEW s \in Spots(deck),
         NEW c \in Item, c.uuid = At(deck, s).uuid, SetDeck(WithCard(s, c))
  PROVE  SessionInv'
  <1> DEFINE k == s[3]
             old == ChainAt(s)
             chain == [old EXCEPT ![k] = c]
  <1>1. /\ old \in Seq(Item) /\ Len(old) \in Nat /\ k \in 1..Len(old) /\ old[k].uuid = c.uuid
    BY SpotOfDeck DEF SessionInv, SessionTyped
  <1>2. SetDeck(WithChain(s, chain))
    BY DEF WithCard
  <1> HIDE DEF old, k
  <1>3. /\ chain \in Seq(Item) /\ Len(chain) = Len(old)
        /\ \A i \in 1..Len(old) : chain[i] = IF i = k THEN c ELSE old[i]
    BY <1>1, ExceptSeq
  <1> HIDE DEF chain
  <1>4. Len(chain) >= 1 /\ \A i \in 1..Len(chain) : i \in 1..Len(old) /\ chain[i].uuid = old[i].uuid
    BY <1>1, <1>3
  <1> QED BY <1>2, <1>3, <1>4, ChainStep DEF old

-----------------------------------------------------------------------------
(* Each of them. *)

LEMMA OpenedStep ==
  ASSUME SessionInv, NEW phases, Acts(phases), wide' \in BOOLEAN, NEW s \in Spots(deck), Room(1),
         NEW d \in BOOLEAN, NEW view \in View \cup {NoView}, Opened(s, d, view)
  PROVE  SessionInv'
  <1>1. At(deck, s) \in Item /\ s[1] \in Places /\ ChainAt(s)[s[3]] = At(deck, s)
    BY SpotOfDeck DEF SessionInv, SessionTyped
  <1>2. CASE d
    <2>1. view \in View /\ SetDeck(WithRoot(s[1], Named(view, NewUuid(1))))
      BY <1>2 DEF Opened
    <2> QED BY <1>1, <2>1, RootStep
  <1>3. CASE ~d
    <2> DEFINE c == Selected(ChainAt(s)[s[3]], view)
    <2>1. SetDeck(WithChain(s, AddLink([ChainAt(s) EXCEPT ![s[3]] = c], s[3], Named(view, NewUuid(1)))))
      BY <1>3 DEF Opened
    <2>2. c \in Item /\ c.uuid = At(deck, s).uuid
      BY <1>1, ChangedFacts
    <2> HIDE DEF c
    <2> QED BY <2>1, <2>2, LinkStep
  <1> QED BY <1>2, <1>3

LEMMA OpenBelowStep ==
  ASSUME SessionInv, NEW s \in Spots(deck), OpenBelow(s)
  PROVE  SessionInv'
  <1>1. Acts(Working) /\ Room(1) /\ wide' \in BOOLEAN
    BY DEF OpenBelow, SessionInv, SessionTyped
  <1>2. PICK d \in BOOLEAN : \E view \in Opens(At(deck, s), Below(ChainAt(s), s[3]), d) : Opened(s, d, view)
    BY DEF OpenBelow
  <1>3. PICK view \in Opens(At(deck, s), Below(ChainAt(s), s[3]), d) : Opened(s, d, view)
    BY <1>2
  <1>4. view \in View \cup {NoView}
    BY <1>3, OpensFacts
  <1> QED BY <1>1, <1>3, <1>4, OpenedStep

LEMMA RestoreLinkStep ==
  ASSUME SessionInv, NEW s \in Spots(deck), RestoreLink(s)
  PROVE  SessionInv'
  <1> DEFINE k == s[3]
             old == ChainAt(s)
             c == At(deck, s)
  <1>1. Acts({"up"}) /\ Room(1) /\ wide' \in BOOLEAN
    BY DEF RestoreLink, SessionInv, SessionTyped
  <1>2. PICK view \in OpenConsumers(c) \cup OpenStreamMessages(c) :
          view # NoView /\ SetDeck(WithChain(s, AddLink(old, k, Named(view, NewUuid(1)))))
    BY DEF RestoreLink
  <1>3. view \in View \cup {NoView}
    <2>1. FALSE \in BOOLEAN
      OBVIOUS
    <2> QED BY <1>2, <2>1, OpensFacts
  <1>4. /\ old \in Seq(Item) /\ k \in 1..Len(old) /\ old[k] = c /\ c \in Item
    BY SpotOfDeck DEF SessionInv, SessionTyped
  <1>5. [old EXCEPT ![k] = c] = old
    <2> HIDE DEF old, k, c
    <2>1. old = [i \in 1..Len(old) |-> old[i]]
      BY <1>4, LenProperties
    <2> QED BY <1>4, <2>1
  <1> DEFINE chain == [old EXCEPT ![k] = c]
  <1>6. SetDeck(WithChain(s, AddLink(chain, k, Named(view, NewUuid(1)))))
    BY <1>2, <1>5
  <1> QED BY <1>1, <1>3, <1>4, <1>6, LinkStep

LEMMA FacesStep ==
  ASSUME SessionInv, NEW s \in Spots(deck), Fill(s) \/ EditView(s)
  PROVE  SessionInv'
  <1>1. Acts(Working) /\ wide' \in BOOLEAN
    BY DEF Fill, EditView, SessionInv, SessionTyped
  <1>2. At(deck, s) \in Item
    BY SpotOfDeck DEF SessionInv, SessionTyped
  <1>3. /\ Filled(At(deck, s)) \in Item /\ Filled(At(deck, s)).uuid = At(deck, s).uuid
        /\ InEdit(At(deck, s)) \in Item /\ InEdit(At(deck, s)).uuid = At(deck, s).uuid
    BY <1>2, ChangedFacts
  <1>4. CASE Fill(s)
    <2>1. SetDeck(WithCard(s, Filled(At(deck, s))))
      BY <1>4 DEF Fill
    <2> QED BY <1>1, <1>3, <2>1, CardStep
  <1>5. CASE EditView(s)
    <2>1. SetDeck(WithCard(s, InEdit(At(deck, s))))
      BY <1>5 DEF EditView
    <2> QED BY <1>1, <1>3, <2>1, CardStep
  <1> QED BY <1>4, <1>5

LEMMA CloseViewStep ==
  ASSUME SessionInv, NEW s \in Spots(deck), CloseView(s)
  PROVE  SessionInv'
  <1> DEFINE p == s[1]
             n == s[2]
             k == s[3]
             old == ChainAt(s)
  <1>1. Acts(Working) /\ wide' \in BOOLEAN
    BY DEF CloseView, SessionInv, SessionTyped
  <1>2. /\ deck \in Deck /\ p \in Places /\ n \in 1..Len(deck[p]) /\ old \in Seq(Item)
        /\ Len(old) \in Nat /\ k \in 1..Len(old)
    BY SpotOfDeck DEF SessionInv, SessionTyped
  <1>3. CASE k = 1
    <2> DEFINE D == [deck EXCEPT ![p] = RemoveAt(deck[p], n)]
    <2>1. SetDeck(D)
      BY <1>3 DEF CloseView
    <2>2. D \in Deck /\ Follows(D, deck) /\ DeckUuids(D) \subseteq DeckUuids(deck)
      BY <1>2, RemovedFacts
    <2> HIDE DEF D
    <2> QED BY <1>1, <2>1, <2>2, DeckStep
  <1>4. CASE k # 1
    <2> DEFINE chain == AddLink(old, k - 1, NoView)
    <2>1. SetDeck(WithChain(s, chain))
      BY <1>4 DEF CloseView
    <2>2. k - 1 \in 0..Len(old) /\ k - 1 >= 1
      BY <1>2, <1>4
    <2> HIDE DEF k, old
    <2>3. chain \in Seq(Item)
      BY <1>2, <2>2, AddLinkFacts
    <2>4. Len(chain) = k - 1
      BY <1>2, <2>2, AddLinkFacts
    <2>5. \A j \in 1..(k - 1) : chain[j] = old[j]
      BY <1>2, <2>2, AddLinkFacts
    <2> HIDE DEF chain
    <2>6. \A i \in 1..Len(chain) : i \in 1..Len(old) /\ chain[i].uuid = old[i].uuid
      BY <1>2, <2>2, <2>4, <2>5
    <2> QED BY <1>1, <2>1, <2>2, <2>3, <2>4, <2>6, ChainStep DEF old
  <1> QED BY <1>3, <1>4

LEMMA MoveViewStep ==
  ASSUME SessionInv, NEW s \in Spots(deck), MoveView(s)
  PROVE  SessionInv'
  <1>1. Acts({"up"}) /\ wide' \in BOOLEAN /\ SetDeck(Moved(s)) /\ deck \in Deck
    BY DEF MoveView, SessionInv, SessionTyped
  <1>2. Moved(s) \in Deck /\ Follows(Moved(s), deck) /\ DeckUuids(Moved(s)) \subseteq DeckUuids(deck)
    BY <1>1, MovedFacts
  <1> QED BY <1>1, <1>2, DeckStep

LEMMA PinStep ==
  ASSUME SessionInv, NEW s \in Spots(deck), Pin(s)
  PROVE  SessionInv'
  <1> DEFINE u == At(deck, s).uuid
             e == [uuid |-> u, card |-> NoView]
             m == Append(menu, e)
             N == Len(menu)
  <1>1. Acts(Working) /\ deck' = deck /\ wide' = wide /\ menu' = m /\ u \notin ToSet(MenuUuids) /\ s[3] = 1
    BY DEF Pin
  <1>2. /\ deck \in Deck /\ menu \in Menu /\ wide \in BOOLEAN /\ PinsMatch(menu, deck)
        /\ torn \/ HeadsPinned(menu, deck)
    BY DEF SessionInv, SessionTyped, PinsInv, HeadsInv
  <1>3. u \in 1..MaxUuid /\ u \in DeckUuids(deck)
    BY <1>2, SpotOfDeck DEF Item
  <1>4. u \in Heads(deck)
    BY <1>1 DEF Heads
  <1>5. /\ menu \in Seq(Pinned) /\ N \in Nat /\ DOMAIN menu = 1..N
        /\ \A j \in 1..N : /\ menu[j] \in Pinned /\ menu[j].uuid # u
                           /\ menu[j].card = NoView \/ menu[j].card.uuid = menu[j].uuid
        /\ \A i, j \in 1..N : menu[i].uuid = menu[j].uuid => i = j
    BY <1>1, <1>2, MenuFacts
  <1>6. e \in Pinned /\ e.uuid = u /\ e.card = NoView
    BY <1>3 DEF Pinned
  <1> HIDE DEF e, u
  <1>7. m \in Seq(Pinned) /\ Len(m) = N + 1 /\ (\A j \in 1..N : m[j] = menu[j]) /\ m[N + 1] = e
    BY <1>5, <1>6, AppendProperties
  <1> HIDE DEF m, N
  <1>8. m = [j \in 1..(N + 1) |-> m[j]] /\ DOMAIN m = 1..(N + 1)
    BY <1>7, LenProperties
  <1>9. \A j \in 1..(N + 1) : j \in 1..N \/ j = N + 1
    BY <1>5
  <1>10. \A j \in 1..(N + 1) : m[j] \in Pinned /\ (m[j].card = NoView \/ m[j].card.uuid = m[j].uuid)
    BY <1>5, <1>6, <1>7, <1>9
  <1>11. \A i, j \in 1..(N + 1) : m[i].uuid = m[j].uuid => i = j
    BY <1>5, <1>6, <1>7, <1>9
  <1>12. m \in Menu
    BY <1>5, <1>8, <1>10, <1>11, AMenu
  <1>13. PinsMatch(m, deck)
    <2> SUFFICES ASSUME NEW j \in 1..(N + 1) PROVE (m[j].uuid \in DeckUuids(deck)) = (m[j].card = NoView)
      BY <1>8 DEF PinsMatch
    <2>1. CASE j \in 1..N
      <3>1. (menu[j].uuid \in DeckUuids(deck)) = (menu[j].card = NoView)
        BY <1>2, <1>5, <2>1 DEF PinsMatch
      <3> QED BY <1>7, <2>1, <3>1
    <2>2. CASE j = N + 1
      BY <1>3, <1>6, <1>7, <2>2
    <2> QED BY <1>9, <2>1, <2>2
  <1>14. torn \/ HeadsPinned(m, deck)
    BY <1>2, <1>4, <1>5, <1>6, <1>7, <1>8, <1>9 DEF HeadsPinned
  <1> QED BY <1>1, <1>2, <1>12, <1>13, <1>14, MenuStep

LEMMA UnpinStep ==
  ASSUME SessionInv, NEW j \in DOMAIN menu, Unpin(j)
  PROVE  SessionInv'
  <1> DEFINE m == RemoveAt(menu, j)
             N == Len(menu)
  <1>1. Acts(Working) /\ deck' = deck /\ wide' = wide /\ menu' = m
    BY DEF Unpin
  <1>2. /\ menu \in Menu /\ wide \in BOOLEAN /\ PinsMatch(menu, deck) /\ (torn \/ HeadsPinned(menu, deck))
    BY DEF SessionInv, SessionTyped, PinsInv, HeadsInv
  <1>3. /\ menu \in Seq(Pinned) /\ N \in Nat /\ DOMAIN menu = 1..N /\ j \in 1..N
        /\ \A i \in 1..N : /\ menu[i] \in Pinned
                           /\ menu[i].card = NoView \/ menu[i].card.uuid = menu[i].uuid
        /\ \A i, k \in 1..N : menu[i].uuid = menu[k].uuid => i = k
    BY <1>2, MenuFacts, SMTT(30)
  <1>4. /\ m \in Seq(Pinned) /\ Len(m) = N - 1
        /\ \A i \in 1..(N - 1) : m[i] = IF i < j THEN menu[i] ELSE menu[i + 1]
    BY <1>3, RemoveAtFacts
  <1> HIDE DEF m, N
  <1> DEFINE was(i) == IF i < j THEN i ELSE i + 1
  <1>5. \A i \in 1..(N - 1) : was(i) \in 1..N /\ m[i] = menu[was(i)]
    BY <1>3, <1>4
  <1>6. \A i, k \in 1..(N - 1) : was(i) = was(k) => i = k
    BY <1>3
  <1>7. m = [i \in 1..(N - 1) |-> m[i]] /\ DOMAIN m = 1..(N - 1) /\ N - 1 \in Nat
    BY <1>3, <1>4, LenProperties
  <1> HIDE DEF was
  <1>8. \A i \in 1..(N - 1) : m[i] \in Pinned /\ (m[i].card = NoView \/ m[i].card.uuid = m[i].uuid)
    BY <1>3, <1>5
  <1>9. \A i, k \in 1..(N - 1) : m[i].uuid = m[k].uuid => i = k
    BY <1>3, <1>5, <1>6
  <1>10. m \in Menu
    BY <1>7, <1>8, <1>9, AMenu
  <1>12. \A i \in 1..(N - 1) : m[i] = menu[was(i)] /\ was(i) \in DOMAIN menu
    BY <1>3, <1>5
  <1>11. PinsMatch(m, deck) /\ (torn \/ HeadsPinned(m, deck))
    BY <1>2, <1>7, <1>12 DEF PinsMatch, HeadsPinned
  <1> QED BY <1>1, <1>2, <1>10, <1>11, MenuStep

LEMMA OpenPinnedStep ==
  ASSUME SessionInv, NEW j \in DOMAIN menu, OpenPinned(j)
  PROVE  SessionInv'
  <1> DEFINE m == [menu EXCEPT ![j].card = NoView]
             N == Len(menu)
             c == menu[j].card
             D == WithRoot("main", c)
  <1>1. Acts(Working) /\ wide' = wide /\ c # NoView /\ deck' = D /\ menu' = m
    BY DEF OpenPinned
  <1>2. /\ deck \in Deck /\ menu \in Menu /\ wide \in BOOLEAN /\ PinsMatch(menu, deck)
        /\ torn \/ (Separate(deck) /\ HeadsPinned(menu, deck))
    BY DEF SessionInv, SessionTyped, PinsInv, HeadsInv, AloneInv
  <1>3. /\ menu \in Seq(Pinned) /\ N \in Nat /\ DOMAIN menu = 1..N /\ j \in 1..N
        /\ \A i \in 1..N : /\ menu[i] \in Pinned
                           /\ menu[i].card = NoView \/ menu[i].card.uuid = menu[i].uuid
        /\ \A i, k \in 1..N : menu[i].uuid = menu[k].uuid => i = k
        /\ menu[j].uuid \in 1..MaxUuid /\ c \in Item \cup {NoView}
        /\ menu[j] = [uuid |-> menu[j].uuid, card |-> c]
    BY <1>2, MenuFacts
  <1>4. c \in Item /\ c.uuid = menu[j].uuid /\ c.uuid \notin DeckUuids(deck)
    BY <1>1, <1>2, <1>3 DEF PinsMatch
  <1>5. /\ D \in Deck /\ Follows(D, deck) /\ DeckUuids(D) = DeckUuids(deck) \cup {c.uuid}
        /\ c.uuid \in Heads(D)
    BY <1>2, <1>4, WithRootFacts DEF Places
  <1> DEFINE e == [menu[j] EXCEPT !.card = NoView]
  <1>6. e \in Pinned /\ e.uuid = menu[j].uuid /\ e.card = NoView
    BY <1>3 DEF Pinned
  <1>7. m = [menu EXCEPT ![j] = e]
    OBVIOUS
  <1> HIDE DEF m, e, D, c, N
  <1>8. m \in Seq(Pinned) /\ Len(m) = N /\ \A i \in 1..N : m[i] = IF i = j THEN e ELSE menu[i]
    BY <1>3, <1>6, <1>7, ExceptSeq DEF N
  <1>9. m = [i \in 1..N |-> m[i]] /\ DOMAIN m = 1..N
    BY <1>3, <1>8, LenProperties
  <1>10. \A i \in 1..N : /\ m[i] \in Pinned /\ (m[i].card = NoView \/ m[i].card.uuid = m[i].uuid)
                         /\ m[i].uuid = menu[i].uuid
    BY <1>3, <1>6, <1>8
  <1>11. m \in Menu
    BY <1>3, <1>9, <1>10, AMenu, SMTT(30)
  <1>12. PinsMatch(m, D)
    <2> SUFFICES ASSUME NEW i \in 1..N PROVE (m[i].uuid \in DeckUuids(D)) = (m[i].card = NoView)
      BY <1>9 DEF PinsMatch
    <2>1. CASE i = j
      BY <1>4, <1>5, <1>6, <1>8, <2>1
    <2>2. CASE i # j
      <3>1. m[i] = menu[i] /\ menu[i].uuid # c.uuid
        BY <1>3, <1>4, <1>8, <2>2
      <3>2. (menu[i].uuid \in DeckUuids(deck)) = (menu[i].card = NoView)
        BY <1>2, <1>3 DEF PinsMatch
      <3> QED BY <1>5, <3>1, <3>2
    <2> QED BY <2>1, <2>2
  <1>13. ASSUME ~torn PROVE Separate(D) /\ HeadsPinned(m, D)
    <2>1. Separate(D) /\ \A u \in DeckUuids(D) \cap Heads(deck) : u \in Heads(D)
      BY <1>2, <1>5, <1>13 DEF Follows
    <2>2. ASSUME NEW i \in 1..N, m[i].card = NoView PROVE m[i].uuid \in Heads(D)
      <3>1. CASE i = j
        BY <1>4, <1>5, <1>6, <1>8, <3>1
      <3>2. CASE i # j
        <4>1. m[i] = menu[i] /\ menu[i].uuid \in Heads(deck)
          BY <1>2, <1>3, <1>8, <1>13, <2>2, <3>2 DEF HeadsPinned
        <4>2. menu[i].uuid \in DeckUuids(deck)
          BY <4>1 DEF Heads, DeckUuids
        <4> QED BY <1>5, <2>1, <4>1, <4>2
      <3> QED BY <3>1, <3>2
    <2> QED BY <1>9, <2>1, <2>2 DEF HeadsPinned
  <1> QED BY <1>1, <1>2, <1>5, <1>11, <1>12, <1>13, UserKeeps

LEMMA OpenFixedStep ==
  ASSUME SessionInv, NEW t \in {"connections", "logs", "about"}, OpenFixed(t)
  PROVE  SessionInv'
  <1> DEFINE v == BuildStore(t, {}, "read")
  <1>1. Acts(Working) /\ Room(1) /\ wide' \in BOOLEAN /\ SetDeck(WithRoot("main", Named(v, NewUuid(1))))
    BY DEF OpenFixed, SessionInv, SessionTyped
  <1>2. v \in View
    <2>1. t \in Drawn /\ Asked(t) \subseteq {} /\ "read" \in {"read", "new"}
      BY AskedOf DEF Drawn
    <2> QED BY <2>1, BuiltFacts
  <1> HIDE DEF v
  <1> QED BY <1>1, <1>2, RootStep DEF Places

LEMMA UserStep ==
  ASSUME SessionInv, UserNext
  PROVE  SessionInv'
  <1>1. CASE \E s \in Spots(deck) : OpenBelow(s) \/ RestoreLink(s) \/ Fill(s) \/ EditView(s)
                                    \/ CloseView(s) \/ Pin(s) \/ MoveView(s)
    BY <1>1, OpenBelowStep, RestoreLinkStep, FacesStep, CloseViewStep, PinStep, MoveViewStep
  <1>2. CASE \E j \in DOMAIN menu : Unpin(j) \/ OpenPinned(j)
    BY <1>2, UnpinStep, OpenPinnedStep
  <1>3. CASE \E t \in {"connections", "logs", "about"} : OpenFixed(t)
    BY <1>3, OpenFixedStep
  <1>4. ASSUME ToggleDrawer \/ \E dest \in Places : MoveFocus(dest) PROVE SessionInv'
    <2>1. \E phases : Acts(phases)
      BY <1>4 DEF ToggleDrawer, MoveFocus
    <2>2. deck' = deck /\ menu' = menu /\ wide' \in BOOLEAN
      BY <1>4 DEF ToggleDrawer, MoveFocus, SessionInv, SessionTyped
    <2>3. menu \in Menu /\ PinsMatch(menu, deck) /\ (torn \/ HeadsPinned(menu, deck))
      BY DEF SessionInv, SessionTyped, PinsInv, HeadsInv
    <2> QED BY <2>1, <2>2, <2>3, MenuStep
  <1> QED BY <1>1, <1>2, <1>3, <1>4 DEF UserNext

-----------------------------------------------------------------------------
(* Saving. *)

LEMMA StateFacts ==
  ASSUME NEW c \in Chain
  PROVE  /\ Serialize(c) \in States /\ DOMAIN Serialize(c) = 1..Len(c) /\ 1 \in 1..Len(c)
         /\ Serialize(c)[1].uuid = c[1].uuid
         /\ \A i \in 1..Len(c) : Serialize(c)[i].uuid = c[i].uuid
  <1>1. c \in Seq(Item) /\ DOMAIN c = 1..Len(c) /\ Len(c) \in Nat /\ 1 \in 1..Len(c)
    <2>1. c \in Seq(Item) /\ c # <<>>
      BY DEF Chain
    <2>2. DOMAIN c = 1..Len(c) /\ Len(c) \in Nat
      BY <2>1, LenProperties
    <2>3. Len(c) >= 1
      BY <2>1, <2>2, EmptySeq
    <2> QED BY <2>1, <2>2, <2>3
  <1>2. DOMAIN Serialize(c) = 1..Len(c) /\ \A i \in 1..Len(c) : Serialize(c)[i].uuid = c[i].uuid
    BY <1>1 DEF Serialize, GetSerialization
  <1>3. Serialize(c) \in States
    BY DEF States
  <1> QED BY <1>1, <1>2, <1>3

\* The first state of a uuid, if there is one.
LEMMA FindFacts ==
  ASSUME NEW all \in Seq(States), NEW u
  PROVE  /\ FindState(all, u) # 0 =>
              FindState(all, u) \in 1..Len(all) /\ all[FindState(all, u)][1].uuid = u
         /\ (\E i \in 1..Len(all) : all[i][1].uuid = u) => FindState(all, u) # 0
  <1> DEFINE found == {i \in DOMAIN all : all[i][1].uuid = u}
             k == CHOOSE i \in found : \A j \in found : i <= j
  <1>1. DOMAIN all = 1..Len(all) /\ Len(all) \in Nat
    BY LenProperties
  <1>2. FindState(all, u) = IF found = {} THEN 0 ELSE k
    BY DEF FindState
  <1>3. ASSUME found # {} PROVE k \in found
    <2>1. found \in SUBSET Nat
      BY <1>1
    <2>2. \E i \in found : \A j \in found : i <= j
      <3> HIDE DEF found
      <3> QED BY <1>3, <2>1, LeastNumber
    <2> QED BY <2>2
  <1>4. \A i \in found : i \in 1..Len(all) /\ i # 0 /\ all[i][1].uuid = u
    BY <1>1
  <1>5. (\E i \in 1..Len(all) : all[i][1].uuid = u) => found # {}
    BY <1>1
  <1> HIDE DEF found, k
  <1> QED BY <1>2, <1>3, <1>4, <1>5

LEMMA AllFacts ==
  ASSUME NEW q \in Seq(Chain)
  PROVE  /\ SerializeAll(q) \in Seq(States) /\ Len(SerializeAll(q)) = Len(q)
         /\ \A i \in 1..Len(q) : SerializeAll(q)[i] = Serialize(q[i])
  <1>1. DOMAIN q = 1..Len(q) /\ Len(q) \in Nat /\ \A i \in 1..Len(q) : q[i] \in Chain
    BY LenProperties, ElementOfSeq
  <1> DEFINE e(i) == Serialize(q[i])
  <1>2. \A i \in 1..Len(q) : e(i) \in States
    BY <1>1, StateFacts
  <1>3. SerializeAll(q) = [i \in 1..Len(q) |-> e(i)]
    BY <1>1 DEF SerializeAll
  <1> HIDE DEF e
  <1>4. [i \in 1..Len(q) |-> e(i)] \in Seq(States)
    BY <1>1, <1>2, IsASeq
  <1>5. Len([i \in 1..Len(q) |-> e(i)]) = Len(q)
    BY <1>1
  <1>6. \A i \in 1..Len(q) : SerializeAll(q)[i] = e(i)
    BY <1>3
  <1> QED BY <1>3, <1>4, <1>5, <1>6 DEF e

\* Those that are pinned only.
LEMMA OnlyPinnedFacts ==
  ASSUME menu \in Menu, PinsInv
  PROVE  /\ OnlyPinned \in Seq(Chain)
         /\ \A i \in 1..Len(OnlyPinned) :
              OnlyPinned[i][1].uuid \notin DeckUuids(deck)
         /\ \A j \in DOMAIN menu : menu[j].uuid \notin DeckUuids(deck) =>
              \E i \in 1..Len(OnlyPinned) : OnlyPinned[i][1].uuid = menu[j].uuid
  <1> DEFINE K == {j \in DOMAIN menu : menu[j].uuid \notin DeckUuids(deck)}
             only == Part(menu, K)
             e(j) == <<only[j].card>>
  <1>1. /\ menu \in Seq(Pinned) /\ Len(menu) \in Nat /\ DOMAIN menu = 1..Len(menu)
        /\ \A j \in 1..Len(menu) : /\ menu[j].card \in Item \cup {NoView}
                                   /\ menu[j].card = NoView \/ menu[j].card.uuid = menu[j].uuid
    BY MenuFacts
  <1>2. K \in SUBSET (1..Len(menu)) /\ IsFiniteSet(K)
    <2>1. K \in SUBSET (1..Len(menu))
      BY <1>1
    <2> HIDE DEF K
    <2> QED BY <1>1, <2>1, NumbersAreFinite
  <1>3. \A j \in K : menu[j].card \in Item /\ menu[j].card.uuid = menu[j].uuid
    BY <1>1 DEF PinsInv, PinsMatch
  <1>4. \A j \in K : menu[j].uuid \notin DeckUuids(deck)
    OBVIOUS
  <1>5. \A j \in DOMAIN menu : menu[j].uuid \notin DeckUuids(deck) => j \in K
    OBVIOUS
  <1>6. OnlyPinned = [j \in DOMAIN only |-> e(j)]
    BY DEF OnlyPinned
  <1> HIDE DEF K
  <1>7. /\ only \in Seq(Pinned) /\ Len(only) = Cardinality(K) /\ Cardinality(K) \in Nat
        /\ \E place \in [1..Cardinality(K) -> K] :
             /\ \A i \in 1..Cardinality(K) : only[i] = menu[place[i]]
             /\ \A i, j \in 1..Cardinality(K) : i # j => place[i] # place[j]
    BY <1>1, <1>2, PartFacts
  <1>8. PICK place \in [1..Cardinality(K) -> K] :
             /\ \A i \in 1..Cardinality(K) : only[i] = menu[place[i]]
             /\ \A i, j \in 1..Cardinality(K) : i # j => place[i] # place[j]
    BY <1>7
  <1> DEFINE N == Cardinality(K)
  <1>9. DOMAIN only = 1..N /\ N \in Nat
    BY <1>7, LenProperties
  <1>10. \A i \in 1..N : /\ e(i) \in Chain /\ e(i)[1].uuid = menu[place[i]].uuid
                         /\ place[i] \in K
    <2> SUFFICES ASSUME NEW i \in 1..N
                 PROVE  e(i) \in Chain /\ e(i)[1].uuid = menu[place[i]].uuid /\ place[i] \in K
      OBVIOUS
    <2>1. place[i] \in K /\ only[i] = menu[place[i]]
      BY <1>8
    <2>2. only[i].card \in Item /\ only[i].card.uuid = menu[place[i]].uuid
      BY <1>3, <2>1
    <2> HIDE DEF only
    <2>3. <<only[i].card>> \in Seq(Item) /\ <<only[i].card>> # <<>> /\ <<only[i].card>>[1] = only[i].card
      BY <2>2
    <2> QED BY <2>1, <2>2, <2>3 DEF Chain
  <1> HIDE DEF e, only
  <1>11. /\ OnlyPinned \in Seq(Chain) /\ Len(OnlyPinned) = N
         /\ \A i \in 1..N : OnlyPinned[i] = e(i)
    <2>1. OnlyPinned = [j \in 1..N |-> e(j)]
      BY <1>6, <1>9
    <2> HIDE DEF N
    <2>2. [j \in 1..N |-> e(j)] \in Seq(Chain)
      BY <1>9, <1>10, IsASeq
    <2> QED BY <1>9, <2>1, <2>2
  <1>12. \A j \in K : \E i \in 1..N : place[i] = j
    BY <1>1, <1>2, <1>8, PartReaches, ZenonT(30)
  <1>13. \A i \in 1..N : OnlyPinned[i][1].uuid = menu[place[i]].uuid /\ place[i] \in K
    BY <1>10, <1>11
  <1>14. ASSUME NEW j \in K PROVE \E i \in 1..N : OnlyPinned[i][1].uuid = menu[j].uuid
    BY <1>12, <1>13
  <1> HIDE DEF N
  <1> QED BY <1>4, <1>5, <1>11, <1>13, <1>14

\* The deck and the pinned cards are in the storage, once it is written whole.
LEMMA SavedFacts ==
  ASSUME deck \in Deck, menu \in Menu, PinsInv
  PROVE  /\ SavedSession \in Disk /\ SavedSession.roots = RootsOf(deck) /\ SavedSession.menu = MenuUuids
         /\ Separate(deck) /\ HeadsPinned(menu, deck) => Tells(SavedSession.all, deck, MenuUuids)
  <1> DEFINE a == deck["main"]
             b == deck["drawer"]
             c == OnlyPinned
             all == SerializeAll(a) \o SerializeAll(b) \o SerializeAll(c)
  <1>1. /\ a \in Seq(Chain) /\ b \in Seq(Chain) /\ c \in Seq(Chain)
        /\ Len(a) \in Nat /\ Len(b) \in Nat /\ Len(c) \in Nat
    BY SpotFacts, OnlyPinnedFacts, LenProperties DEF Places
  <1>2. /\ \A i \in 1..Len(c) : c[i][1].uuid \notin DeckUuids(deck)
        /\ \A j \in DOMAIN menu : menu[j].uuid \notin DeckUuids(deck) =>
             \E i \in 1..Len(c) : c[i][1].uuid = menu[j].uuid
    BY OnlyPinnedFacts
  <1>3. SavedSession.all = all /\ SavedSession.menu = MenuUuids /\ SavedSession.roots = RootsOf(deck)
    BY DEF SavedSession, RootsOf
  <1> HIDE DEF c
  <1> DEFINE sa == SerializeAll(a)
             sb == SerializeAll(b)
             sc == SerializeAll(c)
  <1>4. /\ sa \in Seq(States) /\ Len(sa) = Len(a) /\ \A i \in 1..Len(a) : sa[i] = Serialize(a[i])
        /\ sb \in Seq(States) /\ Len(sb) = Len(b) /\ \A i \in 1..Len(b) : sb[i] = Serialize(b[i])
        /\ sc \in Seq(States) /\ Len(sc) = Len(c) /\ \A i \in 1..Len(c) : sc[i] = Serialize(c[i])
    BY <1>1, AllFacts
  <1>5. all = (sa \o sb) \o sc
    OBVIOUS
  <1> HIDE DEF sa, sb, sc, a, b, all
  <1> DEFINE ab == sa \o sb
             A == Len(a)
             B == Len(b)
             C == Len(c)
  <1>6. /\ ab \in Seq(States) /\ Len(ab) = A + B
        /\ \A i \in 1..(A + B) : ab[i] = IF i <= A THEN sa[i] ELSE sb[i - A]
    <2>1. /\ ab \in Seq(States) /\ Len(ab) = Len(sa) + Len(sb)
          /\ \A i \in 1..(Len(sa) + Len(sb)) : ab[i] = IF i <= Len(sa) THEN sa[i] ELSE sb[i - Len(sa)]
      <3>1. sa \in Seq(States) /\ sb \in Seq(States)
        BY <1>4
      <3> QED BY <3>1, ConcatProperties
    <2> HIDE DEF ab
    <2> QED BY <1>4, <2>1
  <1> HIDE DEF ab
  <1>7. /\ all \in Seq(States) /\ Len(all) = A + B + C
        /\ \A i \in 1..(A + B + C) : all[i] = IF i <= A + B THEN ab[i] ELSE sc[i - (A + B)]
    <2>1. all = ab \o sc
      BY <1>5 DEF ab
    <2>2. /\ ab \o sc \in Seq(States) /\ Len(ab \o sc) = Len(ab) + Len(sc)
          /\ \A i \in 1..(Len(ab) + Len(sc)) : (ab \o sc)[i] = IF i <= Len(ab) THEN ab[i] ELSE sc[i - Len(ab)]
      <3>1. ab \in Seq(States) /\ sc \in Seq(States)
        BY <1>4, <1>6
      <3> QED BY <3>1, ConcatProperties
    <2> QED BY <1>4, <1>6, <2>1, <2>2
  <1> HIDE DEF A, B, C
  <1>8. A \in Nat /\ B \in Nat /\ C \in Nat
    BY <1>1 DEF A, B, C
  \* Each state is the one of a chain, and each chain has one.
  <1>9. ASSUME NEW i \in 1..Len(all)
        PROVE  \/ \E n \in 1..A : all[i] = Serialize(a[n])
               \/ \E n \in 1..B : all[i] = Serialize(b[n])
               \/ \E n \in 1..C : all[i] = Serialize(c[n])
    <2>1. CASE i <= A
      <3>1. i \in 1..A /\ i <= A + B /\ i \in 1..(A + B) /\ i \in 1..(A + B + C)
        BY <1>7, <1>8, <1>9, <2>1
      <3>2. all[i] = sa[i]
        BY <1>6, <1>7, <2>1, <3>1
      <3> QED BY <1>4, <3>1, <3>2 DEF A
    <2>2. CASE ~(i <= A) /\ i <= A + B
      <3>1. i - A \in 1..B /\ i \in 1..(A + B) /\ i \in 1..(A + B + C)
        BY <1>7, <1>8, <1>9, <2>2
      <3>2. all[i] = sb[i - A]
        BY <1>6, <1>7, <2>2, <3>1
      <3> QED BY <1>4, <3>1, <3>2 DEF B
    <2>3. CASE ~(i <= A + B)
      <3>1. i - (A + B) \in 1..C /\ i \in 1..(A + B + C)
        BY <1>7, <1>8, <1>9, <2>3
      <3>2. all[i] = sc[i - (A + B)]
        BY <1>7, <2>3, <3>1
      <3> QED BY <1>4, <3>1, <3>2 DEF C
    <2> QED BY <2>1, <2>2, <2>3
  <1>10. ASSUME NEW n \in 1..A PROVE \E i \in 1..Len(all) : all[i] = Serialize(a[n])
    <2>1. n \in 1..Len(all) /\ n <= A /\ n <= A + B /\ n \in 1..(A + B) /\ n \in 1..(A + B + C)
      BY <1>7, <1>8
    <2>2. all[n] = sa[n]
      BY <1>6, <1>7, <2>1
    <2> QED BY <1>4, <2>1, <2>2 DEF A
  <1>11. ASSUME NEW n \in 1..B PROVE \E i \in 1..Len(all) : all[i] = Serialize(b[n])
    <2> DEFINE i == A + n
    <2>1. /\ i \in 1..Len(all) /\ ~(i <= A) /\ i <= A + B /\ i \in 1..(A + B)
          /\ i \in 1..(A + B + C) /\ i - A = n
      BY <1>7, <1>8
    <2> HIDE DEF i
    <2>2. all[i] = ab[i]
      BY <1>7, <2>1
    <2>3. ab[i] = sb[i - A]
      BY <1>6, <2>1
    <2>4. all[i] = sb[n]
      BY <2>1, <2>2, <2>3
    <2> QED BY <1>4, <2>1, <2>4 DEF B
  <1>12. ASSUME NEW n \in 1..C PROVE \E i \in 1..Len(all) : all[i] = Serialize(c[n])
    <2> DEFINE i == A + B + n
    <2>1. i \in 1..Len(all) /\ ~(i <= A + B) /\ i \in 1..(A + B + C) /\ i - (A + B) = n
      BY <1>7, <1>8
    <2> HIDE DEF i
    <2>2. all[i] = sc[i - (A + B)]
      BY <1>7, <2>1
    <2>3. all[i] = sc[n]
      BY <2>1, <2>2
    <2> QED BY <1>4, <2>1, <2>3 DEF C
  <1>13. SavedSession \in Disk
    <2>1. RootsOf(deck) \in [Places -> Seq(1..MaxUuid)]
      <3> SUFFICES ASSUME NEW p \in Places
                   PROVE  [n \in DOMAIN deck[p] |-> deck[p][n][1].uuid] \in Seq(1..MaxUuid)
        BY DEF RootsOf
      <3> DEFINE e(n) == deck[p][n][1].uuid
      <3>1. DOMAIN deck[p] = 1..Len(deck[p]) /\ Len(deck[p]) \in Nat
        BY SpotFacts
      <3>2. \A n \in 1..Len(deck[p]) : e(n) \in 1..MaxUuid
        BY SpotFacts DEF Item
      <3> HIDE DEF e
      <3>3. [n \in 1..Len(deck[p]) |-> e(n)] \in Seq(1..MaxUuid)
        BY <3>1, <3>2, IsASeq
      <3> QED BY <3>1, <3>3 DEF e
    <2>2. MenuUuids \in UuidSeqs
      BY MenuFacts
    <2>3. SavedSession = [all |-> all, roots |-> RootsOf(deck), menu |-> MenuUuids]
      BY <1>3 DEF SavedSession
    <2> QED BY <1>7, <2>1, <2>2, <2>3 DEF Disk
  <1>14. \A p \in Places : deck[p] = a \/ deck[p] = b
    BY DEF Places, a, b
  <1>15. ASSUME NEW p \in Places, NEW n \in 1..Len(deck[p])
         PROVE  \E i \in 1..Len(all) : all[i] = Serialize(deck[p][n])
    <2>1. CASE deck[p] = a
      BY <1>10, <2>1 DEF A
    <2>2. CASE deck[p] = b
      BY <1>11, <2>2 DEF B
    <2> QED BY <1>14, <2>1, <2>2
  <1>16. ASSUME NEW i \in 1..Len(all)
         PROVE  \/ \E p \in Places : \E n \in 1..Len(deck[p]) : all[i] = Serialize(deck[p][n])
                \/ \E n \in 1..C : all[i] = Serialize(c[n])
    <2>1. "main" \in Places /\ "drawer" \in Places /\ deck["main"] = a /\ deck["drawer"] = b
      BY DEF Places, a, b
    <2>2. CASE \E n \in 1..A : all[i] = Serialize(a[n])
      <3>1. \E n \in 1..Len(deck["main"]) : all[i] = Serialize(deck["main"][n])
        BY <2>1, <2>2 DEF A
      <3> QED BY <2>1, <3>1
    <2>3. CASE \E n \in 1..B : all[i] = Serialize(b[n])
      <3>1. \E n \in 1..Len(deck["drawer"]) : all[i] = Serialize(deck["drawer"][n])
        BY <2>1, <2>3 DEF B
      <3> QED BY <2>1, <3>1
    <2> QED BY <1>9, <2>2, <2>3
  <1>17. ASSUME Separate(deck), HeadsPinned(menu, deck) PROVE Tells(all, deck, MenuUuids)
    <2>1. ASSUME NEW p \in Places, NEW n \in 1..Len(deck[p]) PROVE There(all, deck[p][n][1].uuid, deck[p][n])
      <3> DEFINE u == deck[p][n][1].uuid
                 k == FindState(all, u)
      <3>1. deck[p][n] \in Chain /\ 1 \in 1..Len(deck[p][n])
        BY SpotFacts, StateFacts
      <3>2. <<p, n, 1>> \in Spots(deck) /\ At(deck, <<p, n, 1>>).uuid = u /\ u \in DeckUuids(deck)
        BY <3>1, SpotFacts DEF DeckUuids
      <3> HIDE DEF u
      <3>3. k # 0
        <4>1. PICK i \in 1..Len(all) : all[i] = Serialize(deck[p][n])
          BY <1>15
        <4>2. all[i][1].uuid = u
          BY <3>1, <4>1, StateFacts DEF u
        <4> QED BY <1>7, <4>2, FindFacts
      <3>4. k \in 1..Len(all) /\ all[k][1].uuid = u
        BY <1>7, <3>3, FindFacts
      <3> HIDE DEF k
      <3>5. CASE \E q \in Places : \E m \in 1..Len(deck[q]) : all[k] = Serialize(deck[q][m])
        <4>1. PICK q \in Places : \E m \in 1..Len(deck[q]) : all[k] = Serialize(deck[q][m])
          BY <3>5
        <4>2. PICK m \in 1..Len(deck[q]) : all[k] = Serialize(deck[q][m])
          BY <4>1
        <4>3. deck[q][m] \in Chain /\ 1 \in 1..Len(deck[q][m])
          BY SpotFacts, StateFacts
        <4>4. deck[q][m][1].uuid = u
          BY <3>4, <4>2, <4>3, StateFacts
        <4>5. <<q, m, 1>> \in Spots(deck) /\ At(deck, <<q, m, 1>>).uuid = u
          BY <4>3, <4>4, SpotFacts
        <4>6. <<q, m, 1>> = <<p, n, 1>>
          BY <1>17, <3>2, <4>5 DEF Separate
        <4>7. q = p /\ m = n
          BY <4>6
        <4> QED BY <3>3, <4>2, <4>7 DEF There, k, u
      <3>6. CASE \E m \in 1..C : all[k] = Serialize(c[m])
        <4>1. PICK m \in 1..C : all[k] = Serialize(c[m])
          BY <3>6
        <4>2. c[m] \in Chain
          BY <1>1, ElementOfSeq DEF C
        <4>3. c[m][1].uuid = u
          BY <3>4, <4>1, <4>2, StateFacts
        <4> QED BY <1>2, <3>2, <4>3 DEF C
      <3> QED BY <1>16, <3>4, <3>5, <3>6
    <2>2. ASSUME NEW j \in DOMAIN MenuUuids
          PROVE  /\ FindState(all, MenuUuids[j]) # 0
                 /\ MenuUuids[j] \in DeckUuids(deck) => MenuUuids[j] \in Heads(deck)
      <3> DEFINE u == MenuUuids[j]
      <3>1. j \in DOMAIN menu /\ u = menu[j].uuid
        BY MenuFacts
      <3>2. u \in DeckUuids(deck) => u \in Heads(deck)
        BY <1>17, <3>1 DEF PinsInv, PinsMatch, HeadsPinned
      <3> HIDE DEF u
      <3>3. \E i \in 1..Len(all) : all[i][1].uuid = u
        <4>1. CASE u \in DeckUuids(deck)
          <5>1. PICK s \in Spots(deck) : s[3] = 1 /\ At(deck, s).uuid = u
            BY <3>2, <4>1 DEF Heads
          <5> DEFINE d == deck[s[1]][s[2]]
          <5>2. s[1] \in Places /\ s[2] \in 1..Len(deck[s[1]]) /\ d \in Chain /\ d[1].uuid = u
            BY <5>1, SpotFacts DEF At
          <5> HIDE DEF d
          <5>3. PICK i \in 1..Len(all) : all[i] = Serialize(d)
            BY <1>15, <5>2 DEF d
          <5>4. all[i][1].uuid = u
            BY <5>2, <5>3, StateFacts
          <5> QED BY <5>4
        <4>2. CASE u \notin DeckUuids(deck)
          <5>1. PICK n \in 1..C : c[n][1].uuid = u
            BY <1>2, <3>1, <4>2 DEF C
          <5>2. c[n] \in Chain
            BY <1>1, ElementOfSeq DEF C
          <5>3. PICK i \in 1..Len(all) : all[i] = Serialize(c[n])
            BY <1>12
          <5>4. all[i][1].uuid = u
            BY <5>1, <5>2, <5>3, StateFacts
          <5> QED BY <5>4
        <4> QED BY <4>1, <4>2
      <3>4. FindState(all, u) # 0
        BY <1>7, <3>3, FindFacts
      <3> QED BY <3>2, <3>4 DEF u
    <2> QED BY <1>17, <2>1, <2>2 DEF Tells
  <1> QED BY <1>3, <1>13, <1>17

LEMMA NoDeckFacts ==
  /\ NoDeck \in Deck /\ Spots(NoDeck) = {} /\ <<>> \in Menu /\ <<>> \in UuidSeqs /\ NoDisk \in Disk
  /\ DOMAIN <<>> = {} /\ \A p \in Places : NoDeck[p] = <<>> /\ Len(NoDeck[p]) = 0
  <1>1. <<>> \in Seq(Chain) /\ <<>> \in Seq(Pinned) /\ <<>> \in Seq(1..MaxUuid) /\ <<>> \in Seq(States)
    OBVIOUS
  <1>2. DOMAIN <<>> = {} /\ Len(<<>>) = 0
    BY EmptySeq
  <1>3. NoDeck \in Deck /\ NoDeck \in [Places -> Seq(1..MaxUuid)]
        /\ \A p \in Places : NoDeck[p] = <<>> /\ Len(NoDeck[p]) = 0
    BY <1>1, <1>2 DEF NoDeck, Deck
  <1>4. Spots(NoDeck) = {}
    <2> SUFFICES ASSUME NEW s \in Spots(NoDeck) PROVE FALSE
      OBVIOUS
    <2>1. s[1] \in Places /\ s[2] \in 1..Len(NoDeck[s[1]])
      BY <1>3, SpotFacts
    <2>2. s[2] \in 1..0
      BY <1>3, <2>1
    <2> QED BY <2>2
  <1>5. <<>> \in Menu /\ <<>> \in UuidSeqs
    BY <1>1, <1>2 DEF Menu, UuidSeqs, Once
  <1>6. NoDisk \in Disk
    BY <1>1, <1>3, <1>5 DEF NoDisk, Disk
  <1> QED BY <1>2, <1>3, <1>4, <1>5, <1>6

LEMMA PageGoneStep ==
  ASSUME SessionInv, PageGone, disk' \in Disk, saved'.deck \in Deck, DiskInv'
  PROVE  SessionInv'
  <1>1. /\ phase' = "start" /\ deck' = NoDeck /\ menu' = <<>> /\ wide' = FALSE /\ fresh' = FALSE
        /\ steps' = steps
    BY DEF PageGone
  <1>2. SessionTyped'
    BY <1>1, NoDeckFacts DEF SessionTyped, SessionInv
  <1>3. PinsMatch(<<>>, NoDeck) /\ HeadsPinned(<<>>, NoDeck) /\ Separate(NoDeck)
    BY NoDeckFacts DEF PinsMatch, HeadsPinned, Separate
  <1>4. PinsInv' /\ HeadsInv' /\ AloneInv'
    BY <1>1, <1>3 DEF PinsInv, HeadsInv, AloneInv
  <1>5. LoadInv' /\ RestoredAsSaved'
    BY <1>1 DEF LoadInv, RestoredAsSaved
  <1> QED BY <1>2, <1>4, <1>5 DEF SessionInv

LEMMA UnloadStep ==
  ASSUME SessionInv, Unload
  PROVE  SessionInv'
  <1>1. PICK count \in 0..4 :
          /\ disk' = WriteKeys(SavedSession, count) /\ PageGone
          /\ saved' = IF disk' = SavedSession THEN [whole |-> TRUE, deck |-> deck, menu |-> MenuUuids]
                      ELSE NotSaved
    BY DEF Unload
  <1>2. deck \in Deck /\ menu \in Menu /\ PinsInv /\ disk \in Disk /\ (torn \/ (Separate(deck) /\ HeadsPinned(menu, deck)))
    BY DEF SessionInv, SessionTyped, AloneInv, HeadsInv
  <1>3. /\ SavedSession \in Disk /\ SavedSession.roots = RootsOf(deck) /\ SavedSession.menu = MenuUuids
        /\ Separate(deck) /\ HeadsPinned(menu, deck) => Tells(SavedSession.all, deck, MenuUuids)
    BY <1>2, SavedFacts
  <1>4. disk' \in Disk
    <2> DEFINE S == SavedSession
               all == IF count >= 1 THEN S.all ELSE disk.all
               roots == [p \in Places |-> IF count >= (IF p = "main" THEN 2 ELSE 3)
                                          THEN S.roots[p] ELSE disk.roots[p]]
               pins == IF count >= 4 THEN S.menu ELSE disk.menu
    <2>1. disk' = [all |-> all, roots |-> roots, menu |-> pins]
      BY <1>1 DEF WriteKeys
    <2> HIDE DEF S
    <2>2. /\ S.all \in Seq(States) /\ disk.all \in Seq(States) /\ S.menu \in UuidSeqs /\ disk.menu \in UuidSeqs
          /\ S.roots \in [Places -> Seq(1..MaxUuid)] /\ disk.roots \in [Places -> Seq(1..MaxUuid)]
      BY <1>2, <1>3 DEF Disk, S
    <2>3. all \in Seq(States) /\ pins \in UuidSeqs /\ roots \in [Places -> Seq(1..MaxUuid)]
      BY <2>2
    <2> QED BY <2>1, <2>3 DEF Disk
  <1>5. saved'.deck \in Deck
    BY <1>1, <1>2, NoDeckFacts DEF NotSaved
  <1>6. DiskInv'
    <2>1. torn' = torn
      BY <1>1 DEF PageGone
    <2>2. CASE disk' = SavedSession
      <3>1. saved'.deck = deck /\ saved'.menu = MenuUuids
        BY <1>1, <2>2
      <3>2. disk'.roots = RootsOf(saved'.deck) /\ disk'.menu = saved'.menu
        BY <1>3, <2>2, <3>1
      <3>3. torn \/ Tells(disk'.all, saved'.deck, saved'.menu)
        BY <1>2, <1>3, <2>2, <3>1
      <3> QED BY <2>1, <3>2, <3>3 DEF DiskInv
    <2>3. CASE disk' # SavedSession
      BY <1>1, <2>3 DEF NotSaved, DiskInv
    <2> QED BY <2>2, <2>3
  <1> QED BY <1>1, <1>4, <1>5, <1>6, PageGoneStep

LEMMA CrashStep ==
  ASSUME SessionInv, Crash
  PROVE  SessionInv'
  <1>1. PageGone /\ disk' = disk /\ saved' = saved
    BY DEF Crash
  <1>2. disk' \in Disk /\ saved'.deck \in Deck
    BY <1>1 DEF SessionInv, SessionTyped
  <1>3. torn' = torn
    BY <1>1 DEF PageGone
  <1>4. DiskInv'
    BY <1>1, <1>3 DEF SessionInv, DiskInv
  <1> QED BY <1>1, <1>2, <1>4, PageGoneStep

LEMMA LoadStartsStep ==
  ASSUME SessionInv, LoadStarts
  PROVE  SessionInv'
  <1>1. /\ torn' = (torn \/ (~saved.whole /\ disk # NoDisk))
        /\ deck' = deck /\ menu' = menu /\ wide' = wide /\ disk' = disk /\ saved' = saved
        /\ fresh' = fresh /\ steps' = steps
    BY DEF LoadStarts
  <1>2. /\ phase' \in {"loading", "broken"}
        /\ phase' = "loading" => \A p \in Places : \A n \in DOMAIN disk.roots[p] :
                                   FindState(disk.all, disk.roots[p][n]) # 0
    BY DEF LoadStarts, StateOf
  <1>3. SessionTyped'
    BY <1>1, <1>2 DEF SessionInv, SessionTyped
  <1>4. PinsInv' /\ AloneInv' /\ HeadsInv'
    BY <1>1 DEF SessionInv, PinsInv, AloneInv, HeadsInv
  <1>5. DiskInv'
    BY <1>1 DEF SessionInv, DiskInv
  <1>6. LoadInv'
    BY <1>1, <1>2 DEF LoadInv
  <1>7. RestoredAsSaved'
    BY <1>1 DEF SessionInv, RestoredAsSaved, MenuUuids
  <1> QED BY <1>3, <1>4, <1>5, <1>6, <1>7 DEF SessionInv

LEMMA LoadFailsStep ==
  ASSUME SessionInv, LoadFails
  PROVE  SessionInv'
  <1>1. /\ phase' = "offline" /\ deck' = deck /\ menu' = menu /\ wide' = wide /\ disk' = disk
        /\ saved' = saved /\ torn' = torn /\ fresh' = fresh /\ steps' = steps
    BY DEF LoadFails
  <1>2. SessionTyped'
    BY <1>1 DEF SessionInv, SessionTyped
  <1>3. PinsInv' /\ AloneInv' /\ HeadsInv' /\ DiskInv' /\ LoadInv'
    BY <1>1 DEF SessionInv, PinsInv, AloneInv, HeadsInv, DiskInv, LoadInv
  <1>4. RestoredAsSaved'
    BY <1>1 DEF SessionInv, RestoredAsSaved, MenuUuids
  <1> QED BY <1>2, <1>3, <1>4 DEF SessionInv

LEMMA UnchangedStep ==
  ASSUME SessionInv, UNCHANGED sessionVars
  PROVE  SessionInv'
  <1> USE DEF sessionVars
  <1>2. SessionTyped'
    BY DEF SessionInv, SessionTyped
  <1>3. PinsInv' /\ AloneInv' /\ HeadsInv' /\ DiskInv' /\ LoadInv'
    BY DEF SessionInv, PinsInv, AloneInv, HeadsInv, DiskInv, LoadInv
  <1>4. RestoredAsSaved'
    BY DEF SessionInv, RestoredAsSaved, MenuUuids
  <1> QED BY <1>2, <1>3, <1>4 DEF SessionInv

LEMMA SessionStarts ==
  ASSUME SessionInit
  PROVE  SessionInv
  <1>1. /\ phase = "up" /\ family \in Families /\ menu = <<>> /\ wide = FALSE /\ disk = NoDisk
        /\ saved = NotSaved /\ torn = FALSE /\ fresh = FALSE /\ steps = 0
    BY DEF SessionInit
  <1>2. PICK t \in family, edit \in {"read", "new"} :
          /\ edit = "new" => "editState" \in Fields(t)
          /\ deck = [NoDeck EXCEPT !["main"] = <<<< [BuildStore(t,
               Fields(t) \cap (IF edit = "new" THEN Needed \ {"connection"} ELSE Needed), edit)
                 EXCEPT !.uuid = 1] >>>>]
    BY DEF SessionInit
  <1> DEFINE v == BuildStore(t, Fields(t) \cap (IF edit = "new" THEN Needed \ {"connection"} ELSE Needed), edit)
             c == [v EXCEPT !.uuid = 1]
  <1>3. v \in View
    <2>1. t \in Buildable
      BY <1>1, SessionAssumption
    <2>2. t \in Drawn
      BY <2>1 DEF Buildable, Drawn
    <2> DEFINE given == Fields(t) \cap (IF edit = "new" THEN Needed \ {"connection"} ELSE Needed)
    <2>3. Asked(t) \subseteq given
      BY DEF Asked
    <2> HIDE DEF given
    <2> QED BY <2>2, <2>3, BuiltFacts DEF given
  <1> HIDE DEF v
  <1>4. c \in Item /\ c.uuid = 1
    <2>1. 1 \in 1..MaxUuid /\ v # NoView
      BY <1>3, SessionAssumption, CardFacts
    <2>2. Named(v, 1) = c
      BY <2>1 DEF Named
    <2> HIDE DEF c
    <2> QED BY <1>3, <2>1, <2>2, NamedFacts
  <1>5. deck = [NoDeck EXCEPT !["main"] = <<<<c>>>>]
    BY <1>2 DEF v
  <1> HIDE DEF c
  <1>6. /\ <<c>> \in Chain /\ <<<<c>>>> \in Seq(Chain) /\ Len(<<<<c>>>>) = 1 /\ <<<<c>>>>[1] = <<c>>
        /\ Len(<<c>>) = 1
    BY <1>4 DEF Chain
  <1> DEFINE q == <<<<c>>>>
  <1>7. q \in Seq(Chain) /\ Len(q) = 1 /\ Len(q[1]) = 1
    BY <1>6
  <1> HIDE DEF q
  <1>8. /\ deck \in Deck /\ deck["main"] = q /\ \A p \in Places : p # "main" => deck[p] = <<>>
    BY <1>5, <1>7, NoDeckFacts DEF Deck, q, NoDeck, Places
  <1>9. \A s \in Spots(deck) : s = <<"main", 1, 1>>
    <2> SUFFICES ASSUME NEW s \in Spots(deck) PROVE s = <<"main", 1, 1>>
      OBVIOUS
    <2>1. /\ s[1] \in Places /\ s[2] \in 1..Len(deck[s[1]]) /\ s[3] \in 1..Len(deck[s[1]][s[2]])
          /\ s = <<s[1], s[2], s[3]>>
      BY <1>8, SpotFacts
    <2>2. s[1] = "main"
      <3> SUFFICES ASSUME s[1] # "main" PROVE FALSE
        OBVIOUS
      <3>1. s[2] \in 1..0
        BY <1>8, <2>1, NoDeckFacts
      <3> QED BY <3>1
    <2>3. s[2] = 1
      BY <1>7, <1>8, <2>1, <2>2
    <2>4. s[3] = 1
      <3>1. Len(deck[s[1]][s[2]]) = 1
        <4>1. deck[s[1]] = q
          BY <1>8, <2>2
        <4> QED BY <1>7, <2>3, <4>1
      <3>2. s[3] \in 1..1
        BY <2>1, <3>1
      <3> QED BY <3>2
    <2> QED BY <2>1, <2>2, <2>3, <2>4
  <1>10. SessionTyped
    <2>1. 0 \in 0..MaxSteps
      BY SessionAssumption
    <2>2. saved.deck \in Deck
      BY <1>1, NoDeckFacts DEF NotSaved
    <2> QED BY <1>1, <1>8, <2>1, <2>2, NoDeckFacts DEF SessionTyped
  <1>11. PinsInv /\ AloneInv /\ HeadsInv
    BY <1>1, <1>9, NoDeckFacts DEF PinsInv, PinsMatch, AloneInv, Separate, HeadsInv, HeadsPinned
  <1>12. DiskInv /\ LoadInv /\ RestoredAsSaved
    BY <1>1 DEF DiskInv, LoadInv, RestoredAsSaved, NotSaved
  <1> QED BY <1>10, <1>11, <1>12 DEF SessionInv

-----------------------------------------------------------------------------
(* Restoring. *)

\* A state that is found is the one of a chain that begins with its uuid.
LEMMA StateOfFacts ==
  ASSUME disk \in Disk, NEW u, StateOf(u) # 0
  PROVE  \E c \in Chain : disk.all[StateOf(u)] = Serialize(c) /\ c[1].uuid = u
  <1>1. disk.all \in Seq(States)
    BY DEF Disk
  <1>2. StateOf(u) \in 1..Len(disk.all) /\ disk.all[StateOf(u)][1].uuid = u
    BY <1>1, FindFacts DEF StateOf
  <1>3. disk.all[StateOf(u)] \in States
    BY <1>1, <1>2, ElementOfSeq
  <1>4. PICK c \in Chain : disk.all[StateOf(u)] = Serialize(c)
    BY <1>3 DEF States
  <1>5. c[1].uuid = u
    BY <1>2, <1>4, StateFacts
  <1> QED BY <1>4, <1>5

\* Each chain has a new uuid of its own.
LEMMA NumberFacts ==
  ASSUME disk \in Disk, Room(Len(disk.roots["main"]) + Len(disk.roots["drawer"]))
  PROVE  /\ \A p \in Places : /\ Len(disk.roots[p]) \in Nat /\ DOMAIN disk.roots[p] = 1..Len(disk.roots[p])
                              /\ \A n \in 1..Len(disk.roots[p]) :
                                   NewUuid(Number(p, n)) \in 1..MaxUuid /\ NewUuid(Number(p, n)) \notin UsedUuids
         /\ \A p, q \in Places : \A n \in 1..Len(disk.roots[p]) : \A m \in 1..Len(disk.roots[q]) :
              NewUuid(Number(p, n)) = NewUuid(Number(q, m)) => p = q /\ n = m
  <1> DEFINE M == Len(disk.roots["main"])
             L == Len(disk.roots["drawer"])
             U == Cardinality(Unused)
  <1>1. \A p \in Places : Len(disk.roots[p]) \in Nat /\ DOMAIN disk.roots[p] = 1..Len(disk.roots[p])
    <2> SUFFICES ASSUME NEW p \in Places
                 PROVE  Len(disk.roots[p]) \in Nat /\ DOMAIN disk.roots[p] = 1..Len(disk.roots[p])
      OBVIOUS
    <2>1. disk.roots[p] \in Seq(1..MaxUuid)
      BY DEF Disk
    <2> QED BY <2>1, LenProperties
  <1>2. M \in Nat /\ L \in Nat /\ U \in Nat /\ U >= M + L
    BY <1>1, NewUuidFacts DEF Places, Room
  <1>3. \A p \in Places : Len(disk.roots[p]) = IF p = "main" THEN M ELSE L
    BY DEF Places
  <1>4. \A p \in Places : \A n : Number(p, n) = IF p = "main" THEN n ELSE M + n
    BY DEF Number
  <1> HIDE DEF M, L, U
  <1>5. \A p \in Places : \A n \in 1..Len(disk.roots[p]) : Number(p, n) \in 1..U
    BY <1>2, <1>3, <1>4
  <1>6. ASSUME NEW p \in Places, NEW q \in Places, NEW n \in 1..Len(disk.roots[p]),
               NEW m \in 1..Len(disk.roots[q]), Number(p, n) = Number(q, m)
        PROVE  p = q /\ n = m
    BY <1>2, <1>3, <1>4, <1>6 DEF Places
  <1>7. ASSUME NEW p \in Places, NEW n \in 1..Len(disk.roots[p])
        PROVE  NewUuid(Number(p, n)) \in 1..MaxUuid /\ NewUuid(Number(p, n)) \notin UsedUuids
    <2>1. NewUuid(Number(p, n)) \in Unused
      BY <1>5, NewUuidFacts DEF U
    <2> QED BY <2>1 DEF Unused
  <1>8. ASSUME NEW p \in Places, NEW q \in Places, NEW n \in 1..Len(disk.roots[p]),
               NEW m \in 1..Len(disk.roots[q]), NewUuid(Number(p, n)) = NewUuid(Number(q, m))
        PROVE  p = q /\ n = m
    <2>1. Number(p, n) \in 1..U /\ Number(q, m) \in 1..U
      BY <1>5
    <2>2. Number(p, n) = Number(q, m)
      BY <1>8, <2>1, NewUuidFacts DEF U
    <2> QED BY <1>6, <2>2
  <1> QED BY <1>1, <1>7, <1>8

\* What is restored is a deck.
LEMMA DeckRestored ==
  ASSUME disk \in Disk, Room(Len(disk.roots["main"]) + Len(disk.roots["drawer"])), NEW options \in Options,
         \A p \in Places : \A n \in DOMAIN disk.roots[p] : StateOf(disk.roots[p][n]) # 0
  PROVE  /\ RestoredDeck(options) \in Deck
         /\ \A p \in Places : Len(RestoredDeck(options)[p]) = Len(disk.roots[p])
  <1> DEFINE e(p, n) == RestoredDeck(options)[p][n]
  <1>1. ASSUME NEW p \in Places, NEW n \in 1..Len(disk.roots[p])
        PROVE  e(p, n) \in Chain
    <2> DEFINE root == disk.roots[p][n]
               u == NewUuid(Number(p, n))
               chain == RestoreChain(disk.all[StateOf(root)], options, u)
    <2>1. n \in DOMAIN disk.roots[p] /\ u \in 1..MaxUuid
      BY NumberFacts
    <2>2. e(p, n) = IF p = "drawer" /\ root \in ToSet(disk.roots["main"]) THEN SubSeq(chain, 1, 1) ELSE chain
      BY <2>1 DEF RestoredDeck
    <2>3. StateOf(root) # 0
      BY <2>1
    <2>4. PICK c \in Chain : disk.all[StateOf(root)] = Serialize(c)
      BY <2>3, StateOfFacts
    <2> HIDE DEF root, u
    <2>5. chain = RestoreChain(Serialize(c), options, u)
      BY <2>4
    <2>6. chain \in Chain /\ SubSeq(chain, 1, 1) \in Chain
      BY <2>1, <2>5, ChainFacts
    <2> HIDE DEF chain
    <2> QED BY <2>2, <2>6
  <1>2. ASSUME NEW p \in Places
        PROVE  RestoredDeck(options)[p] \in Seq(Chain) /\ Len(RestoredDeck(options)[p]) = Len(disk.roots[p])
    <2>1. Len(disk.roots[p]) \in Nat /\ DOMAIN disk.roots[p] = 1..Len(disk.roots[p])
      BY NumberFacts
    <2>2. RestoredDeck(options)[p] = [n \in 1..Len(disk.roots[p]) |-> e(p, n)]
      BY <2>1 DEF RestoredDeck
    <2> HIDE DEF e
    <2>3. [n \in 1..Len(disk.roots[p]) |-> e(p, n)] \in Seq(Chain)
      BY <1>1, <2>1, IsASeq
    <2>4. Len([n \in 1..Len(disk.roots[p]) |-> e(p, n)]) = Len(disk.roots[p])
      BY <2>1
    <2> QED BY <2>2, <2>3, <2>4
  <1>3. RestoredDeck(options) = [p \in Places |-> RestoredDeck(options)[p]]
    BY DEF RestoredDeck
  <1> HIDE DEF e
  <1> QED BY <1>2, <1>3 DEF Deck

\* The menu that is restored goes with the deck, and lists cards of the one that was saved:
\* all of them, when they are found.
LEMMA MenuRestored ==
  ASSUME disk \in Disk, NEW D \in Deck, NEW options \in Options
  PROVE  LET m == RestoredMenu(D, options)
         IN  /\ m \in Menu /\ PinsMatch(m, D)
             /\ \A j \in DOMAIN m : \E k \in DOMAIN disk.menu : m[j].uuid = disk.menu[k]
             /\ (\A k \in DOMAIN disk.menu : StateOf(disk.menu[k]) # 0) =>
                  [j \in DOMAIN m |-> m[j].uuid] = disk.menu
  <1> DEFINE K == {j \in DOMAIN disk.menu : disk.menu[j] \in DeckUuids(D) \/ StateOf(disk.menu[j]) # 0}
             pins == Part(disk.menu, K)
             m == RestoredMenu(D, options)
             N == Cardinality(K)
  <1>1. /\ disk.menu \in Seq(1..MaxUuid) /\ DOMAIN disk.menu = 1..Len(disk.menu) /\ Len(disk.menu) \in Nat
        /\ \A i, j \in DOMAIN disk.menu : disk.menu[i] = disk.menu[j] => i = j
    <2>1. disk.menu \in Seq(1..MaxUuid) /\ Once(disk.menu)
      BY DEF Disk, UuidSeqs
    <2> QED BY <2>1, LenProperties DEF Once
  <1>2. K \in SUBSET (1..Len(disk.menu))
    BY <1>1
  <1>3. \A j \in K : disk.menu[j] \notin DeckUuids(D) => StateOf(disk.menu[j]) # 0
    OBVIOUS
  <1>4. (\A k \in DOMAIN disk.menu : StateOf(disk.menu[k]) # 0) => K = 1..Len(disk.menu)
    BY <1>1
  <1>5. m = [j \in DOMAIN pins |-> [uuid |-> pins[j], card |->
               IF pins[j] \in DeckUuids(D) THEN NoView ELSE RestoredCard(pins[j], options)]]
    BY DEF RestoredMenu, FoundPins
  <1> HIDE DEF K, m
  <1>6. /\ pins \in Seq(1..MaxUuid) /\ Len(pins) = N /\ N \in Nat
        /\ \E place \in [1..N -> K] :
             /\ \A i \in 1..N : pins[i] = disk.menu[place[i]]
             /\ \A i, j \in 1..N : i # j => place[i] # place[j]
    <2> DEFINE S == 1..MaxUuid
    <2>1. disk.menu \in Seq(S)
      BY <1>1
    <2> HIDE DEF S
    <2>2. pins \in Seq(S) /\ Len(pins) = N /\ N \in Nat
      BY <1>2, <2>1, PartFacts
    <2>3. \E place \in [1..N -> K] :
             /\ \A i \in 1..N : pins[i] = disk.menu[place[i]]
             /\ \A i, j \in 1..N : i # j => place[i] # place[j]
      BY <1>2, <2>1, PartFacts
    <2> QED BY <2>2, <2>3 DEF S
  <1>7. PICK place \in [1..N -> K] :
             /\ \A i \in 1..N : pins[i] = disk.menu[place[i]]
             /\ \A i, j \in 1..N : i # j => place[i] # place[j]
    BY <1>6
  <1>8. DOMAIN pins = 1..N
    BY <1>6, LenProperties
  <1>9. (\A k \in DOMAIN disk.menu : StateOf(disk.menu[k]) # 0) => pins = disk.menu
    BY <1>1, <1>4, PartWhole
  <1>10. \A j \in 1..N : place[j] \in K /\ place[j] \in DOMAIN disk.menu
    BY <1>1, <1>2
  <1> HIDE DEF pins, N
  <1>11. ASSUME NEW j \in 1..N
         PROVE  /\ m[j].uuid = disk.menu[place[j]] /\ m[j].uuid = pins[j] /\ m[j] \in Pinned
                /\ m[j].card = NoView \/ m[j].card.uuid = m[j].uuid
                /\ (m[j].uuid \in DeckUuids(D)) = (m[j].card = NoView)
    <2>1. pins[j] \in 1..MaxUuid /\ pins[j] = disk.menu[place[j]]
      BY <1>6, <1>7, <1>8, ElementOfSeq
    <2>2. m[j] = [uuid |-> pins[j], card |->
                   IF pins[j] \in DeckUuids(D) THEN NoView ELSE RestoredCard(pins[j], options)]
      BY <1>5, <1>8
    <2>3. ASSUME pins[j] \notin DeckUuids(D)
          PROVE  /\ RestoredCard(pins[j], options) \in Item
                 /\ RestoredCard(pins[j], options).uuid = pins[j]
      <3>1. StateOf(pins[j]) # 0
        BY <1>3, <1>10, <2>1, <2>3
      <3>2. PICK c \in Chain : disk.all[StateOf(pins[j])] = Serialize(c) /\ c[1].uuid = pins[j]
        BY <3>1, StateOfFacts
      <3>3. RestoredCard(pins[j], options) = RestoreChain(Serialize(c), options, 0)[1]
        BY <3>2 DEF RestoredCard
      <3>4. 0 \in 0..MaxUuid
        BY SessionAssumption
      <3> QED BY <3>2, <3>3, <3>4, FirstRestored
    <2>4. m[j].uuid = pins[j]
      BY <2>2
    <2>5. CASE pins[j] \in DeckUuids(D)
      <3>1. m[j].card = NoView
        BY <2>2, <2>5
      <3>2. m[j] \in Pinned
        BY <2>1, <2>2, <2>5 DEF Pinned
      <3> QED BY <2>1, <2>4, <2>5, <3>1, <3>2
    <2>6. CASE pins[j] \notin DeckUuids(D)
      <3>1. m[j].card \in Item /\ m[j].card.uuid = pins[j]
        BY <2>2, <2>3, <2>6
      <3>2. m[j] \in Pinned
        BY <2>1, <2>2, <2>3, <2>6 DEF Pinned
      <3>3. m[j].card # NoView
        BY <3>1, CardFacts
      <3> QED BY <2>1, <2>4, <2>6, <3>1, <3>2, <3>3
    <2> QED BY <2>5, <2>6
  <1>12. DOMAIN m = 1..N /\ m = [j \in 1..N |-> m[j]]
    BY <1>5, <1>8
  <1>13. \A i, j \in 1..N : m[i].uuid = m[j].uuid => i = j
    BY <1>1, <1>7, <1>10, <1>11
  <1>14. m \in Menu
    BY <1>6, <1>11, <1>12, <1>13, AMenu, SMTT(30)
  <1>15. PinsMatch(m, D)
    BY <1>11, <1>12 DEF PinsMatch
  <1>16. \A j \in DOMAIN m : \E k \in DOMAIN disk.menu : m[j].uuid = disk.menu[k]
    BY <1>10, <1>11, <1>12
  <1>17. [j \in DOMAIN m |-> m[j].uuid] = pins
    <2>1. [j \in DOMAIN m |-> m[j].uuid] = [j \in 1..N |-> pins[j]]
      BY <1>11, <1>12
    <2>2. pins = [j \in 1..N |-> pins[j]]
      BY <1>6, <1>8, LenProperties
    <2> QED BY <2>1, <2>2
  <1> QED BY <1>9, <1>14, <1>15, <1>16, <1>17 DEF m
\* A session that was saved whole comes back: the same chains, each in its place.
LEMMA WholeRestored ==
  ASSUME SessionTyped, DiskInv, ~torn, saved.whole, NEW options \in Options,
         Room(Len(disk.roots["main"]) + Len(disk.roots["drawer"])),
         \A p \in Places : \A n \in DOMAIN disk.roots[p] : StateOf(disk.roots[p][n]) # 0
  PROVE  LET D == saved.deck
             D2 == RestoredDeck(options)
         IN  /\ Separate(D) /\ Follows(D2, D)
             /\ \A p \in Places : Len(D2[p]) = Len(D[p]) /\ DOMAIN D2[p] = 1..Len(D[p])
             /\ \A p \in Places : \A n \in 1..Len(D[p]) : SameChain(D[p][n], D2[p][n])
             /\ DeckUuids(D2) \cap UsedUuids \subseteq DeckUuids(D)
  <1> DEFINE D == saved.deck
             D2 == RestoredDeck(options)
             new(p, n) == NewUuid(Number(p, n))
  <1>1. /\ disk \in Disk /\ D \in Deck /\ disk.roots = RootsOf(D)
        /\ Separate(D) /\ \A p \in Places : \A n \in 1..Len(D[p]) : There(disk.all, D[p][n][1].uuid, D[p][n])
    BY DEF SessionTyped, DiskInv, Tells
  <1>2. D2 \in Deck /\ \A p \in Places : Len(D2[p]) = Len(disk.roots[p])
    BY <1>1, DeckRestored
  <1>3. \A p \in Places : /\ Len(D[p]) \in Nat /\ DOMAIN D[p] = 1..Len(D[p]) /\ DOMAIN D2[p] = 1..Len(D2[p])
                          /\ \A n \in 1..Len(D[p]) : D[p][n] \in Chain /\ DOMAIN D[p][n] = 1..Len(D[p][n])
    BY <1>1, <1>2, SpotFacts
  <1>4. \A p \in Places : Len(disk.roots[p]) = Len(D[p]) /\ DOMAIN disk.roots[p] = 1..Len(D[p])
    <2> SUFFICES ASSUME NEW p \in Places
                 PROVE  Len(disk.roots[p]) = Len(D[p]) /\ DOMAIN disk.roots[p] = 1..Len(D[p])
      OBVIOUS
    <2>1. disk.roots[p] = [n \in 1..Len(D[p]) |-> D[p][n][1].uuid]
      BY <1>1, <1>3 DEF RootsOf
    <2> QED BY <1>3, <2>1
  <1>5. \A p \in Places : \A n \in 1..Len(D[p]) : disk.roots[p][n] = D[p][n][1].uuid
    BY <1>1, <1>3 DEF RootsOf
  <1>6. ASSUME NEW p \in Places, NEW n \in 1..Len(D[p])
        PROVE  /\ D2[p][n] = RestoreChain(Serialize(D[p][n]), options, new(p, n))
               /\ new(p, n) \in 1..MaxUuid /\ new(p, n) \notin UsedUuids
    <2> DEFINE root == disk.roots[p][n]
               u == new(p, n)
               chain == RestoreChain(disk.all[StateOf(root)], options, u)
    <2>1. n \in DOMAIN disk.roots[p]
      BY <1>4
    <2>2. D2[p][n] = IF p = "drawer" /\ root \in ToSet(disk.roots["main"]) THEN SubSeq(chain, 1, 1) ELSE chain
      BY <2>1 DEF RestoredDeck
    <2>3. root = D[p][n][1].uuid /\ disk.all[StateOf(root)] = Serialize(D[p][n])
      BY <1>1, <1>5 DEF There, StateOf
    <2>4. ~(p = "drawer" /\ root \in ToSet(disk.roots["main"]))
      <3> SUFFICES ASSUME p = "drawer", root \in ToSet(disk.roots["main"]) PROVE FALSE
        OBVIOUS
      <3>1. "main" \in Places
        BY DEF Places
      <3>2. PICK m \in 1..Len(D["main"]) : disk.roots["main"][m] = root
        BY <1>4, <3>1 DEF ToSet
      <3>3. D["main"][m][1].uuid = D[p][n][1].uuid
        BY <1>5, <2>3, <3>1, <3>2
      <3>4. 1 \in 1..Len(D["main"][m]) /\ 1 \in 1..Len(D[p][n])
        BY <1>3, <3>1, StateFacts
      <3>5. /\ <<"main", m, 1>> \in Spots(D) /\ At(D, <<"main", m, 1>>) = D["main"][m][1]
            /\ <<p, n, 1>> \in Spots(D) /\ At(D, <<p, n, 1>>) = D[p][n][1]
        BY <1>1, <3>1, <3>2, <3>4, SpotFacts, SMTT(30)
      <3>6. <<"main", m, 1>> = <<p, n, 1>>
        BY <1>1, <3>3, <3>5 DEF Separate
      <3>7. "main" = p
        BY <3>6
      <3> QED BY <3>7
    <2>5. D2[p][n] = chain
      <3> HIDE DEF root, chain
      <3> QED BY <2>2, <2>4
    <2>6. chain = RestoreChain(Serialize(D[p][n]), options, u)
      <3> HIDE DEF root, u
      <3> QED BY <2>3
    <2>7. n \in 1..Len(disk.roots[p])
      BY <1>4
    <2>8. u \in 1..MaxUuid /\ u \notin UsedUuids
      BY <1>1, <2>7, NumberFacts
    <2> HIDE DEF chain, root
    <2> QED BY <2>5, <2>6, <2>8
  <1>7. ASSUME NEW p \in Places, NEW q \in Places, NEW n \in 1..Len(D[p]), NEW m \in 1..Len(D[q]),
               new(p, n) = new(q, m)
        PROVE  p = q /\ n = m
    <2>1. n \in 1..Len(disk.roots[p]) /\ m \in 1..Len(disk.roots[q])
      BY <1>4
    <2> QED BY <1>1, <1>7, <2>1, NumberFacts
  <1> HIDE DEF new, D2
  <1>8. ASSUME NEW p \in Places, NEW n \in 1..Len(D[p])
        PROVE  /\ SameChain(D[p][n], D2[p][n])
               /\ \A i \in DOMAIN D2[p][n] : \/ i \in DOMAIN D[p][n] /\ D2[p][n][i].uuid = D[p][n][i].uuid
                                             \/ i = Len(D2[p][n]) /\ D2[p][n][i].uuid = new(p, n)
    <2> DEFINE c == D[p][n]
               u == new(p, n)
    <2>1. c \in Chain /\ u \in 1..MaxUuid /\ D2[p][n] = RestoreChain(Serialize(c), options, u)
      BY <1>3, <1>6
    <2> HIDE DEF c, u
    <2> DEFINE r == RestoreChain(Serialize(c), options, u)
    <2>3. SameChain(c, r)
      BY <2>1, ChainFacts
    <2>4. \A i \in DOMAIN r : (i \in DOMAIN c /\ r[i].uuid = c[i].uuid) \/ (i = Len(r) /\ r[i].uuid = u)
      BY <2>1, ChainFacts
    <2> HIDE DEF r
    <2>5. D2[p][n] = r
      BY <2>1 DEF r
    <2>6. SameChain(D[p][n], D2[p][n])
      BY <2>3, <2>5 DEF c
    <2>7. \A i \in DOMAIN r : (i \in DOMAIN D[p][n] /\ r[i].uuid = D[p][n][i].uuid)
                             \/ (i = Len(r) /\ r[i].uuid = new(p, n))
      BY <2>4 DEF c, u
    <2> QED BY <2>5, <2>6, <2>7
  <1>9. DeckUuids(D) \subseteq UsedUuids
    <2> SUFFICES ASSUME NEW u \in DeckUuids(D) PROVE u \in UsedUuids
      OBVIOUS
    <2>1. PICK s \in Spots(D) : At(D, s).uuid = u
      BY DEF DeckUuids
    <2> DEFINE c == D[s[1]][s[2]]
               k == FindState(disk.all, c[1].uuid)
    <2>2. s[1] \in Places /\ s[2] \in 1..Len(D[s[1]]) /\ s[3] \in 1..Len(c) /\ c[s[3]].uuid = u
      BY <1>1, <2>1, SpotFacts DEF At
    <2>3. c \in Chain /\ k # 0 /\ disk.all[k] = Serialize(c)
      BY <1>1, <1>3, <2>2 DEF There
    <2> HIDE DEF c
    <2>4. disk.all \in Seq(States) /\ k \in 1..Len(disk.all) /\ DOMAIN disk.all = 1..Len(disk.all)
      <3>1. disk.all \in Seq(States)
        BY <1>1 DEF Disk
      <3> QED BY <2>3, <3>1, FindFacts, LenProperties
    <2> HIDE DEF k
    <2>5. Serialize(c) \in ToSet(disk.all)
      BY <2>3, <2>4 DEF ToSet
    <2>6. s[3] \in DOMAIN Serialize(c) /\ Serialize(c)[s[3]].uuid = u
      BY <2>2, <2>3, StateFacts
    <2> QED BY <2>5, <2>6 DEF UsedUuids
  <1> HIDE DEF D
  <1>10. ASSUME NEW s \in Spots(D2)
         PROVE  /\ s[1] \in Places /\ s[2] \in 1..Len(D[s[1]]) /\ s = <<s[1], s[2], s[3]>>
                /\ \/ s \in Spots(D) /\ At(D2, s).uuid = At(D, s).uuid
                   \/ s[3] = Len(D2[s[1]][s[2]]) /\ At(D2, s).uuid = new(s[1], s[2])
    <2> DEFINE p == s[1]
               n == s[2]
               i == s[3]
    <2>1. p \in Places /\ n \in 1..Len(D2[p]) /\ i \in 1..Len(D2[p][n]) /\ s = <<p, n, i>>
      BY <1>2, SpotFacts
    <2>2. n \in 1..Len(D[p]) /\ i \in DOMAIN D2[p][n] /\ At(D2, s) = D2[p][n][i]
      BY <1>2, <1>4, <2>1, SpotFacts DEF At
    <2>3. CASE i \in DOMAIN D[p][n] /\ D2[p][n][i].uuid = D[p][n][i].uuid
      <3>1. i \in 1..Len(D[p][n])
        BY <1>3, <2>1, <2>2, <2>3
      <3>2. <<p, n, i>> \in Spots(D) /\ At(D, <<p, n, i>>) = D[p][n][i]
        BY <1>1, <2>1, <2>2, <3>1, SpotFacts DEF D
      <3> QED BY <2>1, <2>2, <2>3, <3>2
    <2>4. CASE i = Len(D2[p][n]) /\ D2[p][n][i].uuid = new(p, n)
      BY <2>1, <2>2, <2>4
    <2> HIDE DEF p, n, i
    <2>5. \/ i \in DOMAIN D[p][n] /\ D2[p][n][i].uuid = D[p][n][i].uuid
          \/ i = Len(D2[p][n]) /\ D2[p][n][i].uuid = new(p, n)
      BY <1>8, <2>1, <2>2
    <2> QED BY <2>3, <2>4, <2>5
  <1>11. ASSUME NEW s \in Spots(D2)
         PROVE  At(D2, s).uuid \in UsedUuids => s \in Spots(D) /\ At(D, s).uuid = At(D2, s).uuid
    BY <1>6, <1>10
  <1>12. ASSUME NEW s \in Spots(D2), NEW r \in Spots(D2), At(D2, s).uuid \notin DeckUuids(D),
                At(D2, r).uuid = At(D2, s).uuid
         PROVE  s = r
    <2>1. ASSUME NEW t \in Spots(D2), At(D2, t).uuid \notin DeckUuids(D)
          PROVE  t[3] = Len(D2[t[1]][t[2]]) /\ At(D2, t).uuid = new(t[1], t[2])
      BY <1>10, <2>1 DEF DeckUuids
    <2>2. new(s[1], s[2]) = new(r[1], r[2])
      BY <1>12, <2>1
    <2>3. s[1] = r[1] /\ s[2] = r[2]
      BY <1>7, <1>10, <2>2
    <2>4. s[3] = r[3]
      BY <1>12, <2>1, <2>3
    <2> QED BY <1>10, <2>3, <2>4
  <1>13. \A s \in Spots(D2) : At(D2, s).uuid \in DeckUuids(D) => s \in Spots(D) /\ At(D, s).uuid = At(D2, s).uuid
    BY <1>9, <1>11
  <1>14. Follows(D2, D)
    BY <1>12, <1>13, StayedFacts
  <1>15. DeckUuids(D2) \cap UsedUuids \subseteq DeckUuids(D)
    BY <1>11 DEF DeckUuids
  <1>16. Separate(D)
    BY <1>1
  <1>17. \A p \in Places : Len(D2[p]) = Len(D[p]) /\ DOMAIN D2[p] = 1..Len(D[p])
    BY <1>2, <1>3, <1>4
  <1> QED BY <1>8, <1>14, <1>15, <1>16, <1>17 DEF D, D2
LEMMA LoadDoneStep ==
  ASSUME SessionInv, LoadDone
  PROVE  SessionInv'
  <1>1. /\ phase = "loading" /\ phase' = "up" /\ fresh' = TRUE
        /\ Room(Len(disk.roots["main"]) + Len(disk.roots["drawer"]))
        /\ wide' = wide /\ disk' = disk /\ saved' = saved /\ torn' = torn /\ steps' = steps
    BY DEF LoadDone
  <1>2. PICK options \in Options : deck' = RestoredDeck(options) /\ menu' = RestoredMenu(deck', options)
    BY DEF LoadDone
  <1>3. /\ SessionTyped /\ DiskInv /\ disk \in Disk
        /\ \A p \in Places : \A n \in DOMAIN disk.roots[p] : StateOf(disk.roots[p][n]) # 0
        /\ torn \/ saved.whole \/ disk = NoDisk
    BY <1>1 DEF SessionInv, SessionTyped, LoadInv, StateOf
  <1> DEFINE D == saved.deck
             D2 == RestoredDeck(options)
             m == RestoredMenu(D2, options)
  <1>4. deck' = D2 /\ menu' = m
    BY <1>2
  <1>5. D2 \in Deck /\ \A p \in Places : Len(D2[p]) = Len(disk.roots[p])
    BY <1>1, <1>3, DeckRestored
  <1>6. /\ m \in Menu /\ PinsMatch(m, D2)
        /\ \A j \in DOMAIN m : \E k \in DOMAIN disk.menu : m[j].uuid = disk.menu[k]
        /\ (\A k \in DOMAIN disk.menu : StateOf(disk.menu[k]) # 0) => [j \in DOMAIN m |-> m[j].uuid] = disk.menu
    <2> HIDE DEF D2
    <2> QED BY <1>3, <1>5, MenuRestored
  <1> DEFINE Comes ==
        /\ Separate(D) /\ Follows(D2, D)
        /\ \A p \in Places : Len(D2[p]) = Len(D[p]) /\ DOMAIN D2[p] = 1..Len(D[p])
        /\ \A p \in Places : \A n \in 1..Len(D[p]) : SameChain(D[p][n], D2[p][n])
        /\ DeckUuids(D2) \cap UsedUuids \subseteq DeckUuids(D)
  <1>7. ASSUME ~torn, saved.whole PROVE Comes
    BY <1>1, <1>3, <1>7, WholeRestored
  <1>8. ASSUME ~torn, saved.whole
        PROVE  /\ \A k \in DOMAIN disk.menu : /\ FindState(disk.all, disk.menu[k]) # 0
                                              /\ disk.menu[k] \in DeckUuids(D) => disk.menu[k] \in Heads(D)
               /\ disk.menu = saved.menu
    BY <1>3, <1>8 DEF DiskInv, Tells
  <1> HIDE DEF D, D2, m
  <1>9. torn \/ (Separate(D2) /\ HeadsPinned(m, D2))
    <2>1. CASE ~torn /\ saved.whole
      <3>1. Separate(D2) /\ \A u \in DeckUuids(D2) \cap Heads(D) : u \in Heads(D2)
        BY <1>7, <2>1 DEF Follows
      <3>2. ASSUME NEW j \in DOMAIN m, m[j].card = NoView PROVE m[j].uuid \in Heads(D2)
        <4>1. m[j].uuid \in DeckUuids(D2)
          BY <1>6, <3>2 DEF PinsMatch
        <4>2. PICK k \in DOMAIN disk.menu : m[j].uuid = disk.menu[k]
          BY <1>6
        <4>3. disk.menu[k] \in UsedUuids
          BY DEF UsedUuids, ToSet
        <4>4. m[j].uuid \in DeckUuids(D)
          BY <1>7, <2>1, <4>1, <4>2, <4>3
        <4>5. m[j].uuid \in Heads(D)
          <5>1. disk.menu[k] \in DeckUuids(D)
            BY <4>2, <4>4
          <5>2. disk.menu[k] \in Heads(D)
            BY <1>8, <2>1, <4>2, <5>1
          <5> QED BY <4>2, <5>2
        <4> QED BY <3>1, <4>1, <4>5
      <3> QED BY <3>1, <3>2 DEF HeadsPinned
    <2>2. CASE disk = NoDisk
      <3>1. \A p \in Places : Len(D2[p]) = 0
        BY <1>5, <2>2, NoDeckFacts DEF NoDisk
      <3>2. Spots(D2) = {}
        <4> SUFFICES ASSUME NEW s \in Spots(D2) PROVE FALSE
          OBVIOUS
        <4>1. s[1] \in Places /\ s[2] \in 1..Len(D2[s[1]])
          BY <1>5, SpotFacts
        <4>2. s[2] \in 1..0
          BY <3>1, <4>1
        <4> QED BY <4>2
      <3> QED BY <1>6, <3>2 DEF Separate, HeadsPinned, PinsMatch, DeckUuids
    <2> QED BY <1>3, <2>1, <2>2
  <1>10. SessionTyped'
    BY <1>1, <1>3, <1>4, <1>5, <1>6 DEF SessionTyped
  <1>11. PinsInv'
    BY <1>4, <1>6 DEF PinsInv
  <1>12. AloneInv' /\ HeadsInv'
    BY <1>1, <1>4, <1>9 DEF AloneInv, HeadsInv
  <1>13. DiskInv' /\ LoadInv'
    BY <1>1, <1>3 DEF DiskInv, LoadInv
  <1>14. RestoredAsSaved'
    <2> SUFFICES ASSUME ~torn, saved.whole
                 PROVE  /\ [j \in DOMAIN m |-> m[j].uuid] = saved.menu
                        /\ \A p \in Places : /\ Len(D2[p]) = Len(D[p])
                                             /\ \A n \in DOMAIN D2[p] : SameChain(D[p][n], D2[p][n])
      BY <1>1, <1>4 DEF RestoredAsSaved, MenuUuids, D
    <2>1. [j \in DOMAIN m |-> m[j].uuid] = saved.menu
      <3>1. \A k \in DOMAIN disk.menu : StateOf(disk.menu[k]) # 0
        BY <1>8 DEF StateOf
      <3> QED BY <1>6, <1>8, <3>1
    <2> QED BY <1>7, <2>1
  <1> QED BY <1>10, <1>11, <1>12, <1>13, <1>14 DEF SessionInv

-----------------------------------------------------------------------------
(* The theorem. *)

LEMMA InvIsSound ==
  ASSUME SessionInv
  PROVE  SessionSound
  <1>1. deck \in Deck /\ menu \in Menu
    BY DEF SessionInv, SessionTyped
  <1>2. ASSUME NEW s \in Spots(deck)
        PROVE  /\ At(deck, s).uuid \in 1..MaxUuid /\ At(deck, s).type \in Drawn
               /\ DOMAIN At(deck, s).f = Fields(At(deck, s).type)
               /\ \A x \in (Needed \ {"connection"}) \cap Fields(At(deck, s).type) : At(deck, s).f[x] = "set"
    <2>1. At(deck, s) \in Item
      BY <1>1, SpotFacts
    <2> QED BY <2>1 DEF Item, Asks, Asked
  <1>3. SessionTypeOK
    <2>1. \A j \in DOMAIN menu : menu[j].card = NoView \/ menu[j].card.uuid = menu[j].uuid
      BY <1>1 DEF Menu
    <2> QED BY <1>2, <2>1 DEF SessionInv, SessionTyped, SessionTypeOK
  <1>4. OneStoreEach
    BY DEF SessionInv, PinsInv, PinsMatch, AloneInv, Separate, OneStoreEach
  <1>5. CanAsk
    BY <1>2 DEF CanAsk
  <1>6. RestoredAsSaved
    BY DEF SessionInv
  <1> QED BY <1>3, <1>4, <1>5, <1>6 DEF SessionSound

LEMMA SessionStep ==
  ASSUME SessionInv, [SessionNext]_sessionVars
  PROVE  SessionInv'
  BY UserStep, UnloadStep, CrashStep, LoadStartsStep, LoadDoneStep, LoadFailsStep, UnchangedStep DEF SessionNext

\* The decks, the menu and the stored session tell of the same cards, whatever is opened,
\* closed, moved and pinned, and wherever the page goes: every card has a type that is drawn
\* and what it needs to ask the server (the stores' setSerialization), a pinned card and the
\* one in a deck are one store, and a session that was written whole comes back with its menu
\* and its chains (utils/session's loadSession).
THEOREM SessionComesBack == SessionSpec => []SessionSound
  <1>1. SessionInit => SessionInv
    BY SessionStarts
  <1>2. SessionInv /\ [SessionNext]_sessionVars => SessionInv'
    BY SessionStep
  <1>3. SessionInv => SessionSound
    BY InvIsSound
  <1> QED BY <1>1, <1>2, <1>3, PTL DEF SessionSpec
=============================================================================

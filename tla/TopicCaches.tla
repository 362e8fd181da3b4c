---------------------------- MODULE TopicCaches ----------------------------
(***************************************************************************)
(* What a subject's messages were decoded under: the cache of CDDL rules   *)
(* and the cache of protobuf message types.  Each is a trie of subjects    *)
(* and of patterns learned from them, kept by every tab of the browser in  *)
(* its memory and by all of them in one item of localStorage.              *)
(* A trie is a function from paths to candidates: its empty nodes mean     *)
(* nothing.  Confidence is counted in twentieths.                          *)
(***************************************************************************)
EXTENDS Naturals, FiniteSets, Sequences, Subsequences

CONSTANTS Formats,       \* "cddl", "proto": the caches
          Tabs,
          Subjects,      \* sequences of segments
          Types,         \* rules, or message types
          OldType,       \* what the browser remembers in the format before
          MinTerminals,  \* MIN_TERMINALS_FOR_PATTERN_LEARNING, 5 in the code
          MaxTopicDepth,      \* MAX_TOPIC_DEPTH, 20 in the code
          MaxOps         \* bound: what users and messages do, per cache

Wild == "*"
ASSUME TopicAssumption ==
  /\ Formats \subseteq {"cddl", "proto"} /\ IsFiniteSet(Subjects) /\ IsFiniteSet(Tabs)
  /\ OldType \notin Types /\ MinTerminals \in Nat /\ MaxTopicDepth \in Nat
  /\ MaxOps \in [Formats -> Nat]
  /\ \A s \in Subjects : s \in Seq(STRING \ {Wild}) /\ s # <<>>

VARIABLES
  format,
  tab,       \* per tab: [open, trie, dirty]
  storage,   \* the item in localStorage: <<trie>>, or <<>> if there is none
  pending,   \* tabs that have yet to handle a storage event
  ops,
  had,       \* history: something has been stored
  again      \* history: the old format was imported after something had been stored

topicVars == <<format, tab, storage, pending, ops, had, again>>

Segments == UNION {{s[i] : i \in DOMAIN s} : s \in Subjects}
\* The subjects, and the patterns that cover them.
Paths == UNION {{p \in [DOMAIN s -> Segments \cup {Wild}] :
                   \A i \in DOMAIN s : p[i] \in {s[i], Wild}} : s \in Subjects}
Sure == 20
Lesser(a, b) == IF a < b THEN a ELSE b
Candidate == [type: Types \cup {OldType}, conf: 2..Sure]
EmptyTrie == [p \in Paths |-> <<>>]
OldTrie == [EmptyTrie EXCEPT ![CHOOSE s \in Subjects : Len(s) <= MaxTopicDepth] = <<[type |-> OldType, conf |-> Sure]>>]
Stored == IF storage = <<>> THEN EmptyTrie ELSE storage[1]

TopicTypeOK ==
  /\ format \in Formats /\ pending \subseteq {t \in Tabs : tab[t].open}
  /\ \A t \in Tabs : /\ tab[t].open \in BOOLEAN /\ tab[t].dirty \in BOOLEAN
                     /\ \A p \in Paths :
                          /\ \A i \in DOMAIN tab[t].trie[p] : tab[t].trie[p][i] \in Candidate
                          /\ Cardinality({c.type : c \in {tab[t].trie[p][i] : i \in DOMAIN tab[t].trie[p]}})
                               = Len(tab[t].trie[p])
                          /\ format = "cddl" => Len(tab[t].trie[p]) <= 1

TopicInit ==
  /\ format \in Formats /\ storage = <<>> /\ pending = {} /\ ops = 0
  /\ tab = [t \in Tabs |-> [open |-> FALSE, trie |-> EmptyTrie, dirty |-> FALSE]]
  /\ had = FALSE /\ again = FALSE

-----------------------------------------------------------------------------
(* The trie. *)

Valid(s) == Len(s) <= MaxTopicDepth
ExactSegments(p) == Cardinality({i \in DOMAIN p : p[i] # Wild})
Covers(p, s) == Len(p) = Len(s) /\ \A i \in DOMAIN p : p[i] \in {s[i], Wild}
TopConf(cs) == CHOOSE n \in {cs[i].conf : i \in DOMAIN cs} : \A i \in DOMAIN cs : cs[i].conf <= n

\* exactMatches * 10 + confidence * 5, four times as much.
Specificity(T, p) == 40 * ExactSegments(p) + TopConf(T[p])
\* The search tries the segment itself before the wildcard, and the sort is stable.
SearchedBefore(p, q) == \E i \in DOMAIN p : /\ \A j \in 1..(i - 1) : p[j] = q[j]
                                            /\ p[i] # Wild /\ q[i] = Wild
Found(T, s) == {p \in Paths : Covers(p, s) /\ T[p] # <<>>}
BestOf(T, R) == {CHOOSE p \in R : \A q \in R \ {p} :
                   \/ Specificity(T, p) > Specificity(T, q)
                   \/ Specificity(T, p) = Specificity(T, q) /\ SearchedBefore(p, q)}

\* lookup: the path itself, or the most specific pattern; {} if there is none.
LookupPath(T, s) == IF ~Valid(s) THEN {}
                    ELSE IF T[s] # <<>> THEN {s}
                    ELSE IF Found(T, s) = {} THEN {} ELSE BestOf(T, Found(T, s))

\* findMatchingNode, which updateConfidence uses, searches on its own.
MatchingPath(T, s) == IF T[s] # <<>> THEN {s}
                      ELSE IF Found(T, s) = {} THEN {} ELSE BestOf(T, Found(T, s))

\* insert of the CDDL cache: one mapping, which a new type replaces.
Firmer(c) == [c EXCEPT !.conf = Lesser(Sure, @ + 1)]
InsertRule(T, s, ty) ==
  [T EXCEPT ![s] = IF @ # <<>> /\ @[1].type = ty THEN <<Firmer(@[1])>>
                   ELSE <<[type |-> ty, conf |-> Sure]>>]

HasType(cs, ty) == \E i \in DOMAIN cs : cs[i].type = ty
Without(cs, ty) == Part(cs, {i \in DOMAIN cs : cs[i].type # ty})

\* insert of the protobuf cache: the user's choice comes first, what is learned last.
InsertCandidate(T, s, ty, prefer) ==
  LET new == [type |-> ty, conf |-> Sure]
  IN  [T EXCEPT ![s] = IF prefer THEN <<new>> \o Without(@, ty)
                       ELSE IF HasType(@, ty)
                            THEN [i \in DOMAIN @ |-> IF @[i].type = ty THEN new ELSE @[i]]
                            ELSE Append(@, new)]

Terminals(T) == {p \in Paths : T[p] # <<>>}
Patterns(T) == {p \in Terminals(T) : \E i \in DOMAIN T[p] : T[p][i].conf < Sure}
Teaches(T) == /\ Cardinality(Terminals(T)) >= MinTerminals
              /\ 10 * Cardinality(Patterns(T)) <= 3 * Cardinality(Terminals(T))
Similar(T, s, ty) == {p \in Paths \ {s} : \E i \in DOMAIN T[p] : T[p][i] = [type |-> ty, conf |-> Sure]}

\* createPattern: the topics up to the length of the shortest, with a wildcard where
\* they differ.  It may be one of the topics.
Common(R) ==
  LET n == CHOOSE n \in {Len(p) : p \in R} : \A p \in R : n <= Len(p)
      First == CHOOSE p \in R : TRUE
  IN  [i \in 1..n |-> IF \A p \in R : p[i] = First[i] THEN First[i] ELSE Wild]
PatternConf(p) == Lesser(18, 6 + (12 * ExactSegments(p)) \div Len(p))
RulePattern(T, R, ty) ==
  [T EXCEPT ![Common(R)] = <<[type |-> ty, conf |-> PatternConf(Common(R))]>>]

\* Mutant: what was learned last comes first.
CandidatePattern_First(T, R, ty) ==
  LET p == Common(R)
  IN  IF HasType(T[p], ty) THEN T
      ELSE [T EXCEPT ![p] = <<[type |-> ty, conf |-> PatternConf(p)]>> \o @]

CandidatePattern(T, R, ty) ==
  LET p == Common(R)
  IN  IF HasType(T[p], ty) THEN T
      ELSE [T EXCEPT ![p] = Append(@, [type |-> ty, conf |-> PatternConf(p)])]

\* learnPatterns of each cache.
LearnRule(T, s, ty) ==
  LET I == InsertRule(T, s, ty)
  IN  IF Teaches(I) /\ Similar(I, s, ty) # {} THEN RulePattern(I, Similar(I, s, ty) \cup {s}, ty) ELSE I
LearnCandidate(T, s, ty, prefer) ==
  LET I == InsertCandidate(T, s, ty, prefer)
  IN  IF I = T THEN T
      ELSE IF Teaches(I) /\ Similar(I, s, ty) # {}
           THEN CandidatePattern(I, Similar(I, s, ty) \cup {s}, ty) ELSE I

\* cleanup: mappings below 0.2 go.
Cleanup(T) == [p \in Paths |-> Part(T[p], {i \in DOMAIN T[p] : T[p][i].conf >= 4})]

-----------------------------------------------------------------------------
(* The tabs and localStorage. *)

Write(t, item) == /\ storage' = item
                  /\ pending' = (IF item = storage THEN pending
                                 ELSE pending \cup {u \in Tabs \ {t} : tab[u].open}) \ {u \in {t} : ~tab[u].open}
SetTab(t, T, isDirty) == tab' = [tab EXCEPT ![t] = [open |-> @.open, trie |-> T, dirty |-> isDirty]]

\* save: it may find the storage full; the CDDL cache then tries a smaller trie.
SaveDone(t, T) == Write(t, <<T>>) /\ SetTab(t, T, FALSE)
SaveFails(t, T) ==
  /\ SetTab(t, IF format = "cddl" THEN Cleanup(T) ELSE T, TRUE)
  /\ UNCHANGED <<storage, pending>>
SaveSmaller(t, T) == format = "cddl" /\ SaveDone(t, Cleanup(T))
Save(t, T) == SaveDone(t, T) \/ SaveFails(t, T) \/ SaveSmaller(t, T)

Operation(t) == tab[t].open /\ ops < MaxOps[format] /\ ops' = ops + 1 /\ UNCHANGED <<format, again>>
Idle(t) == UNCHANGED <<tab, storage, pending>>

\* onSuccessfulDecode; what is no valid subject is not remembered.
LearnedRule(t, s, ty) ==
  /\ format = "cddl"
  /\ IF Valid(s) THEN Save(t, LearnRule(tab[t].trie, s, ty)) ELSE Idle(t)
Weaker(c) == [c EXCEPT !.conf = IF @ <= 5 THEN 2 ELSE @ - 3]
DecodeFailed(t, s) ==
  LET T == tab[t].trie
  IN  /\ format = "cddl" /\ Valid(s)
      /\ Save(t, [p \in Paths |->
                    IF p \in MatchingPath(T, s)
                    THEN <<Weaker(T[p][1])>> \o Tail(T[p])
                    ELSE T[p]])

\* remember: a candidate that is known already changes nothing and is not saved.
LearnedCandidate(t, s, ty, prefer) ==
  LET T == tab[t].trie
  IN  /\ format = "proto"
      /\ IF Valid(s) /\ LearnCandidate(T, s, ty, prefer) # T
         THEN Save(t, LearnCandidate(T, s, ty, prefer)) ELSE Idle(t)

\* clear of the CDDL cache takes the item away.
ClearRules(t) == format = "cddl" /\ SetTab(t, EmptyTrie, FALSE) /\ Write(t, <<>>)

\* clear of the protobuf cache leaves an empty item behind.
ClearCandidates(t) == format = "proto" /\ Save(t, EmptyTrie)

Operate(t) ==
  /\ Operation(t)
  /\ \/ ClearRules(t) \/ ClearCandidates(t)
     \/ \E s \in Subjects : DecodeFailed(t, s)
     \/ \E s \in Subjects, ty \in Types :
          \/ LearnedRule(t, s, ty)
          \/ \E prefer \in BOOLEAN : LearnedCandidate(t, s, ty, prefer)

\* Mutant: what is stored is read over what is there, if there is anything stored.
OnStorageChange_Keeps(t) ==
  /\ t \in pending /\ pending' = pending \ {t}
  /\ SetTab(t, IF storage = <<>> THEN tab[t].trie ELSE Stored, FALSE)
  /\ UNCHANGED <<format, storage, ops, again>>

\* Another tab has written: what this one has not saved is gone.
OnStorageChange(t) ==
  /\ t \in pending /\ pending' = pending \ {t} /\ SetTab(t, Stored, FALSE)
  /\ UNCHANGED <<format, storage, ops, again>>

\* The constructor: load, and import of what the format before has left, once.
Open(t) ==
  /\ ~tab[t].open /\ UNCHANGED <<format, ops>>
  /\ IF format = "proto" /\ storage = <<>>
     THEN /\ again' = (again \/ had)
          /\ \/ /\ storage' = <<OldTrie>> /\ pending' = {u \in Tabs : tab[u].open}
                /\ tab' = [tab EXCEPT ![t] = [open |-> TRUE, trie |-> OldTrie, dirty |-> FALSE]]
             \/ /\ tab' = [tab EXCEPT ![t] = [open |-> TRUE, trie |-> OldTrie, dirty |-> TRUE]]
                /\ UNCHANGED <<storage, pending>>
     ELSE /\ tab' = [tab EXCEPT ![t] = [open |-> TRUE, trie |-> Stored, dirty |-> FALSE]]
          /\ UNCHANGED <<storage, pending, again>>

\* The page is left or reloaded: beforeunload saves what has not been.
Close(t) ==
  /\ tab[t].open /\ UNCHANGED <<format, ops, again>>
  /\ tab' = [tab EXCEPT ![t] = [open |-> FALSE, trie |-> EmptyTrie, dirty |-> FALSE]]
  /\ \/ /\ tab[t].dirty /\ storage' = <<tab[t].trie>>
        /\ pending' = (pending \cup {u \in Tabs : tab[u].open}) \ {t}
     \/ /\ pending' = pending \ {t} /\ UNCHANGED <<storage>>

TopicNext == /\ \E t \in Tabs : Operate(t) \/ OnStorageChange(t) \/ Open(t) \/ Close(t)
             /\ had' = (had \/ storage' # <<>>)
TopicSpec == TopicInit /\ [][TopicNext]_topicVars

-----------------------------------------------------------------------------
(* Properties. *)

\* A tab that has handled every storage event and has saved what it knows knows what is
\* stored: tabs that write at the same time end up with the same memory.
TabsAgree == \A t \in Tabs : tab[t].open /\ t \notin pending /\ ~tab[t].dirty => tab[t].trie = Stored

\* Learning, from messages or into patterns, never puts another candidate before the one a
\* subject is decoded under: only the user's choice, or what another tab has stored, does.
Preferred(T, p) == T[p][1].type
Chose(t, p) == \E ty \in Types : LearnedCandidate(t, p, ty, TRUE) /\ Preferred(tab'[t].trie, p) = ty
KeepsCandidates(t) ==
  \A p \in Paths :
    (/\ tab[t].open /\ tab'[t].open /\ tab[t].trie[p] # <<>> /\ tab'[t].trie[p] # <<>>
     /\ t \notin pending \ pending')
    => \/ Preferred(tab'[t].trie, p) = Preferred(tab[t].trie, p)
       \/ p \in Subjects /\ Chose(t, p)

\* The rule a message was read under is the one its subject is looked up with from then on,
\* and that of every other subject stored stays, whatever pattern was written meanwhile and
\* whatever was cleaned up to fit the storage.  What so many messages failed under that
\* nothing less is kept is cleaned up although this one was read under it.
ReadUnder(T, s) == {Preferred(T, p) : p \in LookupPath(T, s)}
Distrusted(T, s, ty) == T[s] # <<>> /\ T[s][1] = [type |-> ty, conf |-> 2]
KeepsRules(t) ==
  (tab[t].open /\ tab'[t].trie # tab[t].trie) =>
    \A s \in {s \in Subjects : Valid(s)}, ty \in Types :
      LearnedRule(t, s, ty) =>
        /\ \/ ReadUnder(tab'[t].trie, s) = {ty}
           \/ Distrusted(tab[t].trie, s, ty) /\ tab'[t].trie[s] = <<>>
        /\ \A u \in Subjects \ {s} :
             tab[t].trie[u] # <<>> /\ tab'[t].trie[u] # <<>>
               => ReadUnder(tab'[t].trie, u) = ReadUnder(tab[t].trie, u)

PreferenceKept ==
  [][\A t \in Tabs : IF format = "proto" THEN KeepsCandidates(t) ELSE KeepsRules(t)]_topicVars

\* What the browser remembers in the old format is not imported again once the new one has
\* been stored, cleared as it may be since.
ImportedOnce == ~again

\* The tabs of a browser share one memory (ProtobufTopicCache.ts:100-140).
CachesSound == TopicTypeOK /\ TabsAgree /\ ImportedOnce
=============================================================================

--------------------------- MODULE ConnPool_proofs ---------------------------
(***************************************************************************)
(* Proofs about ConnPool: its type invariant with the mutex, that a stored *)
(* connection has one open NATS connection at most, that only a refresh    *)
(* closes or replaces it, that the pooled connection is the one that is    *)
(* stored, and that a deleted one is closed.                               *)
(***************************************************************************)
EXTENDS ConnPool, TLAPS

\* What a request knows at the places where it needs it.
HasId(r) == at[r] # "idle" => id[r] \in Ids
HasDoc(r) == at[r] \in {"write", "close", "build"} => copy[r][id[r]] \in Docs

TypeInv == TypeOK /\ \A r \in Requests : HasId(r) /\ HasDoc(r)

LEMMA OneMore ==
  ASSUME NEW n \in Nat, NEW S, S \subseteq 1..n
  PROVE  S \union {n + 1} \subseteq 1..(n + 1)
  OBVIOUS

\* A build adds one handle, which all that refer to handles allow.
LEMMA BuildType ==
  ASSUME TypeInv, NEW r \in Requests, Build(r)
  PROVE  /\ built' \in Seq([id : Ids, hosts : Hosts])
         /\ open' \subseteq 1..Len(built')
         /\ pool' \in [Ids -> 0..Len(built')]
         /\ handle' \in [Requests -> 0..Len(built')]
  <1>1. /\ [id |-> id[r], hosts |-> copy[r][id[r]].hosts] \in [id : Ids, hosts : Hosts]
        /\ id[r] \in Ids
    BY DEF Build, TypeInv, HasId, HasDoc, Docs
  <1>2. /\ built \in Seq([id : Ids, hosts : Hosts])
        /\ open \subseteq 1..Len(built)
        /\ pool \in [Ids -> 0..Len(built)]
        /\ handle \in [Requests -> 0..Len(built)]
    BY DEF TypeInv, TypeOK
  <1>3. /\ built' = Append(built, [id |-> id[r], hosts |-> copy[r][id[r]].hosts])
        /\ open' = open \union {Len(built) + 1}
        /\ pool' = [pool EXCEPT ![id[r]] = Len(built) + 1]
        /\ handle' = [handle EXCEPT ![r] = 0]
    BY DEF Build, Return
  <1>4. /\ built' \in Seq([id : Ids, hosts : Hosts])
        /\ Len(built) \in Nat /\ Len(built') = Len(built) + 1
    BY <1>1, <1>2, <1>3
  <1>5. open' \subseteq 1..Len(built')
    BY <1>2, <1>3, <1>4, OneMore
  <1> QED
    BY <1>1, <1>2, <1>3, <1>4, <1>5

\* Types after a step of a request.
LEMMA StepKeepsType ==
  ASSUME TypeInv, NEW r \in Requests, Start(r) \/ Takes(r) \/ Goes_On(r)
  PROVE  TypeInv'
  <1> USE DEF TypeInv, TypeOK, HasId, HasDoc, repoVars, connVars, reqVars, Goes, About, Return,
              Docs, Stored, Pooled, NoCopy, Refreshing, Places
  <1>1. ASSUME NEW i \in Ids, NEW h \in Hosts, SaveRead(r, i, h)
        PROVE  TypeInv'
    BY <1>1, PoolAssumption DEF SaveRead
  <1>2. ASSUME NEW i \in Ids, NEW s \in SubLists, SubsRead(r, i, s)
        PROVE  TypeInv'
    <2>1. [repo[i] EXCEPT !.subs = s] \in Docs
      <3>1. repo[i] \in [hosts : Hosts, subs : SubLists]
        BY <1>2 DEF SubsRead
      <3> QED
        BY <3>1
    <2>2. copy' \in [Requests -> [Ids -> Docs \union {None}]] /\ copy'[r][i] \in Docs
      <3>1. copy' = [copy EXCEPT ![r][i] = [repo[i] EXCEPT !.subs = s]]
        BY <1>2 DEF SubsRead
      <3> QED
        BY <2>1, <3>1
    <2>3. \A q \in Requests : Refreshing(q)' <=> lock' = q
      BY <1>2 DEF SubsRead
    <2>4. \A q \in Requests : HasId(q)' /\ HasDoc(q)'
      BY <1>2, <2>2 DEF SubsRead
    <2> QED
      BY <1>2, <2>1, <2>2, <2>3, <2>4 DEF SubsRead
  <1>3. ASSUME NEW i \in Ids, ImportRead(r, i)
        PROVE  TypeInv'
    BY <1>3 DEF ImportRead
  <1>4. ASSUME NEW i \in Ids, NEW h \in Hosts, ImportNext(r, i, h)
        PROVE  TypeInv'
    <2>1. [copy[r][i] EXCEPT !.hosts = h] \in Docs
      <3>1. copy[r][i] \in [hosts : Hosts, subs : SubLists]
        BY <1>4 DEF ImportNext
      <3> QED
        BY <3>1
    <2>2. copy' \in [Requests -> [Ids -> Docs \union {None}]] /\ copy'[r][i] \in Docs
      <3>1. copy' = [copy EXCEPT ![r][i] = [copy[r][i] EXCEPT !.hosts = h]]
        BY <1>4 DEF ImportNext
      <3> QED
        BY <2>1, <3>1
    <2>3. \A q \in Requests : Refreshing(q)' <=> lock' = q
      BY <1>4 DEF ImportNext
    <2>4. \A q \in Requests : HasId(q)' /\ HasDoc(q)'
      BY <1>4, <2>2 DEF ImportNext
    <2>5. seen' \in [Requests -> SUBSET Ids]
      BY <1>4 DEF ImportNext
    <2> QED
      BY <1>4, <2>1, <2>2, <2>3, <2>4, <2>5 DEF ImportNext
  <1>5. CASE ImportEnd(r)
    <2>1. \A q \in Requests : Refreshing(q)' <=> lock' = q
      BY <1>5 DEF ImportEnd
    <2>2. \A q \in Requests : HasId(q)' /\ HasDoc(q)'
      BY <1>5 DEF ImportEnd
    <2>3. seen' \in [Requests -> SUBSET Ids] /\ due' \in [Requests -> SUBSET Ids]
      BY <1>5 DEF ImportEnd
    <2>4. copy' \in [Requests -> [Ids -> Docs \union {None}]]
      BY <1>5 DEF ImportEnd
    <2> QED
      BY <1>5, <2>1, <2>2, <2>3, <2>4 DEF ImportEnd
  <1>6. ASSUME NEW i \in Ids, NEW h \in Hosts, NEW s \in SubLists, Create(r, i, h, s)
        PROVE  TypeInv'
    BY <1>6 DEF Create, Insert
  <1>7. ASSUME NEW i \in Ids, NEW h \in Hosts, NEW s \in SubLists, ImportNew(r, i, h, s)
        PROVE  TypeInv'
    BY <1>7 DEF ImportNew, Insert
  <1>8. CASE Write(r)
    BY <1>8 DEF Write
  <1>9. CASE WriteFails(r)
    BY <1>9 DEF WriteFails
  <1>10. CASE Reload(r)
    BY <1>10 DEF Reload
  <1>11. CASE ReloadEnds(r)
    BY <1>11 DEF ReloadEnds
  <1>12. ASSUME NEW i \in Ids, Get(r, i)
        PROVE  TypeInv'
    BY <1>12 DEF Get
  <1>13. CASE GetPooled(r)
    BY <1>13 DEF GetPooled
  <1>14. CASE Lock(r)
    BY <1>14, PoolAssumption DEF Lock
  <1>15. CASE Load(r)
    BY <1>15, PoolAssumption DEF Load
  <1>16. CASE LoadFails(r)
    BY <1>16, PoolAssumption DEF LoadFails
  <1>17. CASE CloseCurrent(r)
    <2>1. \A q \in Requests : Refreshing(q)' <=> lock' = q
      BY <1>17 DEF CloseCurrent
    <2>2. \A q \in Requests : HasId(q)' /\ HasDoc(q)'
      BY <1>17 DEF CloseCurrent
    <2>3. open' \subseteq 1..Len(built')
      BY <1>17 DEF CloseCurrent
    <2> QED
      BY <1>17, <2>1, <2>2, <2>3 DEF CloseCurrent
  <1>18. CASE Build(r)
    <2>1. /\ built' \in Seq([id : Ids, hosts : Hosts])
          /\ open' \subseteq 1..Len(built')
          /\ pool' \in [Ids -> 0..Len(built')]
          /\ handle' \in [Requests -> 0..Len(built')]
      BY <1>18, BuildType
    <2>2. \A q \in Requests : Refreshing(q)' <=> lock' = q
      BY <1>18, PoolAssumption DEF Build
    <2>3. \A q \in Requests : HasId(q)' /\ HasDoc(q)'
      BY <1>18 DEF Build
    <2>4. seen' \in [Requests -> SUBSET Ids] /\ due' \in [Requests -> SUBSET Ids]
      BY <1>18 DEF Build
    <2>5. copy' \in [Requests -> [Ids -> Docs \union {None}]]
      BY <1>18 DEF Build
    <2> QED
      BY <1>18, <2>1, <2>2, <2>3, <2>4, <2>5 DEF Build
  <1>19. CASE BuildFails(r)
    BY <1>19, PoolAssumption DEF BuildFails
  <1>20. ASSUME NEW i \in Ids, Remove(r, i)
        PROVE  TypeInv'
    BY <1>20 DEF Remove
  <1>21. CASE PurgeStart(r)
    BY <1>21 DEF PurgeStart
  <1>22. ASSUME NEW i \in Ids, PurgeNext(r, i)
        PROVE  TypeInv'
    <2>1. \A q \in Requests : Refreshing(q)' <=> lock' = q
      BY <1>22 DEF PurgeNext
    <2>2. \A q \in Requests : HasId(q)' /\ HasDoc(q)'
      BY <1>22 DEF PurgeNext
    <2>3. seen' \in [Requests -> SUBSET Ids]
      BY <1>22 DEF PurgeNext
    <2> QED
      BY <1>22, <2>1, <2>2, <2>3 DEF PurgeNext
  <1>23. CASE PurgeCheck(r)
    <2>1. \A q \in Requests : Refreshing(q)' <=> lock' = q
      BY <1>23 DEF PurgeCheck
    <2>2. \A q \in Requests : HasId(q)' /\ HasDoc(q)'
      BY <1>23 DEF PurgeCheck
    <2> QED
      BY <1>23, <2>1, <2>2 DEF PurgeCheck
  <1>27. CASE PurgeMiss(r)
    <2>1. \A q \in Requests : Refreshing(q)' <=> lock' = q
      BY <1>27 DEF PurgeMiss
    <2>2. \A q \in Requests : HasId(q)' /\ HasDoc(q)'
      BY <1>27 DEF PurgeMiss
    <2> QED
      BY <1>27, <2>1, <2>2 DEF PurgeMiss
  <1>24. CASE PurgeClose(r)
    <2>1. \A q \in Requests : Refreshing(q)' <=> lock' = q
      BY <1>24 DEF PurgeClose
    <2>2. \A q \in Requests : HasId(q)' /\ HasDoc(q)'
      BY <1>24 DEF PurgeClose
    <2>3. open' \subseteq 1..Len(built')
      BY <1>24 DEF PurgeClose
    <2> QED
      BY <1>24, <2>1, <2>2, <2>3 DEF PurgeClose
  <1>25. CASE PurgeDelete(r)
    BY <1>25 DEF PurgeDelete
  <1>26. CASE PurgeEnd(r)
    BY <1>26 DEF PurgeEnd
  <1> QED
    BY <1>1, <1>2, <1>3, <1>4, <1>5, <1>6, <1>7, <1>8, <1>9, <1>10, <1>11, <1>12, <1>13,
       <1>14, <1>15, <1>16, <1>17, <1>18, <1>19, <1>20, <1>21, <1>22, <1>23, <1>24, <1>25,
       <1>26, <1>27
    DEF Start, Saves, Imports, Takes, Refreshes, Purges, Goes_On

\* TypeInv holds in every reachable state.
LEMMA TypeInvariant == ControlSpec => []TypeInv
  <1>1. Init => TypeInv
    BY PoolAssumption DEF Init, TypeInv, TypeOK, HasId, HasDoc, NoCopy, Refreshing, Places
  <1>2. TypeInv /\ [Next]_vars => TypeInv'
    <2> SUFFICES ASSUME TypeInv, [Next]_vars
                 PROVE  TypeInv'
      OBVIOUS
    <2>1. CASE Next
      BY <2>1, StepKeepsType DEF Next
    <2>2. CASE UNCHANGED vars
      BY <2>2 DEF vars, repoVars, connVars, reqVars, TypeInv, TypeOK, HasId, HasDoc, Refreshing
    <2> QED
      BY <2>1, <2>2
  <1> QED
    BY <1>1, <1>2, PTL DEF ControlSpec

\* The variables keep their types, and the mutex is held by exactly the request
\* that is inside refreshLocked.
THEOREM TypeCorrect == Spec => []TypeOK
  <1>1. TypeInv => TypeOK
    BY DEF TypeInv
  <1> QED
    BY <1>1, TypeInvariant, PTL DEF Spec

-----------------------------------------------------------------------------
(***************************************************************************)
(* Safety.  That the pooled connection is the only open one is not         *)
(* inductive: a build must find nothing open, which holds because the same *)
(* request has closed it under the mutex, and the unlocked Purge must not  *)
(* take the entry of a stored connection away, which holds because what it *)
(* has found missing never comes back, or it could not read the document   *)
(* and misread tells.  PoolInv says so.                                    *)
(***************************************************************************)

\* What is pooled, or looked at by a Purge, is a connection of that id.
HandleInv ==
  /\ \A i \in Ids : Pooled(i) => built[pool[i]].id = i
  /\ \A r \in Requests :
       at[r] \in {"check", "drop"} => handle[r] \in 1..Len(built) /\ built[handle[r]].id = id[r]

\* An id is given out before anything is stored, built or purged for it, and
\* what a Purge has found missing stays so, unless it could not read it.
BornInv ==
  /\ \A i \in Ids : Stored(i) \/ Pooled(i) => i \in born
  /\ \A n \in open : built[n].id \in born
  /\ \A r \in Requests :
       /\ at[r] \in {"close", "build", "check", "drop", "delete"} => id[r] \in born
       /\ at[r] \in {"drop", "delete"} => ~Stored(id[r]) \/ id[r] \in misread

\* When refreshLocked builds, it has closed what was open, unless a Purge that
\* could not read the document had taken the entry away.
BuildInv ==
  \A r \in Requests, n \in open :
    at[r] = "build" /\ built[n].id = id[r] => ~Stored(id[r]) \/ id[r] \in misread

SafeInv == HandleInv /\ BornInv /\ BuildInv /\ OpenIsPooled
PoolInv == TypeInv /\ SafeInv

LEMMA ElementOf ==
  ASSUME NEW S, NEW s \in Seq(S), NEW n \in 1..Len(s)
  PROVE  s[n] \in S
  OBVIOUS

\* The types the steps below rest on.
LEMMA PoolTypes ==
  ASSUME TypeInv
  PROVE  /\ repo \in [Ids -> Docs \union {None}] /\ born \subseteq Ids
         /\ built \in Seq([id : Ids, hosts : Hosts]) /\ open \subseteq 1..Len(built)
         /\ pool \in [Ids -> 0..Len(built)]
         /\ at \in [Requests -> Places] /\ id \in [Requests -> Ids \union {None}]
         /\ handle \in [Requests -> 0..Len(built)]
         /\ \A r \in Requests : (Refreshing(r) <=> lock = r) /\ HasId(r)
         /\ \A n \in open : built[n].id \in Ids
  <1>1. built \in Seq([id : Ids, hosts : Hosts]) /\ open \subseteq 1..Len(built)
    BY DEF TypeInv, TypeOK
  <1>2. ASSUME NEW n \in open
        PROVE  built[n].id \in Ids
    <2>1. n \in 1..Len(built)
      BY <1>1
    <2>2. built[n] \in [id : Ids, hosts : Hosts]
      BY <1>1, <2>1, ElementOf
    <2> QED
      BY <2>2
  <1> QED
    BY <1>2 DEF TypeInv, TypeOK

\* A step that touches neither store nor pool, and takes its request to none of
\* the places SafeInv speaks of, keeps SafeInv.
LEMMA QuietStep ==
  ASSUME PoolInv, NEW r \in Requests,
         UNCHANGED <<repo, born, built, open, pool, misread>>,
         at'[r] \notin {"close", "build", "check", "drop", "delete"},
         \A q \in Requests \ {r} : at'[q] = at[q] /\ id'[q] = id[q] /\ handle'[q] = handle[q]
  PROVE  SafeInv'
  <1>1. HandleInv /\ BornInv /\ BuildInv /\ OpenIsPooled
    BY DEF PoolInv, SafeInv
  <1>2. \A q \in Requests :
          at'[q] \in {"close", "build", "check", "drop", "delete"}
            => at'[q] = at[q] /\ id'[q] = id[q] /\ handle'[q] = handle[q]
    OBVIOUS
  <1>3. HandleInv'
    BY <1>1, <1>2 DEF HandleInv, Pooled
  <1>4. BornInv'
    BY <1>1, <1>2 DEF BornInv, Stored, Pooled
  <1>5. BuildInv'
    BY <1>1, <1>2 DEF BuildInv, Stored
  <1>6. OpenIsPooled'
    BY <1>1 DEF OpenIsPooled, Stored
  <1> QED
    BY <1>3, <1>4, <1>5, <1>6 DEF SafeInv

LEMMA StepKeepsSafe ==
  ASSUME PoolInv, NEW r \in Requests, Start(r) \/ Takes(r) \/ Goes_On(r)
  PROVE  SafeInv'
  <1> USE DEF HasId, repoVars, connVars, reqVars, Goes, About, Return, Stored, Pooled, Refreshing
  <1>a. TypeInv /\ HandleInv /\ BornInv /\ BuildInv /\ OpenIsPooled
    BY DEF PoolInv, SafeInv
  <1>b. \A n \in open : built[n].id \in born \intersect Ids
    BY <1>a, PoolTypes DEF BornInv
  <1>1. ASSUME NEW i \in Ids, NEW h \in Hosts, SaveRead(r, i, h)
        PROVE  SafeInv'
    BY <1>a, <1>1, PoolTypes, QuietStep DEF SaveRead
  <1>2. ASSUME NEW i \in Ids, NEW s \in SubLists, SubsRead(r, i, s)
        PROVE  SafeInv'
    BY <1>a, <1>2, PoolTypes, QuietStep DEF SubsRead
  <1>3. ASSUME NEW i \in Ids, ImportRead(r, i)
        PROVE  SafeInv'
    BY <1>a, <1>3, PoolTypes, QuietStep DEF ImportRead
  <1>4. ASSUME NEW i \in Ids, NEW h \in Hosts, ImportNext(r, i, h)
        PROVE  SafeInv'
    BY <1>a, <1>4, PoolTypes, QuietStep DEF ImportNext
  <1>5. CASE ImportEnd(r)
    BY <1>a, <1>5, PoolTypes, QuietStep DEF ImportEnd
  <1>6. ASSUME NEW i \in Ids, NEW h \in Hosts, NEW s \in SubLists, Create(r, i, h, s)
        PROVE  SafeInv'
    <2>1. HandleInv'
      BY <1>a, <1>6, PoolTypes DEF HandleInv, Create, Insert
    <2>2. BornInv'
      BY <1>a, <1>6, PoolTypes DEF BornInv, Create, Insert
    <2>3. BuildInv'
      BY <1>a, <1>b, <1>6, PoolTypes DEF BuildInv, OpenIsPooled, BornInv, Create, Insert
    <2>4. OpenIsPooled'
      <3> SUFFICES ASSUME NEW n \in open', Stored(built[n].id)'
                   PROVE  pool'[built'[n].id] = n \/ built'[n].id \in misread'
        BY DEF OpenIsPooled
      <3> QED
        BY <1>a, <1>b, <1>6, PoolTypes DEF OpenIsPooled, BuildInv, BornInv, HandleInv, Create,
           Insert
    <2> QED
      BY <2>1, <2>2, <2>3, <2>4 DEF SafeInv
  <1>7. ASSUME NEW i \in Ids, NEW h \in Hosts, NEW s \in SubLists, ImportNew(r, i, h, s)
        PROVE  SafeInv'
    <2>1. HandleInv'
      BY <1>a, <1>7, PoolTypes DEF HandleInv, ImportNew, Insert
    <2>2. BornInv'
      BY <1>a, <1>7, PoolTypes DEF BornInv, ImportNew, Insert
    <2>3. BuildInv'
      BY <1>a, <1>b, <1>7, PoolTypes DEF BuildInv, OpenIsPooled, BornInv, ImportNew, Insert
    <2>4. OpenIsPooled'
      <3> SUFFICES ASSUME NEW n \in open', Stored(built[n].id)'
                   PROVE  pool'[built'[n].id] = n \/ built'[n].id \in misread'
        BY DEF OpenIsPooled
      <3> QED
        BY <1>a, <1>b, <1>7, PoolTypes DEF OpenIsPooled, BuildInv, BornInv, HandleInv,
           ImportNew, Insert
    <2> QED
      BY <2>1, <2>2, <2>3, <2>4 DEF SafeInv
  <1>8. CASE Write(r)
    <2>1. HandleInv'
      BY <1>a, <1>8, PoolTypes DEF HandleInv, Write
    <2>2. BornInv'
      BY <1>a, <1>8, PoolTypes DEF BornInv, Write
    <2>3. BuildInv'
      BY <1>a, <1>b, <1>8, PoolTypes DEF BuildInv, OpenIsPooled, BornInv, Write
    <2>4. OpenIsPooled'
      <3> SUFFICES ASSUME NEW n \in open', Stored(built[n].id)'
                   PROVE  pool'[built'[n].id] = n \/ built'[n].id \in misread'
        BY DEF OpenIsPooled
      <3> QED
        BY <1>a, <1>b, <1>8, PoolTypes DEF OpenIsPooled, BuildInv, BornInv, HandleInv, Write
    <2> QED
      BY <2>1, <2>2, <2>3, <2>4 DEF SafeInv
  <1>9. CASE WriteFails(r)
    BY <1>a, <1>9, PoolTypes, QuietStep DEF WriteFails
  <1>10. CASE Reload(r)
    BY <1>a, <1>10, PoolTypes, QuietStep DEF Reload
  <1>11. CASE ReloadEnds(r)
    BY <1>a, <1>11, PoolTypes, QuietStep DEF ReloadEnds
  <1>12. ASSUME NEW i \in Ids, Get(r, i)
        PROVE  SafeInv'
    BY <1>a, <1>12, PoolTypes, QuietStep DEF Get
  <1>13. CASE GetPooled(r)
    BY <1>a, <1>13, PoolTypes, QuietStep DEF GetPooled
  <1>14. CASE Lock(r)
    BY <1>a, <1>14, PoolTypes, QuietStep DEF Lock
  <1>15. CASE Load(r)
    <2>1. HandleInv'
      BY <1>a, <1>15, PoolTypes DEF HandleInv, Load
    <2>2. BornInv'
      BY <1>a, <1>15, PoolTypes DEF BornInv, Load
    <2>3. BuildInv'
      BY <1>a, <1>b, <1>15, PoolTypes DEF BuildInv, OpenIsPooled, BornInv, Load
    <2>4. OpenIsPooled'
      <3> SUFFICES ASSUME NEW n \in open', Stored(built[n].id)'
                   PROVE  pool'[built'[n].id] = n \/ built'[n].id \in misread'
        BY DEF OpenIsPooled
      <3> QED
        BY <1>a, <1>b, <1>15, PoolTypes DEF OpenIsPooled, BuildInv, BornInv, HandleInv, Load
    <2> QED
      BY <2>1, <2>2, <2>3, <2>4 DEF SafeInv
  <1>16. CASE LoadFails(r)
    BY <1>a, <1>16, PoolTypes, QuietStep DEF LoadFails
  <1>17. CASE CloseCurrent(r)
    <2>1. HandleInv'
      BY <1>a, <1>17, PoolTypes DEF HandleInv, CloseCurrent
    <2>2. BornInv'
      BY <1>a, <1>17, PoolTypes DEF BornInv, CloseCurrent
    <2>3. BuildInv'
      BY <1>a, <1>b, <1>17, PoolTypes DEF BuildInv, OpenIsPooled, BornInv, CloseCurrent
    <2>4. OpenIsPooled'
      <3> SUFFICES ASSUME NEW n \in open', Stored(built[n].id)'
                   PROVE  pool'[built'[n].id] = n \/ built'[n].id \in misread'
        BY DEF OpenIsPooled
      <3> QED
        BY <1>a, <1>b, <1>17, PoolTypes DEF OpenIsPooled, BuildInv, BornInv, HandleInv,
           CloseCurrent
    <2> QED
      BY <2>1, <2>2, <2>3, <2>4 DEF SafeInv
  <1>18. CASE Build(r)
    <2>1. HandleInv'
      BY <1>a, <1>18, PoolTypes DEF HandleInv, Build
    <2>2. BornInv'
      BY <1>a, <1>18, PoolTypes DEF BornInv, Build
    <2>3. BuildInv'
      BY <1>a, <1>b, <1>18, PoolTypes DEF BuildInv, OpenIsPooled, BornInv, Build
    <2>4. OpenIsPooled'
      <3> SUFFICES ASSUME NEW n \in open', Stored(built[n].id)'
                   PROVE  pool'[built'[n].id] = n \/ built'[n].id \in misread'
        BY DEF OpenIsPooled
      <3> QED
        BY <1>a, <1>b, <1>18, PoolTypes DEF OpenIsPooled, BuildInv, BornInv, HandleInv, Build
    <2> QED
      BY <2>1, <2>2, <2>3, <2>4 DEF SafeInv
  <1>19. CASE BuildFails(r)
    BY <1>a, <1>19, PoolTypes, QuietStep DEF BuildFails
  <1>20. ASSUME NEW i \in Ids, Remove(r, i)
        PROVE  SafeInv'
    <2>1. HandleInv'
      BY <1>a, <1>20, PoolTypes DEF HandleInv, Remove
    <2>2. BornInv'
      BY <1>a, <1>20, PoolTypes DEF BornInv, Remove
    <2>3. BuildInv'
      BY <1>a, <1>b, <1>20, PoolTypes DEF BuildInv, OpenIsPooled, BornInv, Remove
    <2>4. OpenIsPooled'
      <3> SUFFICES ASSUME NEW n \in open', Stored(built[n].id)'
                   PROVE  pool'[built'[n].id] = n \/ built'[n].id \in misread'
        BY DEF OpenIsPooled
      <3> QED
        BY <1>a, <1>b, <1>20, PoolTypes DEF OpenIsPooled, BuildInv, BornInv, HandleInv, Remove
    <2> QED
      BY <2>1, <2>2, <2>3, <2>4 DEF SafeInv
  <1>21. CASE PurgeStart(r)
    BY <1>a, <1>21, PoolTypes, QuietStep DEF PurgeStart
  <1>22. ASSUME NEW i \in Ids, PurgeNext(r, i)
        PROVE  SafeInv'
    <2>1. HandleInv'
      BY <1>a, <1>22, PoolTypes DEF HandleInv, PurgeNext
    <2>2. BornInv'
      BY <1>a, <1>22, PoolTypes DEF BornInv, PurgeNext
    <2>3. BuildInv'
      BY <1>a, <1>b, <1>22, PoolTypes DEF BuildInv, OpenIsPooled, BornInv, PurgeNext
    <2>4. OpenIsPooled'
      <3> SUFFICES ASSUME NEW n \in open', Stored(built[n].id)'
                   PROVE  pool'[built'[n].id] = n \/ built'[n].id \in misread'
        BY DEF OpenIsPooled
      <3> QED
        BY <1>a, <1>b, <1>22, PoolTypes DEF OpenIsPooled, BuildInv, BornInv, HandleInv, PurgeNext
    <2> QED
      BY <2>1, <2>2, <2>3, <2>4 DEF SafeInv
  <1>23. CASE PurgeCheck(r)
    <2>1. HandleInv'
      BY <1>a, <1>23, PoolTypes DEF HandleInv, PurgeCheck
    <2>2. BornInv'
      BY <1>a, <1>23, PoolTypes DEF BornInv, PurgeCheck
    <2>3. BuildInv'
      BY <1>a, <1>b, <1>23, PoolTypes DEF BuildInv, OpenIsPooled, BornInv, PurgeCheck
    <2>4. OpenIsPooled'
      <3> SUFFICES ASSUME NEW n \in open', Stored(built[n].id)'
                   PROVE  pool'[built'[n].id] = n \/ built'[n].id \in misread'
        BY DEF OpenIsPooled
      <3> QED
        BY <1>a, <1>b, <1>23, PoolTypes DEF OpenIsPooled, BuildInv, BornInv, HandleInv, PurgeCheck
    <2> QED
      BY <2>1, <2>2, <2>3, <2>4 DEF SafeInv
  <1>27. CASE PurgeMiss(r)
    <2>1. HandleInv'
      BY <1>a, <1>27, PoolTypes DEF HandleInv, PurgeMiss
    <2>2. BornInv'
      BY <1>a, <1>27, PoolTypes DEF BornInv, PurgeMiss
    <2>3. BuildInv'
      BY <1>a, <1>b, <1>27, PoolTypes DEF BuildInv, OpenIsPooled, BornInv, PurgeMiss
    <2>4. OpenIsPooled'
      <3> SUFFICES ASSUME NEW n \in open', Stored(built[n].id)'
                   PROVE  pool'[built'[n].id] = n \/ built'[n].id \in misread'
        BY DEF OpenIsPooled
      <3> QED
        BY <1>a, <1>b, <1>27, PoolTypes DEF OpenIsPooled, BuildInv, BornInv, HandleInv, PurgeMiss
    <2> QED
      BY <2>1, <2>2, <2>3, <2>4 DEF SafeInv
  <1>24. CASE PurgeClose(r)
    <2>1. HandleInv'
      BY <1>a, <1>24, PoolTypes DEF HandleInv, PurgeClose
    <2>2. BornInv'
      BY <1>a, <1>24, PoolTypes DEF BornInv, PurgeClose
    <2>3. BuildInv'
      BY <1>a, <1>b, <1>24, PoolTypes DEF BuildInv, OpenIsPooled, BornInv, PurgeClose
    <2>4. OpenIsPooled'
      <3> SUFFICES ASSUME NEW n \in open', Stored(built[n].id)'
                   PROVE  pool'[built'[n].id] = n \/ built'[n].id \in misread'
        BY DEF OpenIsPooled
      <3> QED
        BY <1>a, <1>b, <1>24, PoolTypes DEF OpenIsPooled, BuildInv, BornInv, HandleInv, PurgeClose
    <2> QED
      BY <2>1, <2>2, <2>3, <2>4 DEF SafeInv
  <1>25. CASE PurgeDelete(r)
    <2>1. HandleInv'
      BY <1>a, <1>25, PoolTypes DEF HandleInv, PurgeDelete
    <2>2. BornInv'
      BY <1>a, <1>25, PoolTypes DEF BornInv, PurgeDelete
    <2>3. BuildInv'
      BY <1>a, <1>b, <1>25, PoolTypes DEF BuildInv, OpenIsPooled, BornInv, PurgeDelete
    <2>4. OpenIsPooled'
      <3> SUFFICES ASSUME NEW n \in open', Stored(built[n].id)'
                   PROVE  pool'[built'[n].id] = n \/ built'[n].id \in misread'
        BY DEF OpenIsPooled
      <3> QED
        BY <1>a, <1>b, <1>25, PoolTypes DEF OpenIsPooled, BuildInv, BornInv, HandleInv,
           PurgeDelete
    <2> QED
      BY <2>1, <2>2, <2>3, <2>4 DEF SafeInv
  <1>26. CASE PurgeEnd(r)
    BY <1>a, <1>26, PoolTypes, QuietStep DEF PurgeEnd
  <1> QED
    BY <1>1, <1>2, <1>3, <1>4, <1>5, <1>6, <1>7, <1>8, <1>9, <1>10, <1>11, <1>12, <1>13,
       <1>14, <1>15, <1>16, <1>17, <1>18, <1>19, <1>20, <1>21, <1>22, <1>23, <1>24, <1>25,
       <1>26, <1>27
    DEF Start, Saves, Imports, Takes, Refreshes, Purges, Goes_On

\* PoolInv holds in every reachable state.
LEMMA PoolInvariant == ControlSpec => []PoolInv
  <1>1. Init => SafeInv
    BY DEF Init, SafeInv, HandleInv, BornInv, BuildInv, OpenIsPooled, Stored, Pooled, NoCopy
  <1>2. TypeInv /\ SafeInv /\ [Next]_vars => SafeInv'
    <2> SUFFICES ASSUME PoolInv, [Next]_vars
                 PROVE  SafeInv'
      BY DEF PoolInv
    <2>1. CASE Next
      BY <2>1, StepKeepsSafe DEF Next
    <2>2. CASE UNCHANGED vars
      BY <2>2 DEF vars, repoVars, connVars, reqVars, PoolInv, SafeInv, HandleInv, BornInv,
                  BuildInv, OpenIsPooled, Stored, Pooled
    <2> QED
      BY <2>1, <2>2
  <1> QED
    BY <1>1, <1>2, TypeInvariant, PTL DEF ControlSpec, PoolInv

\* A stored connection has at most one open NATS connection, the pooled one.
THEOREM OneOpenConnection == Spec => []OpenIsPooled
  <1>1. PoolInv => OpenIsPooled
    BY DEF PoolInv, SafeInv
  <1> QED
    BY <1>1, PoolInvariant, PTL DEF Spec

\* What a step may do to the pooled connection of a stored id.
Replaces(i) ==
  (Stored(i) /\ Stored(i)' /\ pool[i] \in open
     /\ ~(pool[i]' = pool[i] /\ pool[i] \in open'))
    => \E r \in Requests :
         /\ id[r] = i
         /\ lock = r \/ (i \in misread /\ at[r] \in {"drop", "delete"})

LEMMA StepReplaces ==
  ASSUME PoolInv, NEW r \in Requests, Start(r) \/ Takes(r) \/ Goes_On(r), NEW i \in Ids
  PROVE  Replaces(i)
  <1> USE DEF Replaces, repoVars, connVars
  <1>a. TypeInv /\ HandleInv /\ BornInv
    BY DEF PoolInv, SafeInv
  <1>1. CASE CloseCurrent(r)
    BY <1>1, <1>a, PoolTypes DEF CloseCurrent, HandleInv, HasId, Refreshing, Pooled
  <1>2. CASE Build(r)
    BY <1>2, <1>a, PoolTypes DEF Build, HasId, Refreshing
  <1>3. CASE PurgeClose(r)
    BY <1>3, <1>a, PoolTypes DEF PurgeClose, HandleInv, BornInv, HasId, Pooled
  <1>4. CASE PurgeDelete(r)
    BY <1>4, <1>a, PoolTypes DEF PurgeDelete, BornInv, HasId
  <1>5. CASE UNCHANGED <<open, pool>>
    BY <1>5
  <1> QED
    BY <1>1, <1>2, <1>3, <1>4, <1>5
    DEF Start, Saves, Imports, Takes, Refreshes, Purges, Goes_On, SaveRead, SubsRead, ImportRead,
        ImportNext, ImportEnd, Create, ImportNew, Write, WriteFails, Reload, ReloadEnds, Get,
        GetPooled, Lock, Load, LoadFails, BuildFails, Remove, PurgeStart, PurgeNext, PurgeCheck,
        PurgeMiss, PurgeEnd

\* While its document exists, only a refresh of the same id, or a Purge that could
\* not read the document, closes or replaces the pooled connection.
THEOREM PurgeLeavesStored == Spec => OnlyRefreshReplaces
  <1>1. PoolInv /\ [Next]_vars => [\A i \in Ids : Replaces(i)]_vars
    BY StepReplaces DEF Next
  <1> QED
    BY <1>1, PoolInvariant, PTL DEF Spec, ControlSpec, OnlyRefreshReplaces, Replaces
-----------------------------------------------------------------------------
(* The pooled connection and what is stored, and deleted connections. *)

\* A refresh that will yet load what is stored for an id, and one that has
\* loaded it and not yet built.
Pending(i) ==
  \E r \in Requests :
    id[r] = i /\ (at[r] = "load" \/ (task[r] = "save" /\ at[r] \in {"reload", "lock"}))
Rebuilding(r, i) == id[r] = i /\ at[r] \in {"close", "build"}

\* Only saves and gets refresh.
TaskInv ==
  \A r \in Requests : at[r] \in {"lock", "load", "close", "build"} => task[r] \in {"save", "get"}

\* Unless a refresh is still to load them, the stored hosts are those of the
\* pooled connection, or those from which a refresh is about to build.
FreshInv ==
  \A i \in Ids \ behind :
    Stored(i) /\ ~Pending(i) =>
      /\ \A r \in Requests : Rebuilding(r, i) => copy[r][i].hosts = repo[i].hosts
      /\ (Pooled(i) /\ i \notin broken /\ \A r \in Requests : ~Rebuilding(r, i))
           => built[pool[i]].hosts = repo[i].hosts

\* A pooled connection is closed only between CloseCurrent and Build, and by a
\* Purge that is about to delete its entry.
LiveInv ==
  \A i \in Ids \ broken :
    (/\ Stored(i) /\ Pooled(i)
     /\ \A r \in Requests : ~(at[r] \in {"build", "drop", "delete"} /\ id[r] = i))
      => pool[i] \in open

\* A Get refreshes what is not pooled.
GetInv == \A r \in Requests : at[r] = "load" /\ task[r] = "get" => ~Pooled(id[r])

FollowInv == TaskInv /\ FreshInv /\ LiveInv

\* A range over conns begins with nothing seen.
SeenInv == \A r \in Requests : at[r] \in {"idle", "purge"} => seen[r] = {}

\* A Purge that is still going to close the pooled connection of a deleted id.
WillClose(r, i) ==
  \/ at[r] = "purge"
  \/ at[r] \in {"check", "drop"} /\ id[r] = i
  \/ at[r] \in {"range", "check", "drop", "delete"} /\ i \in due[r] \ seen[r]

\* The ids that a Purge does not account for.
Unsure == late \union misread

\* No refresh builds a connection that was deleted before it loaded it, and one
\* that is open for it is the pooled one, which every Purge that looks at the id
\* has in hand and some Purge has yet to close.
PurgeInv ==
  \A i \in Ids \ Unsure :
    ~Stored(i) =>
      /\ \A r \in Requests : ~Rebuilding(r, i)
      /\ \A n \in open : built[n].id = i =>
           /\ pool[i] = n
           /\ \A r \in Requests : id[r] = i =>
                at[r] # "delete" /\ (at[r] \in {"check", "drop"} => handle[r] = n)
           /\ \E r \in Requests : WillClose(r, i)

DropInv == SeenInv /\ PurgeInv


\* The types of what only these steps rest on.
LEMMA RequestTypes ==
  ASSUME TypeInv
  PROVE  /\ task \in [Requests -> {"none", "save", "subs", "import", "get", "delete"}]
         /\ copy \in [Requests -> [Ids -> Docs \union {None}]]
         /\ seen \in [Requests -> SUBSET Ids] /\ due \in [Requests -> SUBSET Ids]
         /\ behind \subseteq Ids /\ broken \subseteq Ids /\ late \subseteq Ids
         /\ \A r \in Requests : HasDoc(r)
  BY DEF TypeInv, TypeOK

\* A step that leaves store, pool and refreshes as they are, and ends no refresh
\* that is still to load a stored connection, keeps FollowInv.
LEMMA FollowFrame ==
  ASSUME PoolInv, FollowInv, NEW r \in Requests,
         UNCHANGED <<repo, built, open, pool, broken>>, behind \subseteq behind',
         at[r] \notin {"close", "build", "drop", "delete"}, at'[r] \notin {"close", "build"},
         at'[r] \in {"lock", "load"} => task'[r] \in {"save", "get"},
         \/ id[r] \in Ids /\ ~Stored(id[r])
         \/ id[r] \in behind'
         \/ ~Pooled(id[r]) /\ \A q \in Requests : ~Rebuilding(q, id[r])
         \/ at[r] # "load" /\ (task[r] = "save" => at[r] \notin {"reload", "lock"})
         \/ /\ id'[r] = id[r]
            /\ at'[r] = "load" \/ (task'[r] = "save" /\ at'[r] \in {"reload", "lock"}),
         \A q \in Requests \ {r} :
           at'[q] = at[q] /\ id'[q] = id[q] /\ task'[q] = task[q] /\ copy'[q] = copy[q]
  PROVE  FollowInv'
  <1>a. TaskInv /\ FreshInv /\ LiveInv
    BY DEF FollowInv
  <1>1. TaskInv'
    BY <1>a DEF TaskInv
  <1>2. \A i \in Ids \ behind' :
          Stored(i) /\ Pending(i) /\ (Pooled(i) \/ \E q \in Requests : Rebuilding(q, i))
            => Pending(i)'
    <2> SUFFICES ASSUME NEW i \in Ids \ behind', Stored(i),
                        Pooled(i) \/ \E q \in Requests : Rebuilding(q, i), NEW q \in Requests, id[q] = i,
                        at[q] = "load" \/ (task[q] = "save" /\ at[q] \in {"reload", "lock"})
                 PROVE  \E p \in Requests :
                          id'[p] = i /\ (at'[p] = "load"
                                           \/ (task'[p] = "save" /\ at'[p] \in {"reload", "lock"}))
      BY DEF Pending
    <2> QED
      BY DEF Stored
  <1>3. \A q \in Requests, i \in Ids :
          Rebuilding(q, i)' <=> Rebuilding(q, i) /\ q # r
    BY DEF Rebuilding
  <1>3a. \A i \in Ids : ~Rebuilding(r, i)
    BY DEF Rebuilding
  <1>4. FreshInv'
    <2> SUFFICES ASSUME NEW i \in Ids \ behind', Stored(i), ~Pending(i)'
                 PROVE  /\ \A q \in Requests : Rebuilding(q, i)' => copy'[q][i].hosts = repo[i].hosts
                        /\ (Pooled(i) /\ i \notin broken
                              /\ \A q \in Requests : ~Rebuilding(q, i)')
                             => built[pool[i]].hosts = repo[i].hosts
      BY DEF FreshInv, Stored, Pooled
    <2>1. CASE Pending(i)
      BY <2>1, <1>2, <1>3
    <2>2. CASE ~Pending(i)
      <3>1. /\ \A q \in Requests : Rebuilding(q, i) => copy[q][i].hosts = repo[i].hosts
            /\ (Pooled(i) /\ i \notin broken /\ \A q \in Requests : ~Rebuilding(q, i))
                 => built[pool[i]].hosts = repo[i].hosts
        BY <1>a, <2>2 DEF FreshInv
      <3> QED
        BY <3>1, <1>3, <1>3a
    <2> QED
      BY <2>1, <2>2
  <1>5. LiveInv'
    BY <1>a DEF LiveInv, Stored, Pooled
  <1> QED
    BY <1>1, <1>4, <1>5 DEF FollowInv

\* Nobody pools a connection while a Get that holds the mutex is to load it.
LEMMA StepKeepsGet ==
  ASSUME PoolInv, GetInv, NEW r \in Requests, Start(r) \/ Takes(r) \/ Goes_On(r)
  PROVE  GetInv'
  <1> USE DEF GetInv, Pooled, HasId, repoVars, connVars, reqVars, Goes, About, Return
  <1>a. TypeInv
    BY DEF PoolInv
  <1>1. CASE Lock(r)
    BY <1>a, <1>1, PoolTypes, RequestTypes DEF Lock
  <1>2. CASE Build(r)
    <2> SUFFICES ASSUME NEW q \in Requests, at'[q] = "load", task'[q] = "get"
                 PROVE  pool'[id'[q]] = 0
      OBVIOUS
    <2>1. q # r /\ at[q] = "load" /\ task[q] = "get" /\ id'[q] = id[q]
      BY <1>a, <1>2, PoolTypes, RequestTypes DEF Build
    <2>2. FALSE
      BY <1>a, <1>2, <2>1, PoolTypes DEF Build, Refreshing
    <2> QED
      BY <2>2
  <1>3. CASE PurgeDelete(r)
    BY <1>a, <1>3, PoolTypes, RequestTypes DEF PurgeDelete
  <1>4. CASE /\ pool' = pool
             /\ at'[r] # "load"
             /\ \A q \in Requests \ {r} : at'[q] = at[q] /\ id'[q] = id[q] /\ task'[q] = task[q]
    BY <1>4
  <1> HIDE DEF GetInv
  <1> QED
    BY <1>a, <1>1, <1>2, <1>3, <1>4, PoolTypes, RequestTypes
    DEF Start, Saves, Imports, Takes, Refreshes, Purges, Goes_On, SaveRead, SubsRead, ImportRead,
        ImportNext, ImportEnd, Create, ImportNew, Write, WriteFails, Reload, ReloadEnds, Get,
        GetPooled, Load, LoadFails, CloseCurrent, BuildFails, Remove, PurgeStart, PurgeNext,
        PurgeCheck, PurgeMiss, PurgeClose, PurgeEnd

LEMMA StepKeepsFollow ==
  ASSUME PoolInv, FollowInv, GetInv, NEW r \in Requests, Start(r) \/ Takes(r) \/ Goes_On(r)
  PROVE  FollowInv'
  <1> USE DEF HasId, repoVars, connVars, reqVars, Goes, About, Return
  <1>a. TypeInv /\ HandleInv /\ BornInv /\ TaskInv /\ FreshInv /\ LiveInv
    BY DEF PoolInv, SafeInv, FollowInv
  <1>1. ASSUME NEW i \in Ids, NEW h \in Hosts, SaveRead(r, i, h)
        PROVE  FollowInv'
    BY <1>a, <1>1, PoolTypes, RequestTypes, FollowFrame DEF SaveRead, TaskInv, Stored
  <1>2. ASSUME NEW i \in Ids, NEW s \in SubLists, SubsRead(r, i, s)
        PROVE  FollowInv'
    BY <1>a, <1>2, PoolTypes, RequestTypes, FollowFrame DEF SubsRead, TaskInv, Stored
  <1>3. ASSUME NEW i \in Ids, ImportRead(r, i)
        PROVE  FollowInv'
    BY <1>a, <1>3, PoolTypes, RequestTypes, FollowFrame DEF ImportRead, TaskInv, Stored
  <1>4. ASSUME NEW i \in Ids, NEW h \in Hosts, ImportNext(r, i, h)
        PROVE  FollowInv'
    BY <1>a, <1>4, PoolTypes, RequestTypes, FollowFrame DEF ImportNext, TaskInv, Stored
  <1>5. CASE ImportEnd(r)
    BY <1>a, <1>5, PoolTypes, RequestTypes, FollowFrame DEF ImportEnd, TaskInv, Stored
  <1>6. ASSUME NEW i \in Ids, NEW h \in Hosts, NEW s \in SubLists, Create(r, i, h, s)
        PROVE  FollowInv'
    <2>1. TaskInv'
      BY <1>a, <1>6, PoolTypes, RequestTypes DEF TaskInv, Create, Insert
    <2>2. FreshInv'
      <3> SUFFICES ASSUME NEW j \in Ids, j \notin behind', Stored(j)', ~Pending(j)'
                   PROVE  /\ \A q \in Requests :
                               Rebuilding(q, j)' => copy'[q][j].hosts = repo'[j].hosts
                          /\ (Pooled(j)' /\ j \notin broken'
                                /\ \A q \in Requests : ~Rebuilding(q, j)')
                               => built'[pool'[j]].hosts = repo'[j].hosts
        BY DEF FreshInv
      <3> QED
        BY <1>a, <1>6, PoolTypes, RequestTypes
        DEF FreshInv, Stored, Pooled, Pending, Rebuilding, HandleInv, BornInv, Create, Insert
    <2>3. LiveInv'
      BY <1>a, <1>6, PoolTypes, RequestTypes
      DEF LiveInv, Stored, Pooled, HandleInv, BornInv, Create, Insert
    <2> QED
      BY <2>1, <2>2, <2>3 DEF FollowInv
  <1>7. ASSUME NEW i \in Ids, NEW h \in Hosts, NEW s \in SubLists, ImportNew(r, i, h, s)
        PROVE  FollowInv'
    <2>1. TaskInv'
      BY <1>a, <1>7, PoolTypes, RequestTypes DEF TaskInv, ImportNew, Insert
    <2>2. FreshInv'
      <3> SUFFICES ASSUME NEW j \in Ids, j \notin behind', Stored(j)', ~Pending(j)'
                   PROVE  /\ \A q \in Requests :
                               Rebuilding(q, j)' => copy'[q][j].hosts = repo'[j].hosts
                          /\ (Pooled(j)' /\ j \notin broken'
                                /\ \A q \in Requests : ~Rebuilding(q, j)')
                               => built'[pool'[j]].hosts = repo'[j].hosts
        BY DEF FreshInv
      <3>1. /\ \A q \in Requests : Rebuilding(q, j)' <=> Rebuilding(q, j)
            /\ Pending(j)' <=> Pending(j)
        BY <1>a, <1>7 DEF ImportNew, Rebuilding, Pending
      <3>2. CASE j = i
        BY <1>a, <1>7, <3>1, <3>2, PoolTypes DEF Pooled, Rebuilding, BornInv, ImportNew, Insert
      <3>3. CASE j # i
        BY <1>a, <1>7, <3>1, <3>3, PoolTypes DEF FreshInv, Stored, Pooled, ImportNew, Insert
      <3> QED
        BY <3>2, <3>3
    <2>3. LiveInv'
      BY <1>a, <1>7, PoolTypes, RequestTypes
      DEF LiveInv, Stored, Pooled, HandleInv, BornInv, ImportNew, Insert
    <2> QED
      BY <2>1, <2>2, <2>3 DEF FollowInv
  <1>8. CASE Write(r)
    <2>1. TaskInv'
      BY <1>a, <1>8, PoolTypes, RequestTypes DEF TaskInv, Write
    <2>2. FreshInv'
      <3> SUFFICES ASSUME NEW j \in Ids, j \notin behind', Stored(j)', ~Pending(j)'
                   PROVE  /\ \A q \in Requests :
                               Rebuilding(q, j)' => copy'[q][j].hosts = repo'[j].hosts
                          /\ (Pooled(j)' /\ j \notin broken'
                                /\ \A q \in Requests : ~Rebuilding(q, j)')
                               => built'[pool'[j]].hosts = repo'[j].hosts
        BY DEF FreshInv
      <3>1. \A q \in Requests : Rebuilding(q, j)' <=> Rebuilding(q, j)
        BY <1>a, <1>8, PoolTypes DEF Write, Rebuilding
      <3>2. ~Pending(j) /\ ~(j = id[r] /\ task[r] = "save")
        BY <1>a, <1>8, PoolTypes, RequestTypes DEF Write, Pending
      <3>3. Stored(j) /\ repo'[j].hosts = repo[j].hosts /\ j \notin behind
        BY <1>a, <1>8, <3>2, PoolTypes DEF Write, Stored
      <3> QED
        BY <1>a, <1>8, <3>1, <3>2, <3>3 DEF FreshInv, Pooled, Write
    <2>3. LiveInv'
      BY <1>a, <1>8, PoolTypes, RequestTypes
      DEF LiveInv, Stored, Pooled, HandleInv, BornInv, Write
    <2> QED
      BY <2>1, <2>2, <2>3 DEF FollowInv
  <1>9. CASE WriteFails(r)
    BY <1>a, <1>9, PoolTypes, RequestTypes, FollowFrame DEF WriteFails, TaskInv, Stored
  <1>10. CASE Reload(r)
    BY <1>a, <1>10, PoolTypes, RequestTypes, FollowFrame DEF Reload, TaskInv, Stored
  <1>11. CASE ReloadEnds(r)
    BY <1>a, <1>11, PoolTypes, RequestTypes, FollowFrame DEF ReloadEnds, TaskInv, Stored
  <1>12. ASSUME NEW i \in Ids, Get(r, i)
        PROVE  FollowInv'
    BY <1>a, <1>12, PoolTypes, RequestTypes, FollowFrame DEF Get, TaskInv, Stored
  <1>13. CASE GetPooled(r)
    BY <1>a, <1>13, PoolTypes, RequestTypes, FollowFrame DEF GetPooled, TaskInv, Stored
  <1>14. CASE Lock(r)
    BY <1>a, <1>14, PoolTypes, RequestTypes, FollowFrame DEF Lock, TaskInv, Stored
  <1>15. CASE Load(r)
    <2>1. TaskInv'
      BY <1>a, <1>15, PoolTypes, RequestTypes DEF TaskInv, Load
    <2>2. FreshInv'
      <3> SUFFICES ASSUME NEW j \in Ids, j \notin behind', Stored(j)', ~Pending(j)'
                   PROVE  /\ \A q \in Requests :
                               Rebuilding(q, j)' => copy'[q][j].hosts = repo'[j].hosts
                          /\ (Pooled(j)' /\ j \notin broken'
                                /\ \A q \in Requests : ~Rebuilding(q, j)')
                               => built'[pool'[j]].hosts = repo'[j].hosts
        BY DEF FreshInv
      <3>1. CASE j = id[r]
        <4>1. \A q \in Requests : Rebuilding(q, j)' => q = r
          BY <1>a, <1>15, <3>1, PoolTypes DEF Load, Rebuilding, Refreshing
        <4>2. Rebuilding(r, j)' /\ copy'[r][j] = repo[j]
          BY <1>a, <1>15, <3>1, PoolTypes, RequestTypes DEF Load, Rebuilding
        <4> QED
          BY <1>15, <4>1, <4>2 DEF Load
      <3>2. CASE j # id[r]
        <4>1. \A q \in Requests :
                /\ Rebuilding(q, j)' <=> Rebuilding(q, j)
                /\ copy'[q][j] = copy[q][j]
          BY <1>a, <1>15, <3>2, PoolTypes, RequestTypes DEF Load, Rebuilding
        <4>2. ~Pending(j)
          BY <1>a, <1>15, <3>2, PoolTypes DEF Load, Pending
        <4> QED
          BY <1>a, <1>15, <3>2, <4>1, <4>2, PoolTypes DEF FreshInv, Stored, Pooled, Load
      <3> QED
        BY <3>1, <3>2
    <2>3. LiveInv'
      BY <1>a, <1>15, PoolTypes, RequestTypes
      DEF LiveInv, Stored, Pooled, HandleInv, BornInv, Load
    <2> QED
      BY <2>1, <2>2, <2>3 DEF FollowInv
  <1>16. CASE LoadFails(r)
    BY <1>a, <1>16, PoolTypes, RequestTypes, FollowFrame
    DEF LoadFails, TaskInv, GetInv, Stored, Pooled, Rebuilding, Refreshing
  <1>17. CASE CloseCurrent(r)
    <2>1. TaskInv'
      BY <1>a, <1>17, PoolTypes, RequestTypes DEF TaskInv, CloseCurrent
    <2>2. FreshInv'
      <3> SUFFICES ASSUME NEW j \in Ids, j \notin behind', Stored(j)', ~Pending(j)'
                   PROVE  /\ \A q \in Requests :
                               Rebuilding(q, j)' => copy'[q][j].hosts = repo'[j].hosts
                          /\ (Pooled(j)' /\ j \notin broken'
                                /\ \A q \in Requests : ~Rebuilding(q, j)')
                               => built'[pool'[j]].hosts = repo'[j].hosts
        BY DEF FreshInv
      <3>1. /\ \A q \in Requests : Rebuilding(q, j)' <=> Rebuilding(q, j)
            /\ Pending(j)' <=> Pending(j)
        BY <1>a, <1>17, PoolTypes DEF CloseCurrent, Rebuilding, Pending
      <3> QED
        BY <1>a, <1>17, <3>1 DEF FreshInv, Stored, Pooled, CloseCurrent
    <2>3. LiveInv'
      BY <1>a, <1>17, PoolTypes, RequestTypes
      DEF LiveInv, Stored, Pooled, HandleInv, BornInv, CloseCurrent
    <2> QED
      BY <2>1, <2>2, <2>3 DEF FollowInv
  <1>18. CASE Build(r)
    <2>1. TaskInv'
      BY <1>a, <1>18, PoolTypes, RequestTypes DEF TaskInv, Build
    <2>2. FreshInv'
      <3> SUFFICES ASSUME NEW j \in Ids, j \notin behind', Stored(j)', ~Pending(j)'
                   PROVE  /\ \A q \in Requests :
                               Rebuilding(q, j)' => copy'[q][j].hosts = repo'[j].hosts
                          /\ (Pooled(j)' /\ j \notin broken'
                                /\ \A q \in Requests : ~Rebuilding(q, j)')
                               => built'[pool'[j]].hosts = repo'[j].hosts
        BY DEF FreshInv
      <3>1. ~Pending(j)
        <4>1. \A q \in Requests \ {r} : at'[q] = at[q] /\ id'[q] = id[q] /\ task'[q] = task[q]
          BY <1>a, <1>18 DEF Build
        <4> QED
          BY <1>18, <4>1 DEF Build, Pending
      <3>2. \A q \in Requests : Rebuilding(q, j)' => q # r /\ Rebuilding(q, j) /\ copy'[q] = copy[q]
        BY <1>a, <1>18, PoolTypes, RequestTypes DEF Build, Rebuilding
      <3>3. Stored(j) /\ repo'[j] = repo[j] /\ j \notin behind
        BY <1>18 DEF Build, Stored
      <3>4. \A q \in Requests : Rebuilding(q, j) => copy[q][j].hosts = repo[j].hosts
        BY <1>a, <3>1, <3>3 DEF FreshInv
      <3>5. CASE j = id[r]
        <4>1. Rebuilding(r, j)
          BY <1>18, <3>5 DEF Build, Rebuilding
        <4>2. built'[pool'[j]] = [id |-> id[r], hosts |-> copy[r][id[r]].hosts]
          <5>1. pool'[j] = Len(built) + 1
            BY <1>a, <1>18, <3>5, PoolTypes DEF Build
          <5> QED
            BY <1>a, <1>18, <5>1, PoolTypes DEF Build
        <4> QED
          BY <3>2, <3>3, <3>4, <3>5, <4>1, <4>2
      <3>6. CASE j # id[r]
        <4>1. \A q \in Requests : Rebuilding(q, j)' <=> Rebuilding(q, j)
          BY <1>a, <1>18, <3>6, PoolTypes DEF Build, Rebuilding
        <4>2. pool'[j] = pool[j] /\ (j \in broken' <=> j \in broken)
          BY <1>a, <1>18, <3>6, PoolTypes DEF Build
        <4>3. Pooled(j) => built'[pool[j]] = built[pool[j]]
          BY <1>a, <1>18, PoolTypes DEF Build, Pooled
        <4> QED
          BY <1>a, <3>1, <3>2, <3>3, <3>4, <4>1, <4>2, <4>3 DEF FreshInv, Pooled
      <3> QED
        BY <3>5, <3>6
    <2>3. LiveInv'
      BY <1>a, <1>18, PoolTypes, RequestTypes
      DEF LiveInv, Stored, Pooled, HandleInv, BornInv, Build
    <2> QED
      BY <2>1, <2>2, <2>3 DEF FollowInv
  <1>19. CASE BuildFails(r)
    <2>1. TaskInv'
      BY <1>a, <1>19, PoolTypes, RequestTypes DEF TaskInv, BuildFails
    <2>2. FreshInv'
      <3> SUFFICES ASSUME NEW j \in Ids, j \notin behind', Stored(j)', ~Pending(j)'
                   PROVE  /\ \A q \in Requests :
                               Rebuilding(q, j)' => copy'[q][j].hosts = repo'[j].hosts
                          /\ (Pooled(j)' /\ j \notin broken'
                                /\ \A q \in Requests : ~Rebuilding(q, j)')
                               => built'[pool'[j]].hosts = repo'[j].hosts
        BY DEF FreshInv
      <3> QED
        BY <1>a, <1>19, PoolTypes, RequestTypes
        DEF FreshInv, Stored, Pooled, Pending, Rebuilding, HandleInv, BornInv, BuildFails
    <2>3. LiveInv'
      BY <1>a, <1>19, PoolTypes, RequestTypes
      DEF LiveInv, Stored, Pooled, HandleInv, BornInv, BuildFails
    <2> QED
      BY <2>1, <2>2, <2>3 DEF FollowInv
  <1>20. ASSUME NEW i \in Ids, Remove(r, i)
        PROVE  FollowInv'
    <2>1. TaskInv'
      BY <1>a, <1>20, PoolTypes, RequestTypes DEF TaskInv, Remove
    <2>2. FreshInv'
      <3> SUFFICES ASSUME NEW j \in Ids, j \notin behind', Stored(j)', ~Pending(j)'
                   PROVE  /\ \A q \in Requests :
                               Rebuilding(q, j)' => copy'[q][j].hosts = repo'[j].hosts
                          /\ (Pooled(j)' /\ j \notin broken'
                                /\ \A q \in Requests : ~Rebuilding(q, j)')
                               => built'[pool'[j]].hosts = repo'[j].hosts
        BY DEF FreshInv
      <3> QED
        BY <1>a, <1>20, PoolTypes, RequestTypes
        DEF FreshInv, Stored, Pooled, Pending, Rebuilding, HandleInv, BornInv, Remove
    <2>3. LiveInv'
      BY <1>a, <1>20, PoolTypes, RequestTypes
      DEF LiveInv, Stored, Pooled, HandleInv, BornInv, Remove
    <2> QED
      BY <2>1, <2>2, <2>3 DEF FollowInv
  <1>21. CASE PurgeStart(r)
    BY <1>a, <1>21, PoolTypes, RequestTypes, FollowFrame DEF PurgeStart, TaskInv, Stored
  <1>22. ASSUME NEW i \in Ids, PurgeNext(r, i)
        PROVE  FollowInv'
    BY <1>a, <1>22, PoolTypes, RequestTypes, FollowFrame DEF PurgeNext, TaskInv, Stored
  <1>23. CASE PurgeCheck(r)
    BY <1>a, <1>23, PoolTypes, RequestTypes, FollowFrame DEF PurgeCheck, TaskInv, Stored
  <1>27. CASE PurgeMiss(r)
    BY <1>a, <1>27, PoolTypes, RequestTypes, FollowFrame DEF PurgeMiss, TaskInv, Stored
  <1>24. CASE PurgeClose(r)
    <2>1. TaskInv'
      BY <1>a, <1>24, PoolTypes, RequestTypes DEF TaskInv, PurgeClose
    <2>2. FreshInv'
      <3> SUFFICES ASSUME NEW j \in Ids, j \notin behind', Stored(j)', ~Pending(j)'
                   PROVE  /\ \A q \in Requests :
                               Rebuilding(q, j)' => copy'[q][j].hosts = repo'[j].hosts
                          /\ (Pooled(j)' /\ j \notin broken'
                                /\ \A q \in Requests : ~Rebuilding(q, j)')
                               => built'[pool'[j]].hosts = repo'[j].hosts
        BY DEF FreshInv
      <3> QED
        BY <1>a, <1>24, PoolTypes, RequestTypes
        DEF FreshInv, Stored, Pooled, Pending, Rebuilding, HandleInv, BornInv, PurgeClose
    <2>3. LiveInv'
      BY <1>a, <1>24, PoolTypes, RequestTypes
      DEF LiveInv, Stored, Pooled, HandleInv, BornInv, PurgeClose
    <2> QED
      BY <2>1, <2>2, <2>3 DEF FollowInv
  <1>25. CASE PurgeDelete(r)
    <2>1. TaskInv'
      BY <1>a, <1>25, PoolTypes, RequestTypes DEF TaskInv, PurgeDelete
    <2>2. FreshInv'
      <3> SUFFICES ASSUME NEW j \in Ids, j \notin behind', Stored(j)', ~Pending(j)'
                   PROVE  /\ \A q \in Requests :
                               Rebuilding(q, j)' => copy'[q][j].hosts = repo'[j].hosts
                          /\ (Pooled(j)' /\ j \notin broken'
                                /\ \A q \in Requests : ~Rebuilding(q, j)')
                               => built'[pool'[j]].hosts = repo'[j].hosts
        BY DEF FreshInv
      <3> QED
        BY <1>a, <1>25, PoolTypes, RequestTypes
        DEF FreshInv, Stored, Pooled, Pending, Rebuilding, HandleInv, BornInv, PurgeDelete
    <2>3. LiveInv'
      BY <1>a, <1>25, PoolTypes, RequestTypes
      DEF LiveInv, Stored, Pooled, HandleInv, BornInv, PurgeDelete
    <2> QED
      BY <2>1, <2>2, <2>3 DEF FollowInv
  <1>26. CASE PurgeEnd(r)
    BY <1>a, <1>26, PoolTypes, RequestTypes, FollowFrame DEF PurgeEnd, TaskInv, Stored
  <1> QED
    BY <1>1, <1>2, <1>3, <1>4, <1>5, <1>6, <1>7, <1>8, <1>9, <1>10, <1>11, <1>12, <1>13, <1>14,
       <1>15, <1>16, <1>17, <1>18, <1>19, <1>20, <1>21, <1>22, <1>23, <1>24, <1>25, <1>26, <1>27
    DEF Start, Saves, Imports, Takes, Refreshes, Purges, Goes_On

\* A step of a request that is not purging, that removes nothing, and that opens
\* nothing, keeps DropInv.
LEMMA DropFrame ==
  ASSUME PoolInv, DropInv, NEW r \in Requests,
         UNCHANGED <<built, pool, late, misread>>, open' \subseteq open,
         \A i \in Ids : Stored(i) => Stored(i)',
         at[r] \notin {"purge", "range", "check", "drop", "delete"},
         at'[r] \notin {"range", "check", "drop", "delete"},
         at'[r] \in {"idle", "purge"} => seen'[r] = {},
         at'[r] \in {"close", "build"} => Rebuilding(r, id'[r]) \/ Stored(id'[r]),
         \A q \in Requests \ {r} :
           /\ at'[q] = at[q] /\ id'[q] = id[q] /\ handle'[q] = handle[q]
           /\ due'[q] = due[q] /\ seen'[q] = seen[q]
  PROVE  DropInv'
  <1> USE DEF Unsure
  <1>a. SeenInv /\ PurgeInv
    BY DEF DropInv
  <1>1. SeenInv'
    BY <1>a DEF SeenInv
  <1>2. PurgeInv'
    <2> SUFFICES ASSUME NEW i \in Ids \ Unsure, ~Stored(i)'
                 PROVE  /\ \A q \in Requests : ~Rebuilding(q, i)'
                        /\ \A n \in open' : built[n].id = i =>
                             /\ pool[i] = n
                             /\ \A q \in Requests : id'[q] = i =>
                                  at'[q] # "delete" /\ (at'[q] \in {"check", "drop"} => handle'[q] = n)
                             /\ \E q \in Requests : WillClose(q, i)'
      BY DEF PurgeInv
    <2>1. ~Stored(i)
      OBVIOUS
    <2>2. \A q \in Requests : ~Rebuilding(q, i)
      BY <1>a, <2>1 DEF PurgeInv
    <2>3. \A q \in Requests : ~Rebuilding(q, i)'
      BY <2>1, <2>2 DEF Rebuilding
    <2>4. ASSUME NEW n \in open', built[n].id = i
          PROVE  /\ pool[i] = n
                 /\ \A q \in Requests : id'[q] = i =>
                      at'[q] # "delete" /\ (at'[q] \in {"check", "drop"} => handle'[q] = n)
                 /\ \E q \in Requests : WillClose(q, i)'
      <3>1. /\ pool[i] = n
            /\ \A q \in Requests : id[q] = i =>
                 at[q] # "delete" /\ (at[q] \in {"check", "drop"} => handle[q] = n)
            /\ \E q \in Requests : WillClose(q, i)
        BY <1>a, <2>1, <2>4 DEF PurgeInv
      <3>2. \A q \in Requests : WillClose(q, i) => WillClose(q, i)'
        BY DEF WillClose
      <3> QED
        BY <3>1, <3>2
    <2> QED
      BY <2>3, <2>4
  <1> QED
    BY <1>1, <1>2 DEF DropInv

LEMMA StepKeepsDrop ==
  ASSUME PoolInv, DropInv, NEW r \in Requests, Start(r) \/ Takes(r) \/ Goes_On(r)
  PROVE  DropInv'
  <1> USE DEF HasId, repoVars, connVars, reqVars, Goes, About, Return, Unsure
  <1>a. TypeInv /\ HandleInv /\ BornInv /\ OpenIsPooled /\ SeenInv /\ PurgeInv
    BY DEF PoolInv, SafeInv, DropInv
  <1>1. ASSUME NEW i \in Ids, NEW h \in Hosts, SaveRead(r, i, h)
        PROVE  DropInv'
    BY <1>a, <1>1, PoolTypes, RequestTypes, PoolAssumption, DropFrame
    DEF SaveRead, Stored, Rebuilding, SeenInv, Docs
  <1>2. ASSUME NEW i \in Ids, NEW s \in SubLists, SubsRead(r, i, s)
        PROVE  DropInv'
    BY <1>a, <1>2, PoolTypes, RequestTypes, PoolAssumption, DropFrame
    DEF SubsRead, Stored, Rebuilding, SeenInv, Docs
  <1>3. ASSUME NEW i \in Ids, ImportRead(r, i)
        PROVE  DropInv'
    BY <1>a, <1>3, PoolTypes, RequestTypes, PoolAssumption, DropFrame
    DEF ImportRead, Stored, Rebuilding, SeenInv, Docs
  <1>4. ASSUME NEW i \in Ids, NEW h \in Hosts, ImportNext(r, i, h)
        PROVE  DropInv'
    BY <1>a, <1>4, PoolTypes, RequestTypes, PoolAssumption, DropFrame
    DEF ImportNext, Stored, Rebuilding, SeenInv, Docs
  <1>5. CASE ImportEnd(r)
    BY <1>a, <1>5, PoolTypes, RequestTypes, PoolAssumption, DropFrame
    DEF ImportEnd, Stored, Rebuilding, SeenInv, Docs
  <1>6. ASSUME NEW i \in Ids, NEW h \in Hosts, NEW s \in SubLists, Create(r, i, h, s)
        PROVE  DropInv'
    <2>1. \A j \in Ids : Stored(j) => Stored(j)'
      <3> SUFFICES ASSUME NEW j \in Ids, Stored(j)
                   PROVE  repo'[j] # None
        BY DEF Stored
      <3> QED
        BY <1>a, <1>6, PoolTypes, RequestTypes, PoolAssumption DEF Create, Insert, HasDoc, Docs,
           Stored
    <2> QED
      BY <1>a, <1>6, <2>1, PoolTypes, DropFrame DEF Create, Insert, Rebuilding, SeenInv
  <1>7. ASSUME NEW i \in Ids, NEW h \in Hosts, NEW s \in SubLists, ImportNew(r, i, h, s)
        PROVE  DropInv'
    <2>1. \A j \in Ids : Stored(j) => Stored(j)'
      <3> SUFFICES ASSUME NEW j \in Ids, Stored(j)
                   PROVE  repo'[j] # None
        BY DEF Stored
      <3> QED
        BY <1>a, <1>7, PoolTypes, RequestTypes, PoolAssumption DEF ImportNew, Insert, HasDoc,
           Docs, Stored
    <2> QED
      BY <1>a, <1>7, <2>1, PoolTypes, DropFrame DEF ImportNew, Insert, Rebuilding, SeenInv
  <1>8. CASE Write(r)
    <2>1. \A j \in Ids : Stored(j) => Stored(j)'
      <3> SUFFICES ASSUME NEW j \in Ids, Stored(j)
                   PROVE  repo'[j] # None
        BY DEF Stored
      <3> QED
        BY <1>a, <1>8, PoolTypes, RequestTypes, PoolAssumption DEF Write, HasDoc, Docs, Stored
    <2> QED
      BY <1>a, <1>8, <2>1, PoolTypes, DropFrame DEF Write, Rebuilding, SeenInv
  <1>9. CASE WriteFails(r)
    BY <1>a, <1>9, PoolTypes, RequestTypes, PoolAssumption, DropFrame
    DEF WriteFails, Stored, Rebuilding, SeenInv, Docs
  <1>10. CASE Reload(r)
    BY <1>a, <1>10, PoolTypes, RequestTypes, PoolAssumption, DropFrame
    DEF Reload, Stored, Rebuilding, SeenInv, Docs
  <1>11. CASE ReloadEnds(r)
    BY <1>a, <1>11, PoolTypes, RequestTypes, PoolAssumption, DropFrame
    DEF ReloadEnds, Stored, Rebuilding, SeenInv, Docs
  <1>12. ASSUME NEW i \in Ids, Get(r, i)
        PROVE  DropInv'
    BY <1>a, <1>12, PoolTypes, RequestTypes, PoolAssumption, DropFrame
    DEF Get, Stored, Rebuilding, SeenInv, Docs
  <1>13. CASE GetPooled(r)
    BY <1>a, <1>13, PoolTypes, RequestTypes, PoolAssumption, DropFrame
    DEF GetPooled, Stored, Rebuilding, SeenInv, Docs
  <1>14. CASE Lock(r)
    BY <1>a, <1>14, PoolTypes, RequestTypes, PoolAssumption, DropFrame
    DEF Lock, Stored, Rebuilding, SeenInv, Docs
  <1>15. CASE Load(r)
    BY <1>a, <1>15, PoolTypes, RequestTypes, PoolAssumption, DropFrame
    DEF Load, Stored, Rebuilding, SeenInv, Docs
  <1>16. CASE LoadFails(r)
    BY <1>a, <1>16, PoolTypes, RequestTypes, PoolAssumption, DropFrame
    DEF LoadFails, Stored, Rebuilding, SeenInv, Docs
  <1>17. CASE CloseCurrent(r)
    BY <1>a, <1>17, PoolTypes, RequestTypes, PoolAssumption, DropFrame
    DEF CloseCurrent, Stored, Rebuilding, SeenInv, Docs
  <1>18. CASE Build(r)
    <2>1. SeenInv'
      BY <1>a, <1>18, PoolTypes, RequestTypes DEF SeenInv, Build
    <2>2. ASSUME NEW j \in Ids \ Unsure', ~Stored(j)'
          PROVE  \A q \in Requests : ~Rebuilding(q, j)'
      BY <1>a, <1>18, <2>2, PoolTypes DEF PurgeInv, Rebuilding, Stored, Overtaken, Build
    <2>3. ASSUME NEW j \in Ids \ Unsure', ~Stored(j)', NEW n \in open', built'[n].id = j
          PROVE  /\ pool'[j] = n
                 /\ \A q \in Requests : id'[q] = j =>
                      at'[q] # "delete" /\ (at'[q] \in {"check", "drop"} => handle'[q] = n)
      <3>1. ~Stored(j) /\ j \notin Unsure /\ Rebuilding(r, id[r])
        BY <1>18, <2>3 DEF Build, Stored, Rebuilding
      <3>2. j # id[r]
        BY <1>a, <3>1 DEF PurgeInv
      <3>3. n \in open /\ built[n].id = j
        BY <1>a, <1>18, <2>3, <3>2, PoolTypes DEF Build
      <3>4. pool'[j] = pool[j]
        BY <1>a, <1>18, <3>2, PoolTypes DEF Build
      <3>5. \A q \in Requests : id'[q] = j => q # r \/ at'[q] = "idle"
        BY <1>a, <1>18, PoolTypes DEF Build
      <3> QED
        BY <1>a, <1>18, <3>1, <3>3, <3>4, <3>5, PoolTypes DEF PurgeInv, Build
    <2>4. ASSUME NEW j \in Ids \ Unsure', ~Stored(j)', NEW n \in open', built'[n].id = j
          PROVE  \E q \in Requests : WillClose(q, j)'
      <3>1. ~Stored(j) /\ j \notin Unsure /\ Rebuilding(r, id[r])
        BY <1>18, <2>4 DEF Build, Stored, Rebuilding
      <3>2. j # id[r]
        BY <1>a, <3>1 DEF PurgeInv
      <3>3. n \in open /\ built[n].id = j
        BY <1>a, <1>18, <2>4, <3>2, PoolTypes DEF Build
      <3>4. PICK q \in Requests : WillClose(q, j)
        BY <1>a, <3>1, <3>3 DEF PurgeInv
      <3>5. WillClose(q, j)'
        BY <1>a, <1>18, <3>4, PoolTypes DEF WillClose, Build
      <3> QED
        BY <3>5
    <2> QED
      BY <2>1, <2>2, <2>3, <2>4 DEF DropInv, PurgeInv
  <1>19. CASE BuildFails(r)
    BY <1>a, <1>19, PoolTypes, RequestTypes, PoolAssumption, DropFrame
    DEF BuildFails, Stored, Rebuilding, SeenInv, Docs
  <1>20. ASSUME NEW i \in Ids, Remove(r, i)
        PROVE  DropInv'
    <2>1. SeenInv'
      BY <1>a, <1>20, PoolTypes, RequestTypes DEF SeenInv, Remove
    <2>2. ASSUME NEW j \in Ids \ Unsure', ~Stored(j)'
          PROVE  \A q \in Requests : ~Rebuilding(q, j)'
      BY <1>a, <1>20, <2>2, PoolTypes DEF PurgeInv, Rebuilding, Stored, Overtaken, Remove
    <2>3. ASSUME NEW j \in Ids \ Unsure', ~Stored(j)', NEW n \in open', built'[n].id = j
          PROVE  /\ pool'[j] = n
                 /\ \A q \in Requests : id'[q] = j =>
                      at'[q] # "delete" /\ (at'[q] \in {"check", "drop"} => handle'[q] = n)
      BY <1>a, <1>20, <2>3, PoolTypes
      DEF PurgeInv, HandleInv, BornInv, OpenIsPooled, Stored, Pooled, Overtaken, Remove
    <2>4. ASSUME NEW j \in Ids \ Unsure', ~Stored(j)', NEW n \in open', built'[n].id = j
          PROVE  \E q \in Requests : WillClose(q, j)'
      BY <1>a, <1>20, <2>4, PoolTypes, RequestTypes
      DEF PurgeInv, OpenIsPooled, BornInv, SeenInv, WillClose, Stored, Pooled, Remove
    <2> QED
      BY <2>1, <2>2, <2>3, <2>4 DEF DropInv, PurgeInv
  <1>21. CASE PurgeStart(r)
    <2>1. SeenInv'
      BY <1>a, <1>21, PoolTypes, RequestTypes DEF SeenInv, PurgeStart
    <2>2. ASSUME NEW j \in Ids \ Unsure', ~Stored(j)'
          PROVE  \A q \in Requests : ~Rebuilding(q, j)'
      BY <1>a, <1>21, <2>2, PoolTypes DEF PurgeInv, Rebuilding, Stored, Overtaken, PurgeStart
    <2>3. ASSUME NEW j \in Ids \ Unsure', ~Stored(j)', NEW n \in open', built'[n].id = j
          PROVE  /\ pool'[j] = n
                 /\ \A q \in Requests : id'[q] = j =>
                      at'[q] # "delete" /\ (at'[q] \in {"check", "drop"} => handle'[q] = n)
      BY <1>a, <1>21, <2>3, PoolTypes
      DEF PurgeInv, HandleInv, BornInv, OpenIsPooled, Stored, Pooled, Overtaken, PurgeStart
    <2>4. ASSUME NEW j \in Ids \ Unsure', ~Stored(j)', NEW n \in open', built'[n].id = j
          PROVE  \E q \in Requests : WillClose(q, j)'
      <3>1. ~Stored(j) /\ j \notin Unsure /\ n \in open /\ built[n].id = j
        BY <1>21, <2>4 DEF PurgeStart, Stored
      <3>2. pool[j] = n /\ n # 0
        BY <1>a, <3>1, PoolTypes DEF PurgeInv
      <3>3. PICK q \in Requests : WillClose(q, j)
        BY <1>a, <3>1 DEF PurgeInv
      <3>4. WillClose(q, j)'
        <4>1. CASE q = r
          BY <1>a, <1>21, <3>2, <3>3, <4>1, PoolTypes, RequestTypes DEF SeenInv, WillClose,
             Pooled, PurgeStart
        <4>2. CASE q # r
          BY <1>a, <1>21, <3>3, <4>2, PoolTypes, RequestTypes DEF WillClose, PurgeStart
        <4> QED
          BY <4>1, <4>2
      <3> QED
        BY <3>4
    <2> QED
      BY <2>1, <2>2, <2>3, <2>4 DEF DropInv, PurgeInv
  <1>22. ASSUME NEW i \in Ids, PurgeNext(r, i)
        PROVE  DropInv'
    <2>1. SeenInv'
      BY <1>a, <1>22, PoolTypes, RequestTypes DEF SeenInv, PurgeNext
    <2>2. ASSUME NEW j \in Ids \ Unsure', ~Stored(j)'
          PROVE  \A q \in Requests : ~Rebuilding(q, j)'
      BY <1>a, <1>22, <2>2, PoolTypes DEF PurgeInv, Rebuilding, Stored, Overtaken, PurgeNext
    <2>3. ASSUME NEW j \in Ids \ Unsure', ~Stored(j)', NEW n \in open', built'[n].id = j
          PROVE  /\ pool'[j] = n
                 /\ \A q \in Requests : id'[q] = j =>
                      at'[q] # "delete" /\ (at'[q] \in {"check", "drop"} => handle'[q] = n)
      BY <1>a, <1>22, <2>3, PoolTypes
      DEF PurgeInv, HandleInv, BornInv, OpenIsPooled, Stored, Pooled, Overtaken, PurgeNext
    <2>4. ASSUME NEW j \in Ids \ Unsure', ~Stored(j)', NEW n \in open', built'[n].id = j
          PROVE  \E q \in Requests : WillClose(q, j)'
      BY <1>a, <1>22, <2>4, PoolTypes, RequestTypes
      DEF PurgeInv, OpenIsPooled, BornInv, SeenInv, WillClose, Stored, Pooled, PurgeNext
    <2> QED
      BY <2>1, <2>2, <2>3, <2>4 DEF DropInv, PurgeInv
  <1>23. CASE PurgeCheck(r)
    <2>1. SeenInv'
      BY <1>a, <1>23, PoolTypes, RequestTypes DEF SeenInv, PurgeCheck
    <2>2. ASSUME NEW j \in Ids \ Unsure', ~Stored(j)'
          PROVE  \A q \in Requests : ~Rebuilding(q, j)'
      BY <1>a, <1>23, <2>2, PoolTypes DEF PurgeInv, Rebuilding, Stored, Overtaken, PurgeCheck
    <2>3. ASSUME NEW j \in Ids \ Unsure', ~Stored(j)', NEW n \in open', built'[n].id = j
          PROVE  /\ pool'[j] = n
                 /\ \A q \in Requests : id'[q] = j =>
                      at'[q] # "delete" /\ (at'[q] \in {"check", "drop"} => handle'[q] = n)
      BY <1>a, <1>23, <2>3, PoolTypes
      DEF PurgeInv, HandleInv, BornInv, OpenIsPooled, Stored, Pooled, Overtaken, PurgeCheck
    <2>4. ASSUME NEW j \in Ids \ Unsure', ~Stored(j)', NEW n \in open', built'[n].id = j
          PROVE  \E q \in Requests : WillClose(q, j)'
      BY <1>a, <1>23, <2>4, PoolTypes, RequestTypes
      DEF PurgeInv, OpenIsPooled, BornInv, SeenInv, WillClose, Stored, Pooled, PurgeCheck
    <2> QED
      BY <2>1, <2>2, <2>3, <2>4 DEF DropInv, PurgeInv
  <1>27. CASE PurgeMiss(r)
    <2>1. SeenInv'
      BY <1>a, <1>27, PoolTypes, RequestTypes DEF SeenInv, PurgeMiss
    <2>2. ASSUME NEW j \in Ids \ Unsure', ~Stored(j)'
          PROVE  \A q \in Requests : ~Rebuilding(q, j)'
      BY <1>a, <1>27, <2>2, PoolTypes DEF PurgeInv, Rebuilding, Stored, Overtaken, PurgeMiss
    <2>3. ASSUME NEW j \in Ids \ Unsure', ~Stored(j)', NEW n \in open', built'[n].id = j
          PROVE  /\ pool'[j] = n
                 /\ \A q \in Requests : id'[q] = j =>
                      at'[q] # "delete" /\ (at'[q] \in {"check", "drop"} => handle'[q] = n)
      BY <1>a, <1>27, <2>3, PoolTypes
      DEF PurgeInv, HandleInv, BornInv, OpenIsPooled, Stored, Pooled, Overtaken, PurgeMiss
    <2>4. ASSUME NEW j \in Ids \ Unsure', ~Stored(j)', NEW n \in open', built'[n].id = j
          PROVE  \E q \in Requests : WillClose(q, j)'
      BY <1>a, <1>27, <2>4, PoolTypes, RequestTypes
      DEF PurgeInv, OpenIsPooled, BornInv, SeenInv, WillClose, Stored, Pooled, PurgeMiss
    <2> QED
      BY <2>1, <2>2, <2>3, <2>4 DEF DropInv, PurgeInv
  <1>24. CASE PurgeClose(r)
    <2>1. SeenInv'
      BY <1>a, <1>24, PoolTypes, RequestTypes DEF SeenInv, PurgeClose
    <2>2. ASSUME NEW j \in Ids \ Unsure', ~Stored(j)'
          PROVE  \A q \in Requests : ~Rebuilding(q, j)'
      BY <1>a, <1>24, <2>2, PoolTypes DEF PurgeInv, Rebuilding, Stored, Overtaken, PurgeClose
    <2>3. ASSUME NEW j \in Ids \ Unsure', ~Stored(j)', NEW n \in open', built'[n].id = j
          PROVE  /\ pool'[j] = n
                 /\ \A q \in Requests : id'[q] = j =>
                      at'[q] # "delete" /\ (at'[q] \in {"check", "drop"} => handle'[q] = n)
      BY <1>a, <1>24, <2>3, PoolTypes
      DEF PurgeInv, HandleInv, BornInv, OpenIsPooled, Stored, Pooled, Overtaken, PurgeClose
    <2>4. ASSUME NEW j \in Ids \ Unsure', ~Stored(j)', NEW n \in open', built'[n].id = j
          PROVE  \E q \in Requests : WillClose(q, j)'
      <3>1. ~Stored(j) /\ j \notin Unsure /\ n \in open /\ built[n].id = j
        BY <1>24, <2>4 DEF PurgeClose, Stored
      <3>2. pool[j] = n /\ n # 0
        BY <1>a, <3>1, PoolTypes DEF PurgeInv
      <3>3. PICK q \in Requests : WillClose(q, j)
        BY <1>a, <3>1 DEF PurgeInv
      <3>4. WillClose(q, j)'
        <4>1. CASE q = r
          <5>1. ~(id[r] = j)
            BY <1>a, <1>24, <2>4, <3>1, <3>2 DEF PurgeInv, PurgeClose
          <5> QED
            BY <1>a, <1>24, <3>3, <4>1, <5>1, PoolTypes DEF WillClose, PurgeClose
        <4>2. CASE q # r
          BY <1>a, <1>24, <3>3, <4>2, PoolTypes DEF WillClose, PurgeClose
        <4> QED
          BY <4>1, <4>2
      <3> QED
        BY <3>4
    <2> QED
      BY <2>1, <2>2, <2>3, <2>4 DEF DropInv, PurgeInv
  <1>25. CASE PurgeDelete(r)
    <2>1. SeenInv'
      BY <1>a, <1>25, PoolTypes, RequestTypes DEF SeenInv, PurgeDelete
    <2>2. ASSUME NEW j \in Ids \ Unsure', ~Stored(j)'
          PROVE  \A q \in Requests : ~Rebuilding(q, j)'
      BY <1>a, <1>25, <2>2, PoolTypes DEF PurgeInv, Rebuilding, Stored, Overtaken, PurgeDelete
    <2>3. ASSUME NEW j \in Ids \ Unsure', ~Stored(j)', NEW n \in open', built'[n].id = j
          PROVE  /\ pool'[j] = n
                 /\ \A q \in Requests : id'[q] = j =>
                      at'[q] # "delete" /\ (at'[q] \in {"check", "drop"} => handle'[q] = n)
      BY <1>a, <1>25, <2>3, PoolTypes
      DEF PurgeInv, HandleInv, BornInv, OpenIsPooled, Stored, Pooled, Overtaken, PurgeDelete
    <2>4. ASSUME NEW j \in Ids \ Unsure', ~Stored(j)', NEW n \in open', built'[n].id = j
          PROVE  \E q \in Requests : WillClose(q, j)'
      BY <1>a, <1>25, <2>4, PoolTypes, RequestTypes
      DEF PurgeInv, OpenIsPooled, BornInv, SeenInv, WillClose, Stored, Pooled, PurgeDelete
    <2> QED
      BY <2>1, <2>2, <2>3, <2>4 DEF DropInv, PurgeInv
  <1>26. CASE PurgeEnd(r)
    <2>1. SeenInv'
      BY <1>a, <1>26, PoolTypes, RequestTypes DEF SeenInv, PurgeEnd
    <2>2. ASSUME NEW j \in Ids \ Unsure', ~Stored(j)'
          PROVE  \A q \in Requests : ~Rebuilding(q, j)'
      BY <1>a, <1>26, <2>2, PoolTypes DEF PurgeInv, Rebuilding, Stored, Overtaken, PurgeEnd
    <2>3. ASSUME NEW j \in Ids \ Unsure', ~Stored(j)', NEW n \in open', built'[n].id = j
          PROVE  /\ pool'[j] = n
                 /\ \A q \in Requests : id'[q] = j =>
                      at'[q] # "delete" /\ (at'[q] \in {"check", "drop"} => handle'[q] = n)
      BY <1>a, <1>26, <2>3, PoolTypes
      DEF PurgeInv, HandleInv, BornInv, OpenIsPooled, Stored, Pooled, Overtaken, PurgeEnd
    <2>4. ASSUME NEW j \in Ids \ Unsure', ~Stored(j)', NEW n \in open', built'[n].id = j
          PROVE  \E q \in Requests : WillClose(q, j)'
      <3>1. ~Stored(j) /\ j \notin Unsure /\ n \in open /\ built[n].id = j
        BY <1>26, <2>4 DEF PurgeEnd, Stored
      <3>2. pool[j] = n /\ n # 0
        BY <1>a, <3>1, PoolTypes DEF PurgeInv
      <3>3. PICK q \in Requests : WillClose(q, j)
        BY <1>a, <3>1 DEF PurgeInv
      <3>4. WillClose(q, j)'
        <4>1. q # r
          BY <1>26, <3>2, <3>3 DEF WillClose, Pooled, PurgeEnd
        <4> QED
          BY <1>a, <1>26, <3>3, <4>1, PoolTypes, RequestTypes DEF WillClose, PurgeEnd
      <3> QED
        BY <3>4
    <2> QED
      BY <2>1, <2>2, <2>3, <2>4 DEF DropInv, PurgeInv
  <1> QED
    BY <1>1, <1>2, <1>3, <1>4, <1>5, <1>6, <1>7, <1>8, <1>9, <1>10, <1>11, <1>12, <1>13, <1>14,
       <1>15, <1>16, <1>17, <1>18, <1>19, <1>20, <1>21, <1>22, <1>23, <1>24, <1>25, <1>26, <1>27
    DEF Start, Saves, Imports, Takes, Refreshes, Purges, Goes_On

\* FollowInv and DropInv hold in every reachable state.
LEMMA FollowInvariant == ControlSpec => [](FollowInv /\ GetInv /\ DropInv)
  <1>1. Init => FollowInv /\ GetInv /\ DropInv
    BY DEF Init, FollowInv, TaskInv, FreshInv, LiveInv, GetInv, DropInv, SeenInv, PurgeInv, Stored,
       NoCopy,
           Rebuilding
  <1>2. PoolInv /\ FollowInv /\ GetInv /\ DropInv /\ [Next]_vars
          => (FollowInv /\ GetInv /\ DropInv)'
    <2> SUFFICES ASSUME PoolInv, FollowInv, GetInv, DropInv, [Next]_vars
                 PROVE  FollowInv' /\ GetInv' /\ DropInv'
      OBVIOUS
    <2>1. CASE Next
      BY <2>1, StepKeepsFollow, StepKeepsGet, StepKeepsDrop DEF Next
    <2>2. CASE UNCHANGED vars
      <3> USE DEF vars, repoVars, connVars, reqVars, Stored, Pooled, Rebuilding
      <3>1. FollowInv'
        BY <2>2 DEF FollowInv, TaskInv, FreshInv, LiveInv, Pending
      <3>2. DropInv'
        BY <2>2 DEF DropInv, SeenInv, PurgeInv, WillClose, Unsure
      <3>3. GetInv'
        BY <2>2 DEF GetInv
      <3> QED
        BY <3>1, <3>2, <3>3
    <2> QED
      BY <2>1, <2>2
  <1> QED
    BY <1>1, <1>2, PoolInvariant, PTL DEF ControlSpec

\* When the saves and gets of a stored connection have returned, the pooled one
\* is open and built from what is stored, whatever their interleaving with the
\* writes of imports, updates of subscriptions and deletions.
THEOREM PoolHasStored == Spec => []PoolFollowsRepo
  <1>1. PoolInv /\ FollowInv => PoolFollowsRepo
    <2> SUFFICES ASSUME PoolInv, FollowInv, NEW i \in Ids, Stored(i), Pooled(i),
                        i \notin behind \union broken, \A r \in Requests : ~Changing(r, i)
                 PROVE  pool[i] \in open /\ built[pool[i]] = [id |-> i, hosts |-> repo[i].hosts]
      BY DEF PoolFollowsRepo
    <2>a. TypeInv /\ HandleInv /\ TaskInv /\ FreshInv /\ LiveInv
      BY DEF PoolInv, SafeInv, FollowInv
    <2>1. ~Pending(i) /\ \A r \in Requests : ~Rebuilding(r, i)
      BY <2>a DEF TaskInv, Pending, Rebuilding, Changing
    <2>2. pool[i] \in open
      BY <2>a, <2>1 DEF LiveInv, Changing, Rebuilding
    <2>3. built[pool[i]].id = i /\ built[pool[i]].hosts = repo[i].hosts
      BY <2>a, <2>1 DEF HandleInv, FreshInv
    <2>4. built[pool[i]] \in [id : Ids, hosts : Hosts]
      BY <2>a, <2>2, PoolTypes, ElementOf
    <2> QED
      BY <2>2, <2>3, <2>4
  <1> QED
    BY <1>1, PoolInvariant, FollowInvariant, PTL DEF Spec

\* When every request has returned, nothing is open for a deleted connection,
\* but for those that the deletion could not wait for or a Purge could not read.
THEOREM DeletedStayClosed == Spec => []DeletedIsClosed
  <1>1. PoolInv /\ DropInv => DeletedIsClosed
    <2> SUFFICES ASSUME PoolInv, DropInv, \A r \in Requests : at[r] = "idle",
                        NEW n \in open, ~Stored(built[n].id), built[n].id \notin late \union misread
                 PROVE  FALSE
      BY DEF DeletedIsClosed
    <2>1. built[n].id \in Ids
      BY PoolTypes DEF PoolInv
    <2>2. \E r \in Requests : WillClose(r, built[n].id)
      BY <2>1 DEF DropInv, PurgeInv, Unsure
    <2> QED
      BY <2>2 DEF WillClose
  <1> QED
    BY <1>1, PoolInvariant, FollowInvariant, PTL DEF Spec
=============================================================================

------------------------------ MODULE ConnPool ------------------------------
(***************************************************************************)
(* The repository of connections, the pool of open NATS connections and    *)
(* the HTTP handlers that change them: HandleSaveConnection,               *)
(* HandleUpdateSubscriptions, the CLI import, HandleDeleteConnection, and  *)
(* the Get with which every other handler starts.  Requests run            *)
(* concurrently.  Get and Refresh hold the pool's mutex; Purge does not,   *)
(* and no lock spans the repository and the pool.                          *)
(*                                                                         *)
(* The repository is the document store of production (DocStoreConnRepo):  *)
(* a document is replaced only while it exists, and an id is never reused. *)
(* Reads and writes may fail at any time, a read also for a document that  *)
(* is stored (storage or unmarshal errors, docstore_repo.go:38,45).        *)
(***************************************************************************)
EXTENDS Naturals, Sequences, FiniteSets

CONSTANTS
  Requests,   \* the requests that are served at one time
  Ids,        \* connection ids
  Hosts,      \* what a connection is built from
  SubLists,   \* its saved subscriptions
  None,       \* no request, no connection, no document
  MaxBuilt    \* bound: connections built

ASSUME PoolAssumption ==
  /\ MaxBuilt \in Nat
  /\ None \notin Requests \union Ids \union Hosts
  /\ None \notin [hosts : Hosts, subs : SubLists]

VARIABLES
  repo,     \* the document of an id
  born,     \* the ids that were ever given out
  built,    \* the NatsConns ever built: [id, hosts]; a handle is an index
  open,     \* the handles not closed
  pool,     \* conns: the handle of an id, 0 for none
  lock,     \* the holder of the pool's mutex
  at,       \* where a request is
  task,     \* which handler it runs
  id,       \* the connection it is about
  copy,     \* the documents it has read or prepared
  seen,     \* Purge: ids ranged over; import: ids saved
  due,      \* Purge: the entries of conns when the range began
  handle,   \* Purge: the connection it looks at
  behind,   \* history: ids given other hosts without a Refresh
  broken,   \* history: ids whose last build failed
  late,     \* history: ids removed while a refresh or a Purge was on its way
  misread,  \* history: stored ids that a Purge could not read
  saved     \* history: the hosts last saved or imported for an id

repoVars == <<repo, born, saved>>
connVars == <<built, open, pool, broken>>
reqVars  == <<at, task, id, copy, seen, due, handle>>
vars == <<repoVars, connVars, lock, reqVars, behind, late, misread>>

-----------------------------------------------------------------------------
Docs == [hosts : Hosts, subs : SubLists]
Stored(i) == repo[i] # None
Pooled(i) == pool[i] # 0
NoCopy == [i \in Ids |-> None]

Init ==
  /\ repo   = NoCopy
  /\ born   = {}
  /\ built  = <<>>
  /\ open   = {}
  /\ pool   = [i \in Ids |-> 0]
  /\ lock   = None
  /\ at     = [r \in Requests |-> "idle"]
  /\ task   = [r \in Requests |-> "none"]
  /\ id     = [r \in Requests |-> None]
  /\ copy   = [r \in Requests |-> NoCopy]
  /\ seen   = [r \in Requests |-> {}]
  /\ due    = [r \in Requests |-> {}]
  /\ handle = [r \in Requests |-> 0]
  /\ behind = {} /\ broken = {} /\ late = {} /\ misread = {}
  /\ saved  = [i \in Ids |-> None]

\* A request starts or goes on at a place, about a connection.
Goes(r, place) == at' = [at EXCEPT ![r] = place]
About(r, name, i) ==
  /\ at[r] = "idle"
  /\ task' = [task EXCEPT ![r] = name]
  /\ id'   = [id EXCEPT ![r] = i]

\* A handler that returns forgets what it has read.
Return(r) ==
  /\ Goes(r, "idle")
  /\ task'   = [task EXCEPT ![r] = "none"]
  /\ id'     = [id EXCEPT ![r] = None]
  /\ copy'   = [copy EXCEPT ![r] = NoCopy]
  /\ seen'   = [seen EXCEPT ![r] = {}]
  /\ due'    = [due EXCEPT ![r] = {}]
  /\ handle' = [handle EXCEPT ![r] = 0]

-----------------------------------------------------------------------------
(* The handlers up to their write. *)

\* HandleSaveConnection of a known connection takes over its subscriptions.
SaveRead(r, i, h) ==
  /\ About(r, "save", i) /\ Stored(i)
  /\ copy' = [copy EXCEPT ![r][i] = [hosts |-> h, subs |-> repo[i].subs]]
  /\ Goes(r, "write")
  /\ UNCHANGED <<repoVars, connVars, lock, seen, due, handle, behind, late, misread>>

\* HandleUpdateSubscriptions changes the subscriptions of the whole document.
SubsRead(r, i, s) ==
  /\ About(r, "subs", i) /\ Stored(i)
  /\ copy' = [copy EXCEPT ![r][i] = [repo[i] EXCEPT !.subs = s]]
  /\ Goes(r, "write")
  /\ UNCHANGED <<repoVars, connVars, lock, seen, due, handle, behind, late, misread>>

\* The import reads every connection once and then saves context after context.
ImportRead(r, i) ==
  /\ About(r, "import", i)
  /\ copy' = [copy EXCEPT ![r] = repo]
  /\ Goes(r, "import")
  /\ UNCHANGED <<repoVars, connVars, lock, seen, due, handle, behind, late, misread>>

ImportNext(r, i, h) ==
  /\ at[r] = "import" /\ i \notin seen[r] /\ copy[r][i] # None
  /\ id'   = [id EXCEPT ![r] = i]
  /\ seen' = [seen EXCEPT ![r] = @ \union {i}]
  /\ copy' = [copy EXCEPT ![r][i] = [@ EXCEPT !.hosts = h]]
  /\ Goes(r, "write")
  /\ UNCHANGED <<repoVars, connVars, lock, task, due, handle, behind, late, misread>>

\* An import ends with its contexts, by its context or by an error.
ImportEnd(r) ==
  /\ at[r] = "import"
  /\ Return(r)
  /\ UNCHANGED <<repoVars, connVars, lock, behind, late, misread>>

-----------------------------------------------------------------------------
(* DocStoreConnRepo.Save. *)

\* InsertOne gives a new id.
Insert(i, h, s) ==
  /\ i \notin born
  /\ born'  = born \union {i}
  /\ repo'  = [repo EXCEPT ![i] = [hosts |-> h, subs |-> s]]
  /\ saved' = [saved EXCEPT ![i] = h]

Create(r, i, h, s) ==
  /\ About(r, "save", i)
  /\ Insert(i, h, s)
  /\ Goes(r, "lock")
  /\ UNCHANGED <<connVars, lock, copy, seen, due, handle, behind, late, misread>>

ImportNew(r, i, h, s) ==
  /\ at[r] = "import"
  /\ Insert(i, h, s)
  /\ UNCHANGED <<connVars, lock, reqVars, behind, late, misread>>

\* ReplaceById, and GetById of what was written.
Write(r) ==
  LET i == id[r]
      doc == copy[r][i]
  IN
  /\ at[r] = "write" /\ Stored(i)
  /\ repo'  = [repo EXCEPT ![i] = doc]
  /\ saved' = IF task[r] = "subs" THEN saved ELSE [saved EXCEPT ![i] = doc.hosts]
  /\ behind' = IF task[r] # "save" /\ doc.hosts # repo[i].hosts THEN behind \union {i} ELSE behind
  /\ Goes(r, "reload")
  /\ UNCHANGED <<born, connVars, lock, task, id, copy, seen, due, handle, late, misread>>

WriteFails(r) ==
  /\ at[r] = "write"
  /\ Return(r)
  /\ UNCHANGED <<repoVars, connVars, lock, behind, late, misread>>

Reload(r) ==
  /\ at[r] = "reload" /\ Stored(id[r]) /\ task[r] \in {"save", "import"}
  /\ Goes(r, IF task[r] = "save" THEN "lock" ELSE "import")
  /\ UNCHANGED <<repoVars, connVars, lock, task, id, copy, seen, due, handle, behind, late, misread>>

\* It ends the handler of the subscriptions; a failed read, every handler: the
\* one of a save then returns without a Refresh.
ReloadEnds(r) ==
  /\ at[r] = "reload"
  /\ behind' = IF task[r] = "save" THEN behind \union {id[r]} ELSE behind
  /\ Return(r)
  /\ UNCHANGED <<repoVars, connVars, lock, late, misread>>

-----------------------------------------------------------------------------
(* ConnPool.Get and ConnPool.Refresh. *)

Get(r, i) ==
  /\ About(r, "get", i)
  /\ Goes(r, "lock")
  /\ UNCHANGED <<repoVars, connVars, lock, copy, seen, due, handle, behind, late, misread>>

\* Mutant: Refresh, too, leaves a pooled connection as it is.
GetPooled_Refresh(r) ==
  /\ at[r] = "lock" /\ lock = None /\ Pooled(id[r])
  /\ Return(r)
  /\ UNCHANGED <<repoVars, connVars, lock, behind, late, misread>>

\* Get of a pooled connection returns it, whatever its state.
GetPooled(r) ==
  /\ at[r] = "lock" /\ lock = None /\ task[r] = "get" /\ Pooled(id[r])
  /\ Return(r)
  /\ UNCHANGED <<repoVars, connVars, lock, behind, late, misread>>

Lock(r) ==
  /\ at[r] = "lock" /\ lock = None /\ (task[r] = "save" \/ ~Pooled(id[r]))
  /\ lock' = r
  /\ Goes(r, "load")
  /\ UNCHANGED <<repoVars, connVars, task, id, copy, seen, due, handle, behind, late, misread>>

Load(r) ==
  /\ at[r] = "load" /\ Stored(id[r])
  /\ copy'   = [copy EXCEPT ![r][id[r]] = repo[id[r]]]
  /\ behind' = behind \ {id[r]}
  /\ Goes(r, "close")
  /\ UNCHANGED <<repoVars, connVars, lock, task, id, seen, due, handle, late, misread>>

LoadFails(r) ==
  /\ at[r] = "load"
  /\ behind' = IF task[r] = "save" THEN behind \union {id[r]} ELSE behind
  /\ lock' = None
  /\ Return(r)
  /\ UNCHANGED <<repoVars, connVars, late, misread>>

\* Mutant: the current connection is not closed.
CloseCurrent_Skipped(r) ==
  /\ at[r] = "close"
  /\ Goes(r, "build")
  /\ UNCHANGED <<repoVars, built, open, pool, broken, lock, task, id, copy, seen, due, handle,
                 behind, late, misread>>

CloseCurrent(r) ==
  /\ at[r] = "close"
  /\ open' = open \ {pool[id[r]]}
  /\ Goes(r, "build")
  /\ UNCHANGED <<repoVars, built, pool, broken, lock, task, id, copy, seen, due, handle,
                 behind, late, misread>>

Build(r) ==
  /\ at[r] = "build" /\ Len(built) < MaxBuilt
  /\ built'  = Append(built, [id |-> id[r], hosts |-> copy[r][id[r]].hosts])
  /\ open'   = open \union {Len(built) + 1}
  /\ pool'   = [pool EXCEPT ![id[r]] = Len(built) + 1]
  /\ broken' = broken \ {id[r]}
  /\ lock'   = None
  /\ Return(r)
  /\ UNCHANGED <<repoVars, behind, late, misread>>

\* Mutant: the error path keeps the mutex.
BuildFails_KeepsLock(r) ==
  /\ at[r] = "build"
  /\ broken' = broken \union {id[r]}
  /\ Return(r)
  /\ UNCHANGED <<repoVars, built, open, pool, lock, behind, late, misread>>

\* What is pooled is then the connection that CloseCurrent has closed.
BuildFails(r) ==
  /\ at[r] = "build"
  /\ broken' = broken \union {id[r]}
  /\ lock'   = None
  /\ Return(r)
  /\ UNCHANGED <<repoVars, built, open, pool, behind, late, misread>>

-----------------------------------------------------------------------------
(* HandleDeleteConnection and ConnPool.Purge, which takes no lock. *)

\* A refresh will build from a document it has loaded, or a Purge looks at a
\* connection that has been replaced: it will close that one and then delete the
\* entry of the other.
Overtaken(i) ==
  \E r \in Requests :
    /\ id[r] = i
    /\ \/ at[r] \in {"close", "build"}
       \/ at[r] = "check" /\ handle[r] # pool[i]

\* Deleting a missing document may be reported as done.
Remove(r, i) ==
  /\ About(r, "delete", i) /\ i \in born
  /\ repo' = [repo EXCEPT ![i] = None]
  /\ late' = IF Overtaken(i) THEN late \union {i} ELSE late
  /\ Goes(r, "purge")
  /\ UNCHANGED <<born, saved, connVars, lock, copy, seen, due, handle, behind, misread>>

PurgeStart(r) ==
  /\ at[r] = "purge"
  /\ due' = [due EXCEPT ![r] = {i \in Ids : Pooled(i)}]
  /\ Goes(r, "range")
  /\ UNCHANGED <<repoVars, connVars, lock, task, id, copy, seen, handle, behind, late, misread>>

PurgeNext(r, i) ==
  /\ at[r] = "range" /\ i \notin seen[r] /\ Pooled(i)
  /\ id'     = [id EXCEPT ![r] = i]
  /\ handle' = [handle EXCEPT ![r] = pool[i]]
  /\ seen'   = [seen EXCEPT ![r] = @ \union {i}]
  /\ Goes(r, "check")
  /\ UNCHANGED <<repoVars, connVars, lock, task, copy, due, behind, late, misread>>

\* Mutant: every connection is purged.
PurgeCheck_All(r) ==
  /\ at[r] = "check"
  /\ Goes(r, "drop")
  /\ UNCHANGED <<repoVars, connVars, lock, task, id, copy, seen, due, handle, behind, late, misread>>

\* The document is there and is read.
PurgeCheck(r) ==
  /\ at[r] = "check" /\ Stored(id[r])
  /\ Goes(r, "range")
  /\ UNCHANGED <<repoVars, connVars, lock, task, id, copy, seen, due, handle, behind, late, misread>>

\* Any error of GetById is taken for a missing document.
PurgeMiss(r) ==
  /\ at[r] = "check"
  /\ misread' = IF Stored(id[r]) THEN misread \union {id[r]} ELSE misread
  /\ Goes(r, "drop")
  /\ UNCHANGED <<repoVars, connVars, lock, task, id, copy, seen, due, handle, behind, late>>

\* Mutant: the connection is dropped without being closed.
PurgeClose_Skipped(r) ==
  /\ at[r] = "drop"
  /\ Goes(r, "delete")
  /\ UNCHANGED <<repoVars, connVars, lock, task, id, copy, seen, due, handle, behind, late, misread>>

PurgeClose(r) ==
  /\ at[r] = "drop"
  /\ open' = open \ {handle[r]}
  /\ Goes(r, "delete")
  /\ UNCHANGED <<repoVars, built, pool, broken, lock, task, id, copy, seen, due, handle,
                 behind, late, misread>>

PurgeDelete(r) ==
  /\ at[r] = "delete"
  /\ pool' = [pool EXCEPT ![id[r]] = 0]
  /\ Goes(r, "range")
  /\ UNCHANGED <<repoVars, built, open, broken, lock, task, id, copy, seen, due, handle,
                 behind, late, misread>>

\* Ranging over a map, Go visits every entry that stays; it may leave out one
\* that is added meanwhile.
PurgeEnd(r) ==
  /\ at[r] = "range"
  /\ \A i \in due[r] : Pooled(i) => i \in seen[r]
  /\ Return(r)
  /\ UNCHANGED <<repoVars, connVars, lock, behind, late, misread>>

-----------------------------------------------------------------------------
Start(r) ==
  \E i \in Ids :
    \/ Get(r, i) \/ Remove(r, i) \/ ImportRead(r, i)
    \/ \E h \in Hosts : SaveRead(r, i, h) \/ \E s \in SubLists : Create(r, i, h, s)
    \/ \E s \in SubLists : SubsRead(r, i, s)

Saves(r) == Write(r) \/ WriteFails(r) \/ Reload(r) \/ ReloadEnds(r)

Imports(r) ==
  \/ ImportEnd(r)
  \/ \E i \in Ids, h \in Hosts :
       ImportNext(r, i, h) \/ \E s \in SubLists : ImportNew(r, i, h, s)

Refreshes(r) == Load(r) \/ LoadFails(r) \/ CloseCurrent(r) \/ Build(r) \/ BuildFails(r)

Purges(r) ==
  \/ PurgeStart(r) \/ PurgeCheck(r) \/ PurgeMiss(r) \/ PurgeClose(r) \/ PurgeDelete(r) \/ PurgeEnd(r)
  \/ \E i \in Ids : PurgeNext(r, i)

Takes(r) == GetPooled(r) \/ Lock(r)
Goes_On(r) == Saves(r) \/ Imports(r) \/ Refreshes(r) \/ Purges(r)

Next == \E r \in Requests : Start(r) \/ Takes(r) \/ Goes_On(r)

(***************************************************************************)
(* Fairness: a request's goroutine runs, and sync.Mutex does not starve a  *)
(* goroutine that waits for it.                                            *)
(***************************************************************************)
Fairness == \A r \in Requests : WF_vars(Goes_On(r)) /\ SF_vars(Takes(r))

ControlSpec == Init /\ [][Next]_vars
Spec == ControlSpec /\ Fairness

-----------------------------------------------------------------------------
(* Properties. *)

Places == {"idle", "write", "import", "reload", "lock", "load", "close", "build",
           "purge", "range", "check", "drop", "delete"}
Refreshing(r) == at[r] \in {"load", "close", "build"}

\* The variables keep their types; the mutex is held by exactly the request that
\* is between Lock and the return of refreshLocked (pool.go:39-59).
TypeOK ==
  /\ repo \in [Ids -> Docs \union {None}]
  /\ born \subseteq Ids
  /\ built \in Seq([id : Ids, hosts : Hosts])
  /\ open \subseteq 1..Len(built)
  /\ pool \in [Ids -> 0..Len(built)]
  /\ lock \in Requests \union {None}
  /\ at \in [Requests -> Places]
  /\ task \in [Requests -> {"none", "save", "subs", "import", "get", "delete"}]
  /\ id \in [Requests -> Ids \union {None}]
  /\ copy \in [Requests -> [Ids -> Docs \union {None}]]
  /\ seen \in [Requests -> SUBSET Ids]
  /\ due \in [Requests -> SUBSET Ids]
  /\ handle \in [Requests -> 0..Len(built)]
  /\ behind \subseteq Ids /\ broken \subseteq Ids /\ late \subseteq Ids /\ misread \subseteq Ids
  /\ saved \in [Ids -> Hosts \union {None}]
  /\ \A r \in Requests : Refreshing(r) <=> lock = r

\* A stored connection has at most one open NATS connection, the pooled one, at
\* every moment: no interleaving of saves, gets and purges leaks one or opens two
\* (pool.go:61-84).  Excepted is a connection that a Purge could not read: it may
\* delete the entry of the one that has replaced the one it closed.
OpenIsPooled ==
  \A n \in open : Stored(built[n].id) => pool[built[n].id] = n \/ built[n].id \in misread

\* A request that may still change the pooled connection of an id.
Changing(r, i) ==
  /\ id[r] = i
  /\ \/ task[r] \in {"save", "get"} /\ at[r] \in {"reload", "lock", "load", "close", "build"}
     \/ at[r] \in {"drop", "delete"}

\* When the saves of a connection have returned, the pooled one is open and
\* built from what is stored, however the saves and gets interleaved
\* (connections.go:45-49, pool.go:70-84).  Excepted are the hosts that an import
\* or HandleUpdateSubscriptions wrote, which do not Refresh, and failed reads and
\* builds of a save.
PoolFollowsRepo ==
  \A i \in Ids :
    (/\ Stored(i) /\ Pooled(i) /\ i \notin behind \union broken
     /\ \A r \in Requests : ~Changing(r, i))
      => pool[i] \in open /\ built[pool[i]] = [id |-> i, hosts |-> repo[i].hosts]

\* While its document exists, the pooled connection of an id is closed or
\* replaced only by a refresh of that id or by a Purge that could not read its
\* document, which it takes for a missing one: deleting other connections
\* disturbs it by no other interleaving, though Purge takes no lock
\* (pool.go:61-68, docstore_repo.go:36-49).
OnlyRefreshReplaces ==
  [][\A i \in Ids :
       (Stored(i) /\ Stored(i)' /\ pool[i] \in open
          /\ ~(pool[i]' = pool[i] /\ pool[i] \in open'))
         => \E r \in Requests :
              /\ id[r] = i
              /\ lock = r \/ (i \in misread /\ at[r] \in {"drop", "delete"})]_vars

\* When every request has returned, nothing is open for a deleted connection,
\* except one whose refresh had loaded the document before it was removed, or
\* had replaced the connection a Purge was looking at or could not read
\* (connections.go:56-66, pool.go:61-84).
DeletedIsClosed ==
  (\A r \in Requests : at[r] = "idle")
    => \A n \in open : Stored(built[n].id) \/ built[n].id \in late \union misread

\* Every request returns: no error path keeps the mutex and the purge's range
\* ends (pool.go:39-68).
RequestsReturn == \A r \in Requests : at[r] # "idle" ~> at[r] = "idle"

\* src/frontend/docs/entities/connection/update.md:10-11 has an update store the
\* connection of the body: until the next save or import, the stored hosts are
\* those last saved.
SavedConfigStays == \A i \in Ids : Stored(i) => repo[i].hosts = saved[i]
=============================================================================

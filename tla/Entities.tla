------------------------------ MODULE Entities ------------------------------
(***************************************************************************)
(* A list card and the detail cards of its entities, for each kind of them *)
(* the browser has: streams, buckets, entries of a bucket, consumers and   *)
(* connections.  Every handler ends at an await; its request is answered   *)
(* later, while the user goes on, and other clients change the server.     *)
(* A value is the server's clock when it was written, 0 if there is none.  *)
(***************************************************************************)
EXTENDS Naturals, FiniteSets

CONSTANTS Kinds, Names,
          MaxClock,   \* bound: changes on the server
          MaxReqs,    \* bound: requests in flight
          MaxCards,   \* bound: open detail cards
          MayDetach,  \* bound: kinds whose detail is dragged away from its list
          InitSizes,  \* bound: how many entities the server has at first
          NoName

AllKinds == {"stream", "bucket", "kv", "consumer", "cnn"}
ASSUME EntityAssumption == /\ Kinds \subseteq AllKinds /\ MayDetach \subseteq Kinds
                           /\ NoName \notin Names
                           /\ MaxClock \in Nat \ {0} /\ MaxReqs \in Nat \ {0}
                           /\ MaxCards \in 1..2 /\ InitSizes \subseteq Nat

VARIABLES
  kind,
  server,   \* name -> value
  clock,
  cList,    \* [set, rows, select, asof]: the list card; asof is history
  card,     \* slot -> detail card; "linked" hangs on the list, "loose" on nothing
  reqs,     \* requests in flight
  ask,      \* [op, name, swapped]: the confirmation; swapped is history
  stale     \* history: names the list may be wrong about

entityVars == <<kind, server, clock, cList, card, reqs, ask, stale>>

Slots == {"linked", "loose"}
Values == 0..MaxClock
NameOrNone == Names \cup {NoName}
\* Of an entry alone: ttl, a TTL was typed and is still there; revs, its revisions are;
\* history, their dialog is open.
NoCard == [open |-> FALSE, edit |-> "read", name |-> NoName, draft |-> FALSE, ttl |-> FALSE,
           revs |-> FALSE, history |-> FALSE,
           busy |-> FALSE, json |-> FALSE, left |-> FALSE, asof |-> 0]
NoAsk == [op |-> "none", name |-> NoName, swapped |-> FALSE]

EntityTypeOK ==
  /\ kind \in Kinds /\ server \in [Names -> Values] /\ clock \in Values
  /\ cList \in [set: BOOLEAN, rows: [Names -> Values], select: NameOrNone, asof: Values]
  /\ \A s \in Slots :
       /\ card[s] \in [open: BOOLEAN, edit: {"read", "edit", "new"}, name: NameOrNone,
                       draft: BOOLEAN, ttl: BOOLEAN, revs: BOOLEAN, history: BOOLEAN,
                       busy: BOOLEAN, json: BOOLEAN, left: BOOLEAN, asof: Values]
       /\ card[s].open \/ card[s] = NoCard
  /\ Cardinality(reqs) <= MaxReqs /\ Cardinality({r.id : r \in reqs}) = Cardinality(reqs)
  /\ \A r \in reqs : r.op \in {"list", "get", "create", "save", "delete", "purge", "pause"}
  /\ ask.op \in {"none", "delete", "purge"} /\ stale \subseteq Names

\* The list card is new, or comes from a stored session with what it had selected.
EntityInit ==
  /\ kind \in Kinds
  /\ clock = 1 /\ server \in [Names -> {0, 1}]
  /\ Cardinality({n \in Names : server[n] = 1}) \in InitSizes
  /\ \E n \in {m \in Names : server[m] = 1} \cup {NoName} :
       /\ n # NoName => kind \notin {"consumer", "cnn"}
       /\ cList = [set |-> FALSE, rows |-> [m \in Names |-> 0], select |-> n, asof |-> 0]
       /\ card = [s \in Slots |-> IF s = "linked" /\ n # NoName
                                  THEN [NoCard EXCEPT !.open = TRUE, !.name = n, !.revs = (kind = "kv")]
                                  ELSE NoCard]
  /\ reqs = {} /\ ask = NoAsk /\ stale = {}

-----------------------------------------------------------------------------
(* Requests. *)

Request(R, op, slot, name, asked, swapped) ==
  [id |-> CHOOSE i \in 1..MaxReqs : \A r \in R : r.id # i, op |-> op, slot |-> slot,
   name |-> name, asked |-> asked, swapped |-> swapped, served |-> FALSE,
   rows |-> [n \in Names |-> 0], val |-> 0, asof |-> 0, old |-> {}]
Post(R, op, slot, name) == /\ Cardinality(R) < MaxReqs
                           /\ reqs' = R \cup {Request(R, op, slot, name, name, FALSE)}

Send(op, slot, name) == Post(reqs, op, slot, name)

\* Mutant: the request before stays.
SendManaged_Keeps(op, slot, name) == Send(op, slot, name)

\* manageAbort: the card's request before, if it is managed too, is aborted.
SendManaged(op, slot, name) ==
  Post({r \in reqs : ~(r.op = op /\ r.slot = slot)}, op, slot, name)

\* Connections' and buckets' details are asked for without it.
ListFetch == IF kind = "cnn" THEN Send("list", "list", NoName)
             ELSE SendManaged("list", "list", NoName)
StreamFetch(s) == kind = "stream" /\ SendManaged("get", s, card[s].name)
BucketFetch(s) == kind = "bucket" /\ Send("get", s, card[s].name)
KvFetch(s) == kind = "kv" /\ SendManaged("get", s, card[s].name)
ConsumerFetch(s) == kind = "consumer" /\ SendManaged("get", s, card[s].name)
Fetch(s) == StreamFetch(s) \/ BucketFetch(s) \/ KvFetch(s) \/ ConsumerFetch(s)

\* The server has changed a name: answers it has given before are out of date.
Change(n, v) == /\ clock < MaxClock /\ clock' = clock + 1
                /\ server' = [server EXCEPT ![n] = v]
Outdated(R, n) == {IF r.served THEN [r EXCEPT !.old = @ \cup {n}] ELSE r : r \in R}

Other(n) == \E v \in {0, clock + 1} :
  /\ server[n] # v /\ Change(n, v)
  /\ reqs' = Outdated(reqs, n) /\ stale' = stale \cup {n}
  /\ UNCHANGED <<kind, cList, card, ask>>

ServeRead(r) ==
  /\ r.op = "list" \/ (r.op = "get" /\ server[r.name] # 0)
  /\ reqs' = (reqs \ {r}) \cup {[r EXCEPT !.served = TRUE, !.asof = clock,
                                  !.rows = IF r.op = "list" THEN server ELSE @]}
  /\ UNCHANGED <<server, clock>>

\* A save of an entity that is gone fails, but for entries and connections; what
\* is there is not created again, but for entries.
ServeChange(r) ==
  /\ \/ r.op = "save" /\ (server[r.name] # 0 \/ kind \in {"kv", "cnn"}) /\ Change(r.name, clock + 1)
     \/ r.op = "create" /\ (server[r.name] = 0 \/ kind = "kv") /\ Change(r.name, clock + 1)
     \/ r.op = "pause" /\ server[r.name] # 0 /\ Change(r.name, clock + 1)
     \/ r.op = "delete" /\ Change(r.name, 0)
     \/ r.op = "purge" /\ Change(r.name, IF kind = "kv" THEN 0 ELSE clock + 1)
  /\ reqs' = Outdated(reqs \ {r}, r.name) \cup
               {[r EXCEPT !.served = TRUE, !.val = server'[r.name], !.asof = clock']}

Serve(r) == /\ ~r.served /\ (ServeRead(r) \/ ServeChange(r))
            /\ UNCHANGED <<kind, cList, card, ask, stale>>

\* The await throws, and nothing after it runs: a list that could not be fetched, or
\* was not told of a change, stays behind; a detail goes on showing what it has.
RequestFails(r) ==
  /\ reqs' = reqs \ {r}
  /\ card' = IF r.op = "get" THEN [card EXCEPT ![r.slot].left = TRUE] ELSE card
  /\ stale' = IF r.served /\ r.op \notin {"list", "get"} THEN stale \cup {r.name} ELSE stale
  /\ UNCHANGED <<kind, server, clock, cList, ask>>

-----------------------------------------------------------------------------
(* The list. *)

ListAnswer(r) ==
  /\ r.op = "list" /\ r.served /\ reqs' = reqs \ {r}
  /\ cList' = [cList EXCEPT !.set = TRUE, !.rows = r.rows, !.asof = r.asof]
  /\ stale' = r.old
  /\ UNCHANGED <<kind, server, clock, card, ask>>

\* An answer whose body is still being read when its request is aborted is null, and
\* is taken as such: the list, or the detail's draft, is gone until the next one comes.
Aborted(op, slot) == /\ kind \notin (IF op = "list" THEN {"cnn"} ELSE {"cnn", "bucket"})
                     /\ \E r \in reqs : r.op = op /\ r.slot = slot /\ r.served
AbortedList == {cList} \cup
  IF Aborted("list", "list") THEN {[cList EXCEPT !.set = FALSE, !.rows = [n \in Names |-> 0]]} ELSE {}

\* The view is mounted with no list, or the user reloads it.
ListMount == /\ ListFetch /\ cList' \in AbortedList
             /\ UNCHANGED <<kind, server, clock, card, ask, stale>>

\* What becomes of the requests of cards that close: reads are aborted or answered
\* in vain, the others run on.
Orphaned(slots) == {IF r.slot \in slots THEN [r EXCEPT !.slot = "gone"] ELSE r :
                      r \in {q \in reqs : ~(q.slot \in slots /\ q.op = "get")}}

HasPlace == card["loose"].open => MaxCards = 2
Link(view, select) ==
  /\ card' = [card EXCEPT !["linked"] = view]
  /\ cList' = [cList EXCEPT !.select = select]
  /\ reqs' = Orphaned({"linked"})

\* A click on a row opens its detail, or closes it when it is the selected one.
Select(n) ==
  /\ ask.op = "none" /\ cList.set /\ cList.rows[n] # 0
  /\ IF (IF kind = "cnn" THEN card["linked"].open /\ card["linked"].name = n ELSE cList.select = n)
     THEN Link(NoCard, NoName)
     ELSE HasPlace /\ Link([NoCard EXCEPT !.open = TRUE, !.name = n], n)
  /\ UNCHANGED <<kind, server, clock, ask, stale>>

Create == /\ ask.op = "none" /\ HasPlace
          /\ Link([NoCard EXCEPT !.open = TRUE, !.edit = "new", !.draft = TRUE], NoName)
          /\ UNCHANGED <<kind, server, clock, ask, stale>>

\* DELETE and PURGE are there while something is selected; a click asks to confirm.
AskConfirm(op, chosen) ==
  /\ ask.op = "none" /\ chosen # NoName
  /\ ask' = [op |-> op, name |-> chosen, swapped |-> FALSE]
  /\ UNCHANGED <<kind, server, clock, cList, card, reqs, stale>>
AskCancel == /\ ask.op # "none" /\ ask' = NoAsk
             /\ UNCHANGED <<kind, server, clock, cList, card, reqs, stale>>

SendConfirmed(R, name) ==
  /\ Cardinality(R) < MaxReqs
  /\ reqs' = R \cup {Request(R, ask.op, "list", name, ask.name, ask.swapped)}

\* Mutant: the selected row counts, not the one the alert was opened for.
ConfirmCnn_Select ==
  /\ kind = "cnn" /\ ask.op = "delete"
  /\ cList' = [cList EXCEPT !.select = NoName] /\ card' = [card EXCEPT !["linked"] = NoCard]
  /\ cList.select # NoName
  /\ SendConfirmed(Orphaned({"linked"}), cList.select)

\* The list of connections closes the linked card and deletes what was asked about;
\* the others ask their selection again once the user has confirmed.
ConfirmCnn ==
  /\ kind = "cnn" /\ ask.op = "delete"
  /\ cList' = [cList EXCEPT !.select = NoName] /\ card' = [card EXCEPT !["linked"] = NoCard]
  /\ SendConfirmed(Orphaned({"linked"}), ask.name)
ConfirmOthers ==
  /\ kind # "cnn" /\ ask.op # "none"
  /\ IF cList.select = NoName THEN UNCHANGED reqs ELSE SendConfirmed(reqs, cList.select)
  /\ UNCHANGED <<cList, card>>
Confirm == /\ ConfirmCnn \/ ConfirmOthers
           /\ ask' = NoAsk /\ UNCHANGED <<kind, server, clock, stale>>

\* The buttons of the lists, by kind.
Buttons == Create \/ AskConfirm("delete", cList.select) \/ AskCancel \/ Confirm
StreamList == kind = "stream" /\ (Buttons \/ AskConfirm("purge", cList.select))
BucketList == kind = "bucket" /\ (Buttons \/ AskConfirm("purge", cList.select))
KvList == kind = "kv" /\ (Buttons \/ AskConfirm("purge", cList.select))
ConsumerList == kind = "consumer" /\ Buttons
CnnList ==
  /\ kind = "cnn"
  /\ Create \/ AskConfirm("delete", card["linked"].name) \/ AskCancel \/ Confirm

\* The row goes (filter throws while the list is unset), and every detail card of
\* the kind is closed: findAll is given no name.
Deleted(r) ==
  /\ r.op = "delete" /\ r.served
  /\ IF ~cList.set THEN reqs' = reqs \ {r} /\ UNCHANGED <<cList, card, stale>>
     ELSE /\ cList' = [cList EXCEPT !.rows[r.name] = 0,
                         !.select = IF kind = "cnn" THEN @ ELSE NoName]
          /\ card' = IF kind = "cnn" THEN card ELSE [s \in Slots |-> NoCard]
          /\ stale' = IF r.name \in r.old THEN stale \cup {r.name} ELSE stale \ {r.name}
          /\ reqs' = (IF kind = "cnn" THEN reqs ELSE Orphaned(Slots)) \ {r}
  /\ UNCHANGED <<kind, server, clock, ask>>

\* A purged stream or bucket keeps the row it had; a purged entry loses its row, not
\* its card.
PurgedInPlace(r) ==
  /\ r.op = "purge" /\ r.served /\ reqs' = reqs \ {r} /\ stale' = stale \cup {r.name}
  /\ UNCHANGED <<kind, server, clock, cList, card, ask>>
PurgedEntry(r) ==
  /\ r.op = "purge" /\ r.served /\ reqs' = reqs \ {r}
  /\ IF cList.set
     THEN /\ cList' = [cList EXCEPT !.rows[r.name] = 0, !.select = NoName]
          /\ stale' = IF r.name \in r.old THEN stale \cup {r.name} ELSE stale \ {r.name}
     ELSE stale' = stale \cup {r.name} /\ UNCHANGED cList
  /\ UNCHANGED <<kind, server, clock, card, ask>>

\* The answers the lists take, by kind.
StreamListAnswers(r) == kind = "stream" /\ (ListAnswer(r) \/ Deleted(r) \/ PurgedInPlace(r))
BucketListAnswers(r) == kind = "bucket" /\ (ListAnswer(r) \/ Deleted(r) \/ PurgedInPlace(r))
KvListAnswers(r) == kind = "kv" /\ (ListAnswer(r) \/ Deleted(r) \/ PurgedEntry(r))
ConsumerListAnswers(r) == kind = "consumer" /\ (ListAnswer(r) \/ Deleted(r))
CnnListAnswers(r) == kind = "cnn" /\ (ListAnswer(r) \/ Deleted(r))

-----------------------------------------------------------------------------
(* The detail. *)

Set(s, new) == card' = [card EXCEPT ![s] = new]

\* fetchIfVoid of a view that is mounted; connections have nothing to ask for, and a
\* consumer's does so only when it has no consumer, with no name to ask for.
StreamView(s) == card[s].edit # "new" /\ StreamFetch(s)
BucketView(s) == card[s].edit # "new" /\ BucketFetch(s)
KvView(s) == card[s].edit # "new" /\ KvFetch(s)
Undrafted(c) == [c EXCEPT !.draft = FALSE, !.left = FALSE]
DetailMount(s) == /\ card[s].open
                  /\ StreamView(s) \/ BucketView(s) \/ KvView(s)
                  /\ \/ UNCHANGED card
                     \/ kind # "kv" /\ Aborted("get", s) /\ Set(s, Undrafted(card[s]))
                  /\ UNCHANGED <<kind, server, clock, cList, ask, stale>>

\* Mutant: the answer drops every draft.
GetAnswer_Drops(r) ==
  /\ r.op = "get" /\ r.served /\ reqs' = reqs \ {r}
  /\ Set(r.slot, [card[r.slot] EXCEPT !.asof = r.asof, !.draft = FALSE, !.ttl = FALSE,
                    !.revs = (kind = "kv"), !.left = FALSE])
  /\ UNCHANGED <<kind, server, clock, cList, ask, stale>>

\* The answer takes the place of what the card has, in every edit state: of a draft too,
\* except that an entry's is a text of its own.  Its TTL is not.
GetAnswer(r) ==
  /\ r.op = "get" /\ r.served /\ reqs' = reqs \ {r}
  /\ Set(r.slot, [card[r.slot] EXCEPT !.asof = r.asof, !.draft = @ /\ kind = "kv",
                    !.ttl = FALSE, !.revs = (kind = "kv"), !.left = @ /\ kind = "kv"])
  /\ UNCHANGED <<kind, server, clock, cList, ask, stale>>

\* A connection is cloned from its row; the others are edited in place.
Edit(s) == card[s].edit = "read" /\ Set(s, [card[s] EXCEPT !.edit = "edit"]) /\ UNCHANGED reqs

\* Some inputs of a stream and of a consumer stay open in READ.
Type(s) == /\ card[s].edit # "read" \/ kind \in {"stream", "consumer"}
           /\ Set(s, [card[s] EXCEPT !.draft = TRUE, !.left = @ \/ card[s].edit = "read"])
           /\ UNCHANGED reqs

\* restore: an entry's text and a connection's clone are dropped at once, the draft of
\* the others stays until the answer comes.
Cancel(s) ==
  /\ card[s].edit = "edit"
  /\ IF kind = "cnn" THEN UNCHANGED reqs ELSE Fetch(s)
  /\ LET read == [card[s] EXCEPT !.edit = "read", !.left = FALSE,
                    !.draft = @ /\ kind \notin {"kv", "cnn"}]
     IN  Set(s, read) \/ (Aborted("get", s) /\ Set(s, Undrafted(read)))

\* The TTL of an entry is typed into the entry, in a dialog that READ does not show.
TypeTtl(s) == card[s].edit # "read" /\ Set(s, [card[s] EXCEPT !.ttl = TRUE]) /\ UNCHANGED reqs

\* The dialog of the revisions is opened in READ, and EDIT does not close it: whatever
\* the edit state, a revision that is picked drops the text.  The arrows, in READ, go to
\* the revision before or after.
OpenHistory(s) == card[s].edit = "read" /\ Set(s, [card[s] EXCEPT !.history = TRUE]) /\ UNCHANGED reqs
CloseHistory(s) == card[s].history /\ Set(s, [card[s] EXCEPT !.history = FALSE]) /\ UNCHANGED reqs
PickRevision(s) == /\ card[s].revs /\ (card[s].history \/ card[s].edit = "read")
                   /\ Set(s, [card[s] EXCEPT !.draft = FALSE, !.history = FALSE])
                   /\ UNCHANGED reqs

\* A text that cannot be encoded is not saved.
SaveRefused(s) == card[s].edit # "read" /\ card[s].draft /\ UNCHANGED <<card, reqs>>

\* Nothing keeps a second click from a second request, but for connections.
Save(s) == /\ IF card[s].edit = "new" THEN \E n \in Names : Send("create", s, n)
              ELSE card[s].edit = "edit" /\ Send("save", s, card[s].name)
           /\ Set(s, [card[s] EXCEPT !.busy = (kind = "cnn")])

\* The JSON of the configuration, in a card below; APPLY works whatever the detail
\* has become in the meantime.
JsonConfig(s) == /\ card[s].edit # "read"
                 /\ Set(s, [card[s] EXCEPT !.json = ~@])
                 /\ UNCHANGED reqs
JsonApply(s) == /\ card[s].open /\ card[s].json
                /\ Set(s, [card[s] EXCEPT !.json = FALSE, !.draft = TRUE,
                                         !.left = @ \/ card[s].edit = "read"])
                /\ UNCHANGED <<kind, server, clock, cList, ask, stale, reqs>>

Pause(s) == card[s].edit = "read" /\ Send("pause", s, card[s].name) /\ UNCHANGED card

\* The cards a detail opens (messages, consumers, entries, the stream of a bucket)
\* take the place of the one below.
Child(s) == Set(s, [card[s] EXCEPT !.json = FALSE]) /\ UNCHANGED reqs

\* The buttons, by kind and edit state.
StreamActions(s) == kind = "stream" /\ (Edit(s) \/ Type(s) \/ Cancel(s) \/ Save(s) \/ JsonConfig(s) \/ Child(s))
BucketActions(s) == kind = "bucket" /\ (Edit(s) \/ Type(s) \/ Cancel(s) \/ Save(s) \/ JsonConfig(s) \/ Child(s))
KvActions(s) == /\ kind = "kv"
                /\ \/ Edit(s) \/ Type(s) \/ TypeTtl(s) \/ Cancel(s) \/ Save(s) \/ SaveRefused(s)
                   \/ OpenHistory(s) \/ CloseHistory(s) \/ PickRevision(s)
ConsumerActions(s) == kind = "consumer" /\ (Edit(s) \/ Type(s) \/ Cancel(s) \/ Save(s) \/ JsonConfig(s) \/ Pause(s))
CnnActions(s) == /\ kind = "cnn" /\ ~card[s].busy
                 /\ Edit(s) \/ Type(s) \/ Cancel(s) \/ Save(s) \/ Child(s)
Actions(s) == /\ card[s].open /\ UNCHANGED <<kind, server, clock, cList, ask, stale>>
              /\ \/ StreamActions(s) \/ BucketActions(s) \/ KvActions(s)
                 \/ ConsumerActions(s) \/ CnnActions(s)

\* What a save's answer does to the card that asked for it; an entry's joins its revisions.
Stored(r) == [card[r.slot] EXCEPT !.draft = FALSE, !.name = r.name, !.left = FALSE,
                !.revs = (kind = "kv")]
SetStored(r, new) == card' = IF r.slot = "gone" THEN card ELSE [card EXCEPT ![r.slot] = new]
SaveStale(r) == IF r.name \in r.old THEN stale \cup {r.name} ELSE stale \ {r.name}

\* update of the list throws while it is unset, and the card stays in its edit state;
\* a card that was closed may have lost its way to the list.
UpdateList(r) ==
  /\ cList' = [cList EXCEPT !.rows[r.name] = r.val, !.select = r.name]
  /\ stale' = SaveStale(r)
SavedInPlace(r) ==
  /\ reqs' = reqs \ {r}
  /\ \/ cList.set /\ UpdateList(r) /\ SetStored(r, [Stored(r) EXCEPT !.edit = "read"])
     \/ /\ ~cList.set \/ r.slot = "gone"
        /\ SetStored(r, Stored(r)) /\ UNCHANGED cList /\ stale' = stale \cup {r.name}

StreamSaved(r) == kind = "stream" /\ SavedInPlace(r)
BucketSaved(r) == kind = "bucket" /\ SavedInPlace(r)
ConsumerSaved(r) == kind = "consumer" /\ SavedInPlace(r)

\* An entry's list is fetched again.
KvSaved(r) ==
  /\ kind = "kv" /\ SetStored(r, [Stored(r) EXCEPT !.edit = "read"])
  /\ stale' = stale \cup {r.name}
  /\ \/ /\ cList' \in {[c EXCEPT !.select = r.name] : c \in AbortedList}
        /\ Post({q \in reqs \ {r} : q.op # "list"}, "list", "list", NoName)
     \/ r.slot = "gone" /\ reqs' = reqs \ {r} /\ UNCHANGED cList

\* A connection's row is updated; the card keeps the list it was linked to.
CnnSaved(r) ==
  /\ kind = "cnn" /\ reqs' = reqs \ {r}
  /\ IF ~cList.set THEN UNCHANGED <<cList, card>> /\ stale' = stale \cup {r.name}
     ELSE /\ SetStored(r, [Stored(r) EXCEPT !.edit = "read", !.busy = FALSE])
          /\ stale' = SaveStale(r)
          /\ \E sel \in IF r.slot = "linked" THEN {r.name}
                         ELSE IF r.slot = "gone" THEN {r.name, cList.select} ELSE {cList.select} :
               cList' = [cList EXCEPT !.rows[r.name] = r.val, !.select = sel]

Saved(r) ==
  /\ r.op \in {"create", "save"} /\ r.served
  /\ StreamSaved(r) \/ BucketSaved(r) \/ ConsumerSaved(r) \/ KvSaved(r) \/ CnnSaved(r)
  /\ ask' = [ask EXCEPT !.swapped = ask.op # "none" /\ (@ \/ cList'.select # cList.select)]
  /\ UNCHANGED <<kind, server, clock>>

\* updatePause shows the answer and leaves the list as it is.
Paused(r) ==
  /\ r.op = "pause" /\ r.served /\ reqs' = reqs \ {r}
  /\ SetStored(r, Stored(r)) /\ stale' = stale \cup {r.name}
  /\ UNCHANGED <<kind, server, clock, cList, ask>>

\* The user drags the linked card away from its list, or closes a card.
Detach == /\ kind \in MayDetach /\ card["linked"].open /\ ~card["loose"].open
          /\ card' = [card EXCEPT !["loose"] = card["linked"], !["linked"] = NoCard]
          /\ reqs' = {IF r.slot = "linked" THEN [r EXCEPT !.slot = "loose"] ELSE r : r \in reqs}
          /\ UNCHANGED <<kind, server, clock, cList, ask, stale>>
CloseCard(s) == /\ card[s].open /\ Set(s, NoCard) /\ reqs' = Orphaned({s})
                /\ UNCHANGED <<kind, server, clock, cList, ask, stale>>

ListNext == \/ ListMount \/ Detach \/ \E n \in Names : Select(n) \/ Other(n)
            \/ StreamList \/ BucketList \/ KvList \/ ConsumerList \/ CnnList
DetailNext == \E s \in Slots : DetailMount(s) \/ Actions(s) \/ JsonApply(s) \/ CloseCard(s)
AnswerNext == \E r \in reqs :
  \/ Serve(r) \/ RequestFails(r) \/ GetAnswer(r) \/ Saved(r) \/ Paused(r)
  \/ StreamListAnswers(r) \/ BucketListAnswers(r) \/ KvListAnswers(r)
  \/ ConsumerListAnswers(r) \/ CnnListAnswers(r)
EntityNext == ListNext \/ DetailNext \/ AnswerNext
EntitySpec == EntityInit /\ [][EntityNext]_entityVars

-----------------------------------------------------------------------------
(* Properties. *)

\* What the list shows of a name is what the server has, unless another client
\* changed it, the change is still on its way back, or the list was not told.
Changing(n) == \E r \in reqs : r.served /\ r.name = n /\ r.op \notin {"list", "get"}
ListFollows ==
  cList.set => \A n \in Names \ stale : Changing(n) \/ cList.rows[n] = server[n]

\* Answers of reads are taken in the order they were asked for: a list, or a detail
\* that is still the same, never goes back to what an earlier question was told.
InAskedOrder ==
  [][/\ kind # "cnn" => cList'.asof >= cList.asof
     /\ kind # "bucket" => \A s \in Slots :
          card'[s].asof >= card[s].asof \/ card'[s].asof = 0 \/ card'["loose"] = card["linked"]
    ]_entityVars

\* What is typed into an entry or a connection stays while it is edited, whatever answers
\* come meanwhile, but that a revision picked in a dialog left open drops the text.  The
\* TTL of an entry, which no answer carries, is lost to the answer of a get that was asked
\* before, and to nothing else.
Picked(s) == card[s].history /\ ~card'[s].history
Overwritten(s) == \E r \in reqs \ reqs' : r.op = "get" /\ r.slot = s /\ r.served
DraftKept ==
  [][\A s \in Slots :
       (/\ kind \in {"kv", "cnn"} /\ card[s].edit = "edit"
        /\ card'[s].open /\ card'[s].edit = "edit" /\ card'[s].name = card[s].name)
       => /\ card[s].draft => card'[s].draft \/ Picked(s)
          /\ card[s].ttl => card'[s].ttl \/ Overwritten(s)]_entityVars

\* A detail that is only read shows no draft, but for the time its cancel needs, a
\* cancel that failed, a JSON card applied too late, or an input that stayed open.
NoDraftInRead ==
  \A s \in Slots : card[s].edit = "read" /\ card[s].draft =>
    card[s].left \/ \E r \in reqs : r.op = "get" /\ r.slot = s

\* What is deleted or purged is what was selected when the user was asked, unless a
\* save that was answered meanwhile moved the selection.
DeletesWhatWasAsked ==
  \A r \in reqs : r.op \in {"delete", "purge"} => r.name = r.asked \/ r.swapped

\* The list, its detail cards and the alert tell of the same entities, whatever was
\* answered, selected or changed by others meanwhile.
EntityCardsSound == EntityTypeOK /\ ListFollows /\ NoDraftInRead /\ DeletesWhatWasAsked
=============================================================================

------------------------------ MODULE Requests ------------------------------
(***************************************************************************)
(* AjaxService.send and three cards that call it: the one that publishes a *)
(* message, the one that asks for a reply, and a card that fetches what it *)
(* shows.  send awaits twice, for the response and for its body; the card  *)
(* is told that loading is over between the two.                           *)
(***************************************************************************)
EXTENDS Naturals, FiniteSets

CONSTANTS MaxCalls   \* bound: calls of send

ASSUME RequestAssumption == MaxCalls \in Nat \ {0}

VARIABLES
  loading,   \* loadingState of each card
  ready,     \* cards that have a subject
  calls,     \* calls of send under way
  abort,     \* the call the view's AbortController is for, 0 before the first
  shown,     \* the call whose answer a card shows, 0 if none
  snack,     \* the last snackbar of a card
  open,      \* cards that are open
  asked,     \* how many calls there have been
  errors     \* history: calls of each card answered with an HTTP error

requestVars == <<loading, ready, calls, abort, shown, snack, open, asked, errors>>

AllCards == {"publish", "sync", "view"}
\* The request/reply card has a loadingState and nothing that sets it.
HasLoadingState == {"publish", "view"}

RequestTypeOK ==
  /\ loading \in [AllCards -> {"idle", "loading", "error"}] /\ ready \subseteq AllCards
  /\ calls \subseteq [n: 1..MaxCalls, card: AllCards, stage: {"fetch", "body"}, aborted: BOOLEAN]
  /\ shown \in [AllCards -> 0..asked] /\ open \subseteq AllCards /\ abort \in 0..asked
  /\ snack \in [AllCards -> {"none", "sent", "error"}]
  /\ \A r \in calls : r.aborted => r.card = "view" /\ (r.n # abort \/ r.card \notin open)

RequestInit ==
  /\ loading = [c \in AllCards |-> "idle"] /\ ready = {"view"} /\ calls = {} /\ abort = 0
  /\ shown = [c \in AllCards |-> 0] /\ snack = [c \in AllCards |-> "none"] /\ open = AllCards
  /\ asked = 0 /\ errors = [c \in AllCards |-> 0]

-----------------------------------------------------------------------------
(* send *)

SetLoading(c, s) == loading' = IF c \in HasLoadingState THEN [loading EXCEPT ![c] = s] ELSE loading
NewCall(c) == [n |-> asked + 1, card |-> c, stage |-> "fetch", aborted |-> FALSE]

\* Mutant: the call before goes on.
StartManaged_Both(c) ==
  /\ calls' = calls \cup {NewCall(c)} /\ abort' = asked + 1

\* manageAbort: the card's controller aborts the call before and is replaced.
StartManaged(c) ==
  /\ calls' = {[r EXCEPT !.aborted = @ \/ r.n = abort] : r \in calls} \cup {NewCall(c)}
  /\ abort' = asked + 1

\* SetLoading and fetch() are one step: nothing runs between them.
Call(c) ==
  /\ asked < MaxCalls /\ asked' = asked + 1 /\ SetLoading(c, "loading")
  /\ IF c = "view" THEN StartManaged(c) ELSE calls' = calls \cup {NewCall(c)} /\ UNCHANGED abort
  /\ UNCHANGED <<ready, shown, snack, open, errors>>

\* The response is there: finally ends the loading, the body is awaited.
Response(r) ==
  /\ r.stage = "fetch" /\ ~r.aborted
  /\ calls' = (calls \ {r}) \cup {[r EXCEPT !.stage = "body"]}
  /\ SetLoading(r.card, "idle")
  /\ UNCHANGED <<ready, abort, shown, snack, open, asked, errors>>

Tell(c, s) == snack' = IF c \in open THEN [snack EXCEPT ![c] = s] ELSE snack

\* No response: send throws, after it has told an error unless the call was aborted.
\* An aborted call ends the loading of the one that took its place, too.
FetchFails(r) ==
  /\ r.stage = "fetch" /\ calls' = calls \ {r}
  /\ SetLoading(r.card, "idle")
  /\ IF r.aborted THEN UNCHANGED snack ELSE Tell(r.card, "error")
  /\ UNCHANGED <<ready, abort, shown, open, asked, errors>>

\* A status of 400 or more throws as well.
HttpError(r) ==
  /\ r.stage = "body" /\ calls' = calls \ {r}
  /\ SetLoading(r.card, "error") /\ Tell(r.card, "error")
  /\ errors' = [errors EXCEPT ![r.card] = @ + 1]
  /\ UNCHANGED <<ready, abort, shown, open, asked>>

\* The answer, taken by the caller of send.
Done(r) ==
  /\ r.stage = "body" /\ ~r.aborted /\ calls' = calls \ {r}
  /\ shown' = IF r.card = "publish" THEN shown ELSE [shown EXCEPT ![r.card] = r.n]
  /\ IF r.card = "view" THEN UNCHANGED snack ELSE Tell(r.card, "sent")
  /\ UNCHANGED <<loading, ready, abort, open, asked, errors>>

\* A body that is no JSON, or is aborted, is null: the view takes it for its answer,
\* a publication for sent, and the reply's card says nothing at all.
NoBody(r) ==
  /\ r.stage = "body" /\ calls' = calls \ {r}
  /\ shown' = IF r.card = "view" THEN [shown EXCEPT !["view"] = 0] ELSE shown
  /\ IF r.card = "publish" THEN Tell(r.card, "sent") ELSE UNCHANGED snack
  /\ UNCHANGED <<loading, ready, abort, open, asked, errors>>

-----------------------------------------------------------------------------
(* The cards. *)

\* Mutant: a subject is enough.
CanEdit_Subject == "publish" \in ready

CanEdit == "publish" \in ready /\ loading["publish"] # "loading"
CanSend == "sync" \in ready /\ loading["sync"] # "loading"

Publish == "publish" \in open /\ CanEdit /\ Call("publish")
Sync == "sync" \in open /\ CanSend /\ Call("sync")
Load == "view" \in open /\ Call("view")

\* The text is no CBOR: a message, and no request.
BadPayload(c) ==
  /\ c \in open \ {"view"} /\ (c = "publish" => CanEdit) /\ (c = "sync" => CanSend)
  /\ Tell(c, "error")
  /\ UNCHANGED <<loading, ready, calls, abort, shown, open, asked, errors>>

\* The subject is typed, chosen in the dialog or cleared.
SetSubject(c) ==
  /\ c \in open \ {"view"} /\ ready' = IF c \in ready THEN ready \ {c} ELSE ready \cup {c}
  /\ UNCHANGED <<loading, calls, abort, shown, snack, open, asked, errors>>

\* A card that closes aborts the call it manages; the others go on without it.
Close(c) ==
  /\ c \in open /\ open' = open \ {c}
  /\ calls' = IF c = "view" THEN {[r EXCEPT !.aborted = @ \/ r.n = abort] : r \in calls} ELSE calls
  /\ UNCHANGED <<loading, ready, abort, shown, snack, asked, errors>>

Settle(r) == Response(r) \/ FetchFails(r) \/ HttpError(r) \/ Done(r) \/ NoBody(r)
RequestNext ==
  \/ \E r \in calls : Settle(r)
  \/ Publish \/ Sync \/ Load
  \/ \E c \in AllCards : BadPayload(c) \/ SetSubject(c) \/ Close(c)
RequestSpec == RequestInit /\ [][RequestNext]_requestVars

-----------------------------------------------------------------------------
(* Properties. *)

Fetching(c) == {r \in calls : r.card = c /\ r.stage = "fetch"}

\* A card that says it is loading waits for a response: nothing that ends a call, in
\* whatever order, leaves the button disabled for good.
LoadingHonest == \A c \in AllCards : loading[c] = "loading" => Fetching(c) # {}

\* A message is not published twice by an impatient click: while one publication waits
\* for its response there is no other, but for what the HTTP error of an earlier one lets
\* through (it arrives with the body, when the next may be under way).
PublishOnce == Cardinality(Fetching("publish")) <= 1 + errors["publish"]

\* The cards that send a request and wait for it keep to what their buttons and spinners
\* say (AjaxService/index.ts:85-158, messageSend/index.ts).
RequestsSound == RequestTypeOK /\ LoadingHonest /\ PublishOnce

\* A card that fetches, with its AbortController, its two awaits and its answers out of
\* order, implements a card that only ever shows the answer to its latest question.
Latest == INSTANCE LatestAnswer WITH newest <- abort, shown <- shown["view"]
ImplementsLatest == Latest!Spec
=============================================================================

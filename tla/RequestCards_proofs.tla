------------------------ MODULE RequestCards_proofs ------------------------
(***************************************************************************)
(* Proofs about the cards that wait for answers.  Requests: the browser's  *)
(* send and the cards that call it, for any number of calls.  Entities:    *)
(* list, details and alert tell of the same entities, answers are taken in *)
(* the order of their questions, and no draft of an entry or a connection  *)
(* is lost, for any names, requests in flight and changes on the server.   *)
(* EntityForms: what a form changes is what it shows and may change.       *)
(***************************************************************************)
EXTENDS Requests, Entities, EntityForms, Subsequences_proofs

-----------------------------------------------------------------------------
(* Requests: the types. *)

Typed == /\ RequestTypeOK
         /\ asked \in 0..MaxCalls
         /\ errors \in [AllCards -> Nat]

\* The controller is for a call of the view, and only the call it is for is not aborted.
OneController ==
  \A r \in calls : /\ r.n <= asked
                   /\ r.n = abort => r.card = "view"
                   /\ r.card = "view" /\ ~r.aborted => r.n = abort

TypeInv == Typed /\ OneController

THEOREM TypesHoldInitially == RequestInit => TypeInv
  BY RequestAssumption
  DEF RequestInit, TypeInv, Typed, OneController, RequestTypeOK, AllCards

LEMMA CallTypes ==
  ASSUME TypeInv, NEW r \in calls
  PROVE  /\ r \in [n: 1..MaxCalls, card: AllCards, stage: {"fetch", "body"}, aborted: BOOLEAN]
         /\ r.n \in 1..MaxCalls /\ r.card \in AllCards
         /\ r.stage \in {"fetch", "body"} /\ r.aborted \in BOOLEAN
         /\ r.n <= asked
  BY DEF TypeInv, Typed, OneController, RequestTypeOK

LEMMA CallKeepsTypes ==
  ASSUME TypeInv, NEW c \in AllCards, Call(c), c \in open
  PROVE  TypeInv'
  <1> DEFINE Rec == [n: 1..MaxCalls, card: AllCards, stage: {"fetch", "body"}, aborted: BOOLEAN]
  <1>a. /\ asked \in 0..MaxCalls /\ MaxCalls \in Nat /\ asked < MaxCalls /\ asked' = asked + 1
        /\ abort \in 0..asked /\ calls \subseteq Rec
    BY RequestAssumption DEF Call, TypeInv, Typed, RequestTypeOK
  <1>b. NewCall(c) \in Rec /\ NewCall(c).n = asked + 1 /\ NewCall(c).card = c /\ ~NewCall(c).aborted
    BY <1>a DEF NewCall
  <1>1. /\ calls' \subseteq Rec /\ abort' \in 0..asked'
        /\ OneController'
        /\ \A r \in calls' : r.aborted => r.card = "view" /\ (r.n # abort' \/ r.card \notin open')
    <2>1. CASE c = "view"
      <3>1. /\ calls' = {[r EXCEPT !.aborted = @ \/ r.n = abort] : r \in calls} \cup {NewCall(c)}
            /\ abort' = asked + 1 /\ open' = open
        BY <2>1 DEF Call, StartManaged
      <3>2. ASSUME NEW q \in calls'
            PROVE  /\ q \in Rec /\ q.n <= asked + 1
                   /\ q.n = asked + 1 => q.card = "view"
                   /\ q.card = "view" /\ ~q.aborted => q.n = asked + 1
                   /\ q.aborted => q.card = "view" /\ q.n # asked + 1
        <4>1. CASE q = NewCall(c)
          BY <4>1, <1>a, <1>b, <2>1
        <4>2. CASE \E r \in calls : q = [r EXCEPT !.aborted = @ \/ r.n = abort]
          <5>1. PICK r \in calls : q = [r EXCEPT !.aborted = @ \/ r.n = abort]
            BY <4>2
          <5>2. /\ r \in Rec /\ r.n <= asked
                /\ r.n = abort => r.card = "view"
                /\ r.card = "view" /\ ~r.aborted => r.n = abort
                /\ r.aborted => r.card = "view"
            BY DEF TypeInv, Typed, RequestTypeOK, OneController
          <5>3. /\ q \in Rec /\ q.n = r.n /\ q.card = r.card
                /\ q.aborted = (r.aborted \/ r.n = abort)
            BY <5>1, <5>2
          <5> QED BY <5>2, <5>3, <1>a
        <4> QED BY <3>1, <4>1, <4>2
      <3> QED BY <3>1, <3>2, <1>a DEF OneController
    <2>2. CASE c # "view"
      <3>1. calls' = calls \cup {NewCall(c)} /\ abort' = abort /\ open' = open
        BY <2>2 DEF Call
      <3>2. \A r \in calls : /\ r.n <= asked' /\ (r.n = abort => r.card = "view")
                             /\ (r.card = "view" /\ ~r.aborted => r.n = abort)
                             /\ (r.aborted => r.card = "view" /\ (r.n # abort \/ r.card \notin open))
        BY <1>a, CallTypes DEF TypeInv, Typed, RequestTypeOK, OneController
      <3> QED BY <1>a, <1>b, <2>2, <3>1, <3>2 DEF OneController
    <2> QED BY <2>1, <2>2
  <1>2. /\ loading' \in [AllCards -> {"idle", "loading", "error"}] /\ ready' \subseteq AllCards
        /\ shown' \in [AllCards -> 0..asked'] /\ open' \subseteq AllCards
        /\ snack' \in [AllCards -> {"none", "sent", "error"}]
        /\ errors' \in [AllCards -> Nat]
    BY <1>a DEF Call, SetLoading, TypeInv, Typed, RequestTypeOK
  <1> QED BY <1>1, <1>2, <1>a DEF TypeInv, Typed, RequestTypeOK

LEMMA SettleKeepsTypes ==
  ASSUME TypeInv, NEW r \in calls, Settle(r)
  PROVE  TypeInv'
  <1> DEFINE Rec == [n: 1..MaxCalls, card: AllCards, stage: {"fetch", "body"}, aborted: BOOLEAN]
  <1>a. /\ r \in Rec /\ r.n \in 1..MaxCalls /\ r.card \in AllCards /\ r.n <= asked
        /\ asked \in 0..MaxCalls /\ MaxCalls \in Nat
    BY CallTypes, RequestAssumption DEF TypeInv, Typed
  <1>1. /\ UNCHANGED <<ready, abort, open, asked>>
        /\ \A q \in calls' : \/ q \in calls
                             \/ q = [r EXCEPT !.stage = "body"] /\ ~r.aborted
    BY DEF Settle, Response, FetchFails, HttpError, Done, NoBody
  <1>2. \A q \in calls' : /\ q \in Rec /\ q.n <= asked
                          /\ q.n = abort => q.card = "view"
                          /\ q.card = "view" /\ ~q.aborted => q.n = abort
                          /\ q.aborted => q.card = "view" /\ (q.n # abort \/ q.card \notin open)
    <2>1. ASSUME NEW q \in calls
          PROVE  /\ q \in Rec /\ q.n <= asked
                 /\ q.n = abort => q.card = "view"
                 /\ q.card = "view" /\ ~q.aborted => q.n = abort
                 /\ q.aborted => q.card = "view" /\ (q.n # abort \/ q.card \notin open)
      BY DEF TypeInv, Typed, RequestTypeOK, OneController
    <2>2. ASSUME NEW q, q = [r EXCEPT !.stage = "body"], ~r.aborted
          PROVE  q \in Rec /\ q.n = r.n /\ q.card = r.card /\ q.aborted = r.aborted
      BY <1>a, <2>2
    <2>3. /\ r.n = abort => r.card = "view"
          /\ r.card = "view" /\ ~r.aborted => r.n = abort
      BY <2>1
    <2> QED BY <1>1, <1>a, <2>1, <2>2, <2>3
  <1>3. /\ loading' \in [AllCards -> {"idle", "loading", "error"}]
        /\ snack' \in [AllCards -> {"none", "sent", "error"}]
    BY <1>a DEF Settle, Response, FetchFails, HttpError, Done, NoBody, SetLoading, Tell,
                TypeInv, Typed, RequestTypeOK
  <1>4. shown' \in [AllCards -> 0..asked] /\ errors' \in [AllCards -> Nat]
    <2>1. r.n \in 0..asked /\ 0 \in 0..asked
      BY <1>a
    <2>2. shown \in [AllCards -> 0..asked] /\ errors \in [AllCards -> Nat]
      BY DEF TypeInv, Typed, RequestTypeOK
    <2> QED BY <1>a, <2>1, <2>2 DEF Settle, Response, FetchFails, HttpError, Done, NoBody
  <1> QED BY <1>1, <1>2, <1>3, <1>4, <1>a DEF TypeInv, Typed, RequestTypeOK, OneController

LEMMA UserKeepsTypes ==
  ASSUME TypeInv, NEW c \in AllCards, BadPayload(c) \/ SetSubject(c) \/ Close(c)
  PROVE  TypeInv'
  <1>1. CASE BadPayload(c)
    BY <1>1 DEF BadPayload, Tell, TypeInv, Typed, RequestTypeOK, OneController
  <1>2. CASE SetSubject(c)
    BY <1>2 DEF SetSubject, TypeInv, Typed, RequestTypeOK, OneController
  <1>3. CASE Close(c) /\ c # "view"
    BY <1>3 DEF Close, TypeInv, Typed, RequestTypeOK, OneController
  <1>4. CASE Close(c) /\ c = "view"
    <2> DEFINE Rec == [n: 1..MaxCalls, card: AllCards, stage: {"fetch", "body"}, aborted: BOOLEAN]
    <2>1. /\ calls' = {[r EXCEPT !.aborted = @ \/ r.n = abort] : r \in calls}
          /\ open' = open \ {"view"} /\ UNCHANGED <<loading, ready, abort, shown, snack, asked, errors>>
      BY <1>4 DEF Close
    <2>2. ASSUME NEW q \in calls'
          PROVE  /\ q \in Rec /\ q.n <= asked
                 /\ q.n = abort => q.card = "view"
                 /\ q.card = "view" /\ ~q.aborted => q.n = abort
                 /\ q.aborted => q.card = "view"
      <3>1. PICK r \in calls : q = [r EXCEPT !.aborted = @ \/ r.n = abort]
        BY <2>1
      <3>2. /\ r \in Rec /\ r.n <= asked
            /\ r.n = abort => r.card = "view"
            /\ r.card = "view" /\ ~r.aborted => r.n = abort
            /\ r.aborted => r.card = "view"
        BY DEF TypeInv, Typed, RequestTypeOK, OneController
      <3>3. /\ q \in Rec /\ q.n = r.n /\ q.card = r.card
            /\ q.aborted = (r.aborted \/ r.n = abort)
        BY <3>1, <3>2
      <3> QED BY <3>2, <3>3
    <2> QED BY <2>1, <2>2 DEF TypeInv, Typed, RequestTypeOK, OneController
  <1> QED BY <1>1, <1>2, <1>3, <1>4

\* The steps of the specification by the lemma that deals with them.
LEMMA StepCases ==
  ASSUME RequestNext
  PROVE  \/ \E r \in calls : Settle(r)
         \/ Publish \/ Sync \/ Load
         \/ \E c \in AllCards : BadPayload(c) \/ SetSubject(c) \/ Close(c)
  BY DEF RequestNext

LEMMA StepKeepsTypes == TypeInv /\ [RequestNext]_requestVars => TypeInv'
  <1> SUFFICES ASSUME TypeInv, [RequestNext]_requestVars PROVE TypeInv'
    OBVIOUS
  <1>1. CASE UNCHANGED requestVars
    BY <1>1 DEF requestVars, TypeInv, Typed, RequestTypeOK, OneController
  <1>2. CASE Publish \/ Sync \/ Load
    BY <1>2, CallKeepsTypes DEF Publish, Sync, Load, AllCards
  <1> QED BY <1>1, <1>2, StepCases, SettleKeepsTypes, UserKeepsTypes

\* The variables keep their types whatever the number of calls, and an AbortController
\* never aborts a call of another card.
THEOREM RequestTypes == RequestSpec => []RequestTypeOK
  <1>1. TypeInv => RequestTypeOK
    BY DEF TypeInv, Typed
  <1> QED BY <1>1, TypesHoldInitially, StepKeepsTypes, PTL DEF RequestSpec

-----------------------------------------------------------------------------
(* Loading, and publishing once. *)

Waiting == Fetching("publish")

\* A publication that waits is the one the button is disabled for, or one that an HTTP
\* error has let through: an error takes "loading" away under a later publication.
LoadingInv ==
  /\ loading["sync"] # "loading"
  /\ LoadingHonest
  /\ IsFiniteSet(Waiting)
  /\ Cardinality(Waiting) <= errors["publish"] + (IF loading["publish"] = "loading" THEN 1 ELSE 0)

ReqInv == TypeInv /\ LoadingInv

LEMMA InitLoading == RequestInit => LoadingInv
  <1>1. RequestInit => Waiting = {} /\ errors["publish"] = 0 /\ \A c \in AllCards : loading[c] = "idle"
    BY DEF RequestInit, Waiting, Fetching, AllCards
  <1> QED BY <1>1, FS_EmptySet DEF LoadingInv, LoadingHonest, AllCards

\* Aborting the call of the controller leaves the calls that wait where they are, and the
\* publications untouched.
Abort(r) == [r EXCEPT !.aborted = @ \/ r.n = abort]

LEMMA AbortKeepsWaiting ==
  ASSUME TypeInv, NEW S, S = {Abort(r) : r \in calls}
  PROVE  /\ \A q \in S : q.card = "publish" => q \in calls
         /\ \A r \in calls : r.card = "publish" => r \in S
         /\ \A r \in calls : \E q \in S : q.card = r.card /\ q.stage = r.stage
  <1>1. ASSUME NEW r \in calls
        PROVE  /\ Abort(r) \in S /\ Abort(r).card = r.card /\ Abort(r).stage = r.stage
               /\ r.card = "publish" => Abort(r) = r
    <2>1. r.card = "publish" => (r.aborted \/ r.n = abort) = r.aborted
      BY CallTypes DEF TypeInv, OneController
    <2> QED BY <2>1, CallTypes DEF Abort
  <1>2. ASSUME NEW q \in S, q.card = "publish" PROVE q \in calls
    <2>1. PICK r \in calls : q = Abort(r)
      OBVIOUS
    <2> QED BY <1>1, <1>2, <2>1
  <1>3. \A r \in calls : r.card = "publish" => r \in S
    BY <1>1
  <1>4. \A r \in calls : \E q \in S : q.card = r.card /\ q.stage = r.stage
    BY <1>1
  <1> QED BY <1>2, <1>3, <1>4

\* What the steps do to the calls that wait for a response.
LEMMA CallWaits ==
  ASSUME TypeInv, NEW c \in AllCards, Call(c)
  PROVE  /\ Fetching(c)' # {}
         /\ \A d \in AllCards : Fetching(d) # {} => Fetching(d)' # {}
         /\ c # "publish" => Waiting' = Waiting
         /\ c = "publish" => Waiting' = Waiting \cup {NewCall(c)} /\ NewCall(c) \notin Waiting
  <1>1. /\ NewCall(c).card = c /\ NewCall(c).stage = "fetch" /\ NewCall(c).n = asked + 1
        /\ NewCall(c) \in calls'
    BY DEF NewCall, Call, StartManaged
  <1>2. CASE c # "view"
    <2>1. calls' = calls \cup {NewCall(c)}
      BY <1>2 DEF Call
    <2>2. NewCall(c) \notin calls
      BY <1>1, CallTypes DEF TypeInv, Typed
    <2> QED BY <1>1, <2>1, <2>2 DEF Fetching, Waiting
  <1>3. CASE c = "view"
    <2>1. calls' = {[r EXCEPT !.aborted = @ \/ r.n = abort] : r \in calls} \cup {NewCall(c)}
      BY <1>3 DEF Call, StartManaged
    <2>2. PICK S : S = {Abort(r) : r \in calls}
      OBVIOUS
    <2>0. calls' = S \cup {NewCall(c)}
      BY <2>1, <2>2 DEF Abort
    <2>3. Waiting' = Waiting
      BY <1>1, <1>3, <2>0, <2>2, AbortKeepsWaiting DEF Waiting, Fetching
    <2>4. \A d \in AllCards : Fetching(d) # {} => Fetching(d)' # {}
      <3> SUFFICES ASSUME NEW d \in AllCards, NEW r \in Fetching(d) PROVE Fetching(d)' # {}
        OBVIOUS
      <3>1. r \in calls /\ r.card = d /\ r.stage = "fetch"
        BY DEF Fetching
      <3>2. PICK q \in S : q.card = r.card /\ q.stage = r.stage
        BY <2>2, <3>1, AbortKeepsWaiting
      <3>3. q \in Fetching(d)'
        BY <2>0, <3>1, <3>2 DEF Fetching
      <3> QED BY <3>3
    <2> QED BY <1>1, <1>3, <2>3, <2>4 DEF Fetching
  <1> QED BY <1>2, <1>3

LEMMA CallKeepsLoading ==
  ASSUME ReqInv, NEW c \in AllCards, Call(c), c = "publish" => loading["publish"] # "loading"
  PROVE  LoadingInv'
  <1> USE DEF ReqInv
  <1>1. /\ c \in HasLoadingState => loading' = [loading EXCEPT ![c] = "loading"]
        /\ c \notin HasLoadingState => loading' = loading
        /\ errors' = errors
    BY DEF Call, SetLoading
  <1>2. /\ loading \in [AllCards -> {"idle", "loading", "error"}] /\ errors["publish"] \in Nat
    BY DEF TypeInv, Typed, RequestTypeOK, AllCards
  <1>3. loading'["sync"] # "loading" /\ LoadingHonest'
    BY <1>1, <1>2, CallWaits DEF LoadingInv, LoadingHonest, HasLoadingState, AllCards
  <1>4. CASE c = "publish"
    <2>1. IsFiniteSet(Waiting') /\ Cardinality(Waiting') = Cardinality(Waiting) + 1
      BY <1>4, CallWaits, FS_AddElement DEF LoadingInv
    <2>2. Cardinality(Waiting) \in Nat /\ Cardinality(Waiting) <= errors["publish"]
      BY <1>4, <1>2, FS_CardinalityType DEF LoadingInv
    <2>3. loading'["publish"] = "loading"
      BY <1>1, <1>2, <1>4 DEF HasLoadingState
    <2> QED BY <1>1, <1>2, <1>3, <2>1, <2>2, <2>3 DEF LoadingInv
  <1>5. CASE c # "publish"
    <2>1. Waiting' = Waiting /\ loading'["publish"] = loading["publish"]
      BY <1>1, <1>2, <1>5, CallWaits DEF AllCards
    <2> QED BY <1>1, <1>3, <2>1 DEF LoadingInv
  <1> QED BY <1>4, <1>5

\* A response, or its failure, ends the wait of one call.
LEMMA EndKeepsLoading ==
  ASSUME ReqInv, NEW r \in calls, Response(r) \/ FetchFails(r)
  PROVE  LoadingInv'
  <1> USE DEF ReqInv
  <1>1. /\ r.stage = "fetch" /\ r.card \in AllCards /\ errors' = errors
        /\ r.card \in HasLoadingState => loading' = [loading EXCEPT ![r.card] = "idle"]
        /\ r.card \notin HasLoadingState => loading' = loading
        /\ \/ calls' = calls \ {r}
           \/ calls' = (calls \ {r}) \cup {[r EXCEPT !.stage = "body"]}
    BY CallTypes DEF Response, FetchFails, SetLoading
  <1>2. /\ loading \in [AllCards -> {"idle", "loading", "error"}] /\ errors["publish"] \in Nat
        /\ [r EXCEPT !.stage = "body"].stage = "body"
    BY CallTypes DEF TypeInv, Typed, RequestTypeOK, AllCards
  <1>3. \A d \in AllCards : Fetching(d)' = Fetching(d) \ {r}
    BY <1>1, <1>2 DEF Fetching
  <1>4. \A d \in AllCards : d # r.card => Fetching(d)' = Fetching(d)
    BY <1>3 DEF Fetching
  <1>5. loading'["sync"] # "loading" /\ LoadingHonest'
    BY <1>1, <1>2, <1>4 DEF LoadingInv, LoadingHonest, HasLoadingState, AllCards
  <1>6. CASE r.card = "publish"
    <2>1. Waiting' = Waiting \ {r} /\ r \in Waiting
      BY <1>1, <1>3, <1>6 DEF Waiting, Fetching, AllCards
    <2>2. IsFiniteSet(Waiting') /\ Cardinality(Waiting') = Cardinality(Waiting) - 1
      BY <2>1, FS_RemoveElement DEF LoadingInv
    <2>3. Cardinality(Waiting) \in Nat /\ Cardinality(Waiting) <= errors["publish"] + 1
      BY <1>2, FS_CardinalityType DEF LoadingInv
    <2>4. loading'["publish"] = "idle"
      BY <1>1, <1>2, <1>6 DEF HasLoadingState, AllCards
    <2> QED BY <1>1, <1>2, <1>5, <2>2, <2>3, <2>4 DEF LoadingInv
  <1>7. CASE r.card # "publish"
    <2>1. Waiting' = Waiting /\ loading'["publish"] = loading["publish"]
      BY <1>1, <1>2, <1>4, <1>7 DEF Waiting, AllCards
    <2> QED BY <1>1, <1>5, <2>1 DEF LoadingInv
  <1> QED BY <1>6, <1>7

\* The body, whatever it is, ends no wait; an error of a publication is counted.
LEMMA BodyKeepsLoading ==
  ASSUME ReqInv, NEW r \in calls, HttpError(r) \/ Done(r) \/ NoBody(r)
  PROVE  LoadingInv'
  <1> USE DEF ReqInv
  <1>1. r.stage = "body" /\ calls' = calls \ {r} /\ r.card \in AllCards
    BY CallTypes DEF HttpError, Done, NoBody
  <1>2. /\ loading \in [AllCards -> {"idle", "loading", "error"}]
        /\ errors \in [AllCards -> Nat] /\ errors["publish"] \in Nat
    BY DEF TypeInv, Typed, RequestTypeOK, AllCards
  <1>3. \A d \in AllCards : Fetching(d)' = Fetching(d)
    BY <1>1 DEF Fetching
  <1>4. Waiting' = Waiting
    BY <1>3 DEF Waiting, AllCards
  <1>5. CASE HttpError(r)
    <2>1. /\ r.card \in HasLoadingState => loading' = [loading EXCEPT ![r.card] = "error"]
          /\ r.card \notin HasLoadingState => loading' = loading
          /\ errors' = [errors EXCEPT ![r.card] = @ + 1]
      BY <1>5 DEF HttpError, SetLoading
    <2>2. loading'["sync"] # "loading" /\ LoadingHonest'
      BY <1>1, <1>2, <1>3, <2>1 DEF LoadingInv, LoadingHonest, HasLoadingState, AllCards
    <2>3. Cardinality(Waiting) \in Nat
      BY FS_CardinalityType DEF LoadingInv
    <2>4. CASE r.card = "publish"
      <3>1. loading'["publish"] = "error" /\ errors'["publish"] = errors["publish"] + 1
        BY <1>1, <1>2, <2>1, <2>4 DEF HasLoadingState
      <3> QED BY <1>2, <1>4, <2>2, <2>3, <3>1 DEF LoadingInv
    <2>5. CASE r.card # "publish"
      <3>1. loading'["publish"] = loading["publish"] /\ errors'["publish"] = errors["publish"]
        BY <1>1, <1>2, <2>1, <2>5 DEF AllCards
      <3> QED BY <1>4, <2>2, <3>1 DEF LoadingInv
    <2> QED BY <2>4, <2>5
  <1>6. CASE Done(r) \/ NoBody(r)
    <2>1. loading' = loading /\ errors' = errors
      BY <1>6 DEF Done, NoBody
    <2> QED BY <1>3, <1>4, <2>1 DEF LoadingInv, LoadingHonest
  <1> QED BY <1>5, <1>6

LEMMA UserKeepsLoading ==
  ASSUME ReqInv, NEW c \in AllCards, BadPayload(c) \/ SetSubject(c) \/ Close(c)
  PROVE  LoadingInv'
  <1> USE DEF ReqInv
  <1>1. loading' = loading /\ errors' = errors
    BY DEF BadPayload, SetSubject, Close
  <1>2. Waiting' = Waiting /\ \A d \in AllCards : Fetching(d) # {} => Fetching(d)' # {}
    <2>1. CASE calls' = calls
      BY <2>1 DEF Waiting, Fetching
    <2>2. CASE calls' = {[r EXCEPT !.aborted = @ \/ r.n = abort] : r \in calls}
      <3>1. PICK S : S = {Abort(r) : r \in calls}
        OBVIOUS
      <3>2. calls' = S
        BY <2>2, <3>1 DEF Abort
      <3>3. Waiting' = Waiting
        BY <3>1, <3>2, AbortKeepsWaiting DEF Waiting, Fetching
      <3>4. ASSUME NEW d \in AllCards, NEW r \in Fetching(d) PROVE Fetching(d)' # {}
        <4>1. r \in calls /\ r.card = d /\ r.stage = "fetch"
          BY <3>4 DEF Fetching
        <4>2. PICK q \in S : q.card = r.card /\ q.stage = r.stage
          BY <3>1, <4>1, AbortKeepsWaiting
        <4>3. q \in Fetching(d)'
          BY <3>2, <4>1, <4>2 DEF Fetching
        <4> QED BY <4>3
      <3> QED BY <3>3, <3>4
    <2> QED BY <2>1, <2>2 DEF BadPayload, SetSubject, Close
  <1> QED BY <1>1, <1>2 DEF LoadingInv, LoadingHonest

LEMMA StepKeepsLoading == ReqInv /\ [RequestNext]_requestVars => ReqInv'
  <1> SUFFICES ASSUME ReqInv, [RequestNext]_requestVars PROVE ReqInv'
    OBVIOUS
  <1>0. TypeInv'
    BY StepKeepsTypes DEF ReqInv
  <1>1. CASE UNCHANGED requestVars
    BY <1>0, <1>1 DEF requestVars, ReqInv, LoadingInv, LoadingHonest, Waiting, Fetching
  <1>2. CASE Publish
    BY <1>0, <1>2, CallKeepsLoading DEF Publish, CanEdit, AllCards, ReqInv
  <1>3. CASE Sync \/ Load
    BY <1>0, <1>3, CallKeepsLoading DEF Sync, Load, AllCards, ReqInv
  <1>4. CASE \E r \in calls : Settle(r)
    BY <1>0, <1>4, EndKeepsLoading, BodyKeepsLoading DEF Settle, ReqInv
  <1>5. CASE \E c \in AllCards : BadPayload(c) \/ SetSubject(c) \/ Close(c)
    BY <1>0, <1>5, UserKeepsLoading DEF ReqInv
  <1> QED BY <1>1, <1>2, <1>3, <1>4, <1>5, StepCases

\* The cards that wait for an answer keep to their buttons and spinners: no order of
\* responses, failures and clicks leaves one loading for nothing, or publishes twice but
\* for what an HTTP error lets through.
THEOREM RequestCards == RequestSpec => []RequestsSound
  <1>1. ReqInv => RequestsSound
    <2> SUFFICES ASSUME ReqInv PROVE RequestsSound
      OBVIOUS
    <2>1. errors["publish"] \in Nat
      BY DEF ReqInv, TypeInv, Typed, AllCards
    <2>2. Cardinality(Waiting) \in Nat
      BY FS_CardinalityType DEF ReqInv, LoadingInv
    <2>3. PublishOnce
      BY <2>1, <2>2 DEF ReqInv, LoadingInv, PublishOnce, Waiting
    <2> QED BY <2>3 DEF ReqInv, TypeInv, Typed, LoadingInv, RequestsSound
  <1>2. RequestInit => ReqInv
    BY TypesHoldInitially, InitLoading DEF ReqInv
  <1> QED BY <1>1, <1>2, StepKeepsLoading, PTL DEF RequestSpec

-----------------------------------------------------------------------------
(* The refinement. *)

LEMMA InitImplements == RequestInit => Latest!Init
  BY DEF RequestInit, Latest!Init, AllCards

\* Every step of the cards is a step of LatestAnswer, or none at all.
LEMMA StepImplements ==
  TypeInv /\ [RequestNext]_requestVars => [Latest!Next]_<<abort, shown["view"]>>
  <1> SUFFICES ASSUME TypeInv, [RequestNext]_requestVars
               PROVE  Latest!Next \/ (abort' = abort /\ shown'["view"] = shown["view"])
    OBVIOUS
  <1>t. /\ asked \in Nat /\ abort \in 0..asked /\ shown \in [AllCards -> 0..asked]
    BY RequestAssumption DEF TypeInv, Typed, RequestTypeOK
  <1>1. CASE UNCHANGED requestVars
    BY <1>1 DEF requestVars
  <1>2. CASE Load
    <2>1. abort' = asked + 1 /\ shown' = shown
      BY <1>2 DEF Load, Call, StartManaged
    <2>2. Latest!Ask
      BY <1>t, <2>1 DEF Latest!Ask
    <2> QED BY <2>2 DEF Latest!Next
  <1>3. CASE Publish \/ Sync
    BY <1>3 DEF Publish, Sync, Call
  <1>4. CASE \E c \in AllCards : BadPayload(c) \/ SetSubject(c) \/ Close(c)
    BY <1>4 DEF BadPayload, SetSubject, Close
  <1>5. ASSUME NEW r \in calls, Settle(r)
        PROVE  Latest!Next \/ (abort' = abort /\ shown'["view"] = shown["view"])
    <2>1. CASE Response(r) \/ FetchFails(r) \/ HttpError(r)
      BY <2>1 DEF Response, FetchFails, HttpError
    <2>2. CASE Done(r) /\ r.card = "view"
      <3>1. r.n = abort /\ r.n \in 1..MaxCalls
        BY <2>2, CallTypes DEF Done, TypeInv, OneController
      <3>2. shown'["view"] = r.n /\ abort' = abort
        BY <1>t, <2>2 DEF Done, AllCards
      <3>3. Latest!Show
        BY <3>1, <3>2, RequestAssumption DEF Latest!Show
      <3> QED BY <3>3 DEF Latest!Next
    <2>3. CASE Done(r) /\ r.card # "view"
      BY <1>t, <2>3 DEF Done, AllCards
    <2>4. CASE NoBody(r) /\ r.card = "view"
      <3>1. shown'["view"] = 0 /\ abort' = abort
        BY <1>t, <2>4 DEF NoBody, AllCards
      <3> QED BY <3>1 DEF Latest!Next, Latest!Blank
    <2>5. CASE NoBody(r) /\ r.card # "view"
      BY <2>5 DEF NoBody
    <2> QED BY <1>5, <2>1, <2>2, <2>3, <2>4, <2>5 DEF Settle
  <1> QED BY <1>1, <1>2, <1>3, <1>4, <1>5, StepCases

\* AjaxService with a card that fetches implements LatestAnswer: the card shows the
\* answer to its latest question or none, for any number of calls in any order.
THEOREM ShowsTheLatest == RequestSpec => ImplementsLatest
  <1> QED BY TypesHoldInitially, StepKeepsTypes, InitImplements, StepImplements, PTL
          DEF RequestSpec, ImplementsLatest, Latest!Spec

-----------------------------------------------------------------------------
(* Entities: the invariant. *)

Ops == {"list", "get", "create", "save", "delete", "purge", "pause"}
Reads == {"list", "get"}
OfList == {"list", "delete", "purge"}

ListType == [set: BOOLEAN, rows: [Names -> Values], select: NameOrNone, asof: Values]
CardType == [open: BOOLEAN, edit: {"read", "edit", "new"}, name: NameOrNone,
             draft: BOOLEAN, ttl: BOOLEAN, revs: BOOLEAN, history: BOOLEAN,
             busy: BOOLEAN, json: BOOLEAN, left: BOOLEAN, asof: Values]
AskType == [op: {"none", "delete", "purge"}, name: NameOrNone, swapped: BOOLEAN]
RequestType ==
  [id: 1..MaxReqs, op: Ops, slot: Slots \cup {"list", "gone"}, name: NameOrNone,
   asked: NameOrNone, swapped: BOOLEAN, served: BOOLEAN, rows: [Names -> Values],
   val: Values, asof: Values, old: SUBSET Names]

\* A card that is not new has a name, and so has a question.
CardsInv ==
  /\ card \in [Slots -> CardType]
  /\ \A s \in Slots : /\ card[s].open \/ card[s] = NoCard
                      /\ card[s].open /\ card[s].edit # "new" => card[s].name \in Names
ScreenInv ==
  /\ kind \in Kinds /\ cList \in ListType /\ stale \in SUBSET Names
  /\ ask \in AskType /\ (ask.op # "none" => ask.name \in Names)
  /\ CardsInv
ServerInv == clock \in Values /\ server \in [Names -> Values]

\* What an answer says of a name is what the server has, unless it has changed since.
Answered(r) ==
  /\ r.asof <= clock
  /\ r.op = "list" => \A n \in Names \ r.old : r.rows[n] = server[n]
  /\ r.op \notin Reads /\ r.name \notin r.old => r.val = server[r.name]
  /\ r.op = "delete" \/ (r.op = "purge" /\ kind = "kv") => r.val = 0

\* A request is one of the list, or of a card that is open, or its card is gone.
Placed(r) ==
  /\ r.op # "list" => r.name \in Names
  /\ r.slot = "list" <=> r.op \in OfList
  /\ r.op = "get" => r.slot \in Slots /\ kind # "cnn"
  /\ r.op = "pause" => kind = "consumer"
  /\ r.op \in {"delete", "purge"} => r.name = r.asked \/ r.swapped
RequestInv ==
  /\ reqs \in SUBSET RequestType
  /\ \A q, r \in reqs : q.id = r.id => q = r
  /\ \A r \in reqs : Placed(r) /\ (r.served => Answered(r))

\* Where a question aborts the one before, there is one at a time, and its answer is
\* not older than what is shown.
Newest ==
  /\ cList.asof <= clock /\ \A s \in Slots : card[s].asof <= clock
  /\ \A r \in reqs : r.slot \in Slots => card[r.slot].open
  /\ kind # "cnn" => \A r \in reqs : r.op = "list" =>
       /\ r.served => cList.asof <= r.asof
       /\ \A q \in reqs : q.op = "list" => q = r
  /\ kind # "bucket" => \A r \in reqs : r.op = "get" =>
       /\ r.served => card[r.slot].asof <= r.asof
       /\ \A q \in reqs : q.op = "get" /\ q.slot = r.slot => q = r

\* Entries and connections have no draft in READ at all.
DraftInv ==
  /\ NoDraftInRead
  /\ \A s \in Slots : kind \in {"kv", "cnn"} =>
       ~card[s].json /\ (card[s].edit = "read" => ~card[s].draft)

\* The alert is about what is selected.
AskInv ==
  ask.op # "none" /\ kind # "cnn" /\ cList.select # NoName =>
    cList.select = ask.name \/ ask.swapped

EntityInv ==
  ScreenInv /\ ServerInv /\ RequestInv /\ Newest /\ ListFollows /\ DraftInv /\ AskInv

-----------------------------------------------------------------------------
(* The requests of the entities' cards. *)

\* No more requests than ids.
LEMMA FewRequests ==
  ASSUME NEW R \in SUBSET RequestType, \A q, r \in R : q.id = r.id => q = r
  PROVE  /\ IsFiniteSet(R) /\ Cardinality(R) <= MaxReqs
         /\ Cardinality({r.id : r \in R}) = Cardinality(R)
         /\ Cardinality(R) < MaxReqs => \E i \in 1..MaxReqs : \A r \in R : r.id # i
  <1> DEFINE I == {r.id : r \in R}
             f == [r \in R |-> r.id]
  <1>1. MaxReqs \in Nat \ {0}
    BY EntityAssumption
  <1>2. IsFiniteSet(1..MaxReqs) /\ Cardinality(1..MaxReqs) = MaxReqs
    BY <1>1, FS_Interval
  <1>3. I \in SUBSET (1..MaxReqs) /\ f \in Injection(R, I) /\ f \in Surjection(R, I)
        /\ \A r \in R : r.id \in I
    BY DEF RequestType, Injection, IsInjective, Surjection
  <1> HIDE DEF I, f
  <1>4. IsFiniteSet(I) /\ Cardinality(I) <= MaxReqs
        /\ (Cardinality(I) = MaxReqs => I = 1..MaxReqs)
    <2>1. /\ IsFiniteSet(I) /\ Cardinality(I) <= Cardinality(1..MaxReqs)
          /\ Cardinality(1..MaxReqs) = Cardinality(I) => 1..MaxReqs = I
      BY <1>2, <1>3, FS_Subset
    <2> QED BY <2>1, <1>2
  <1>7. IsFiniteSet(R) /\ Cardinality(R) = Cardinality(I)
    BY <1>3, <1>4, FS_Injection
  <1>8. ASSUME Cardinality(R) < MaxReqs
        PROVE  \E i \in 1..MaxReqs : \A r \in R : r.id # i
    <2>1. I # 1..MaxReqs
      BY <1>2, <1>7, <1>8, <1>1
    <2>2. PICK i \in 1..MaxReqs : i \notin I
      BY <2>1, <1>3
    <2> QED BY <2>2, <1>3
  <1> QED BY <1>4, <1>7, <1>8 DEF I

\* R: what becomes of the requests: some end, and some lose their card.
Kept(R) ==
  /\ \A q \in R : \/ q \in reqs
                  \/ \E r \in reqs : /\ r.slot \in Slots /\ r.op # "get"
                                     /\ q = [r EXCEPT !.slot = "gone"]
  /\ \A q, r \in R : q.id = r.id => q = r

\* What was changed, but for what those in D have changed, is still to be told.
Tells(R, D) ==
  \A q \in reqs \ D : q.op \notin Reads /\ q.served =>
    \E p \in R : p.op \notin Reads /\ p.served /\ p.name = q.name

LEMMA KeptRequests ==
  ASSUME EntityInv, NEW R, Kept(R)
  PROVE  /\ R \in SUBSET RequestType /\ \A q, r \in R : q.id = r.id => q = r
         /\ \A r \in R : Placed(r) /\ (r.served => Answered(r))
         /\ \A r \in R : r.op \in Reads \/ r.slot \in Slots => r \in reqs
  <1>1. ASSUME NEW q \in R
        PROVE  /\ q \in RequestType /\ Placed(q) /\ (q.served => Answered(q))
               /\ q.op \in Reads \/ q.slot \in Slots => q \in reqs
    <2>1. CASE q \in reqs
      BY <2>1 DEF EntityInv, RequestInv
    <2>2. CASE q \notin reqs
      <3>1. PICK r \in reqs : /\ r.slot \in Slots /\ r.op # "get" /\ q = [r EXCEPT !.slot = "gone"]
        BY <2>2 DEF Kept
      <3>2. r \in RequestType /\ Placed(r) /\ (r.served => Answered(r))
        BY DEF EntityInv, RequestInv
      <3>3. q \in RequestType
        BY <3>1, <3>2 DEF RequestType
      <3>4. /\ q.op = r.op /\ q.name = r.name /\ q.asked = r.asked /\ q.swapped = r.swapped
            /\ q.served = r.served /\ q.rows = r.rows /\ q.val = r.val /\ q.asof = r.asof
            /\ q.old = r.old /\ q.slot = "gone"
        BY <3>1, <3>2 DEF RequestType
      <3>5. r.op \notin OfList
        BY <3>1, <3>2 DEF Placed, Slots
      <3>6. Placed(q)
        BY <3>1, <3>2, <3>4, <3>5 DEF Placed, OfList
      <3>7. q.served => Answered(q)
        BY <3>2, <3>4 DEF Answered
      <3>8. q.op \notin Reads /\ q.slot \notin Slots
        BY <3>1, <3>4, <3>5 DEF Reads, OfList, Slots
      <3> QED BY <3>3, <3>6, <3>7, <3>8
    <2> QED BY <2>1, <2>2
  <1> QED BY <1>1 DEF Kept

LEMMA SomeAreKept ==
  ASSUME EntityInv, NEW R \in SUBSET reqs
  PROVE  Kept(R)
  BY DEF Kept, EntityInv, RequestInv

LEMMA OrphanedAreKept ==
  ASSUME EntityInv, NEW slots \in SUBSET Slots
  PROVE  /\ Kept(Orphaned(slots)) /\ \A q \in Orphaned(slots) : q.slot \notin slots
         /\ Tells(Orphaned(slots), {})
         /\ \A q \in Orphaned(slots) : q.op \in Reads => q \in reqs
         /\ \A r \in reqs : r.slot \notin slots => r \in Orphaned(slots)
  <1> DEFINE Q == {q \in reqs : ~(q.slot \in slots /\ q.op = "get")}
             new(r) == IF r.slot \in slots THEN [r EXCEPT !.slot = "gone"] ELSE r
  <1>1. Orphaned(slots) = {new(r) : r \in Q}
    BY DEF Orphaned
  <1>2. \A r \in reqs : r \in RequestType /\ Placed(r)
    BY DEF EntityInv, RequestInv
  <1>3. ASSUME NEW r \in reqs
        PROVE  /\ new(r).id = r.id /\ new(r).op = r.op /\ new(r).name = r.name
               /\ new(r).served = r.served /\ new(r).slot \notin slots
    BY <1>2, <1>3 DEF RequestType, Slots
  <1>4. ASSUME NEW q \in Orphaned(slots)
        PROVE  /\ \/ q \in reqs
                  \/ \E r \in reqs : /\ r.slot \in Slots /\ r.op # "get"
                                     /\ q = [r EXCEPT !.slot = "gone"]
               /\ q.slot \notin slots
               /\ q.op \in Reads => q \in reqs
    <2>1. PICK r \in Q : q = new(r)
      BY <1>1, <1>4
    <2>2. r \in reqs /\ ~(r.slot \in slots /\ r.op = "get")
      BY <2>1
    <2>3. CASE r.slot \in slots
      <3>1. q = [r EXCEPT !.slot = "gone"] /\ q.op = r.op /\ r.op # "get" /\ r.slot \in Slots
        BY <2>1, <2>2, <2>3, <1>3
      <3>2. r.op # "list"
        BY <3>1, <1>2, <2>2 DEF Placed, OfList, Slots
      <3> QED BY <3>1, <3>2, <2>2, <1>3, <2>1 DEF Reads
    <2>4. CASE r.slot \notin slots
      BY <2>1, <2>2, <2>4
    <2> QED BY <2>3, <2>4
  <1>5. \A p, q \in Orphaned(slots) : p.id = q.id => p = q
    <2>1. TAKE p, q \in Orphaned(slots)
    <2>2. PICK a \in Q : p = new(a)
      BY <1>1
    <2>3. PICK b \in Q : q = new(b)
      BY <1>1
    <2>4. p.id = q.id => a = b
      BY <2>2, <2>3, <1>3 DEF EntityInv, RequestInv
    <2> QED BY <2>2, <2>3, <2>4
  <1>6. ASSUME NEW r \in reqs, r.op # "get"
        PROVE  new(r) \in Orphaned(slots)
    BY <1>1, <1>6
  <1>7. Tells(Orphaned(slots), {})
    BY <1>6, <1>3 DEF Tells, Reads
  <1>8. ASSUME NEW r \in reqs, r.slot \notin slots
        PROVE  r \in Orphaned(slots)
    BY <1>1, <1>8
  <1> QED BY <1>4, <1>5, <1>7, <1>8 DEF Kept

\* A request that is sent.
LEMMA RequestFacts ==
  ASSUME NEW R, NEW op, NEW slot, NEW name, NEW want, NEW swapped,
         R \in SUBSET RequestType, \A q, r \in R : q.id = r.id => q = r,
         Cardinality(R) < MaxReqs, op \in Ops, slot \in Slots \cup {"list", "gone"},
         name \in NameOrNone, want \in NameOrNone, swapped \in BOOLEAN
  PROVE  /\ Request(R, op, slot, name, want, swapped) \in RequestType
         /\ \A r \in R : r.id # Request(R, op, slot, name, want, swapped).id
  <1> DEFINE id == CHOOSE i \in 1..MaxReqs : \A r \in R : r.id # i
  <1>1. \E i \in 1..MaxReqs : \A r \in R : r.id # i
    BY FewRequests
  <1>2. id \in 1..MaxReqs /\ \A r \in R : r.id # id
    BY <1>1
  <1>3. Request(R, op, slot, name, want, swapped) =
          [id |-> id, op |-> op, slot |-> slot, name |-> name, asked |-> want,
           swapped |-> swapped, served |-> FALSE, rows |-> [n \in Names |-> 0], val |-> 0,
           asof |-> 0, old |-> {}]
    BY DEF Request
  <1> HIDE DEF id
  <1>4. [n \in Names |-> 0] \in [Names -> Values] /\ 0 \in Values
    BY EntityAssumption DEF Values
  <1> QED BY <1>2, <1>3, <1>4 DEF RequestType

\* What is sent beside R.
Sent(R, q) ==
  /\ q \in RequestType /\ ~q.served /\ Placed(q) /\ \A r \in R : r.id # q.id
  /\ q.slot \in Slots => card'[q.slot].open
  /\ q.op = "list" /\ kind # "cnn" => \A r \in R : r.op # "list"
  /\ q.op = "get" /\ kind # "bucket" => \A r \in R : ~(r.op = "get" /\ r.slot = q.slot)

\* The cards and the list that are shown next to them.
Fits(R) ==
  /\ \A s \in Slots : /\ card'[s].open \/ \A r \in R : r.slot # s
                      /\ card'[s].asof <= clock
                      /\ \/ card'[s].asof = card[s].asof \/ kind = "bucket"
                         \/ \A r \in R : ~(r.op = "get" /\ r.slot = s)
  /\ cList'.asof <= clock
  /\ cList'.asof = cList.asof \/ kind = "cnn" \/ \A r \in R : r.op # "list"

\* A step of the browser leaves the requests sound.
LEMMA RequestsStay ==
  ASSUME EntityInv, kind' = kind, clock' = clock, server' = server,
         NEW R, Kept(R), reqs' = R \/ \E q : Sent(R, q) /\ reqs' = R \cup {q}, Fits(R)
  PROVE  RequestInv' /\ Newest' /\ ServerInv'
  <1> DEFINE N == reqs' \ R
  <1>1. reqs' = R \cup N /\ (\A q, r \in N : q = r) /\ \A q \in N : Sent(R, q)
    OBVIOUS
  <1> HIDE DEF N
  <1>2. /\ R \in SUBSET RequestType /\ \A q, r \in R : q.id = r.id => q = r
        /\ \A r \in R : Placed(r) /\ (r.served => Answered(r))
        /\ \A r \in R : r.op \in Reads \/ r.slot \in Slots => r \in reqs
    BY KeptRequests
  <1>3. \A q \in N : /\ q \in RequestType /\ ~q.served /\ Placed(q)
                     /\ \A r \in R : r.id # q.id
    BY <1>1 DEF Sent
  <1>4. \A r : (Placed(r) => Placed(r)') /\ (Answered(r) => Answered(r)')
    BY DEF Placed, Answered
  <1>5. RequestInv'
    <2>1. reqs' \in SUBSET RequestType
      BY <1>1, <1>2, <1>3
    <2>2. \A q, r \in reqs' : q.id = r.id => q = r
      BY <1>1, <1>2, <1>3
    <2>3. \A r \in reqs' : Placed(r) /\ (r.served => Answered(r))
      BY <1>1, <1>2, <1>3
    <2> QED BY <2>1, <2>2, <2>3, <1>4 DEF RequestInv
  <1>6. Newest'
    <2>1. cList'.asof <= clock /\ \A s \in Slots : card'[s].asof <= clock
      BY DEF Fits
    <2>2. ASSUME NEW r \in reqs', r.slot \in Slots
          PROVE  card'[r.slot].open
      <3>1. CASE r \in N
        BY <1>1, <2>2, <3>1 DEF Sent
      <3>2. CASE r \in R
        BY <2>2, <3>2 DEF Fits
      <3> QED BY <1>1, <3>1, <3>2
    <2>3. ASSUME kind # "cnn", NEW r \in reqs', r.op = "list"
          PROVE  /\ r.served => cList'.asof <= r.asof
                 /\ \A q \in reqs' : q.op = "list" => q = r
      <3>1. CASE r \in N
        <4>1. ~r.served /\ \A q \in R : q.op # "list"
          BY <1>1, <2>3, <3>1 DEF Sent
        <4> QED BY <4>1, <3>1, <1>1
      <3>2. CASE r \in R
        <4>1. r \in reqs /\ cList'.asof = cList.asof /\ \A q \in N : q.op # "list"
          BY <1>1, <1>2, <2>3, <3>2 DEF Sent, Fits, Reads
        <4>2. \A q \in R : q.op = "list" => q \in reqs
          BY <1>2 DEF Reads
        <4> QED BY <4>1, <4>2, <1>1, <2>3 DEF EntityInv, Newest
      <3> QED BY <1>1, <3>1, <3>2
    <2>4. ASSUME kind # "bucket", NEW r \in reqs', r.op = "get"
          PROVE  /\ r.served => card'[r.slot].asof <= r.asof
                 /\ \A q \in reqs' : q.op = "get" /\ q.slot = r.slot => q = r
      <3>1. CASE r \in N
        <4>1. ~r.served /\ \A q \in R : ~(q.op = "get" /\ q.slot = r.slot)
          BY <1>1, <2>4, <3>1 DEF Sent
        <4> QED BY <4>1, <3>1, <1>1
      <3>2. CASE r \in R
        <4>1. r \in reqs /\ Placed(r)
          BY <1>2, <2>4, <3>2 DEF Reads
        <4>2. r.slot \in Slots
          BY <4>1, <2>4 DEF Placed
        <4>3. card'[r.slot].asof = card[r.slot].asof
              /\ \A q \in N : ~(q.op = "get" /\ q.slot = r.slot)
          BY <1>1, <2>4, <3>2, <4>2 DEF Sent, Fits
        <4>4. \A q \in R : q.op = "get" => q \in reqs
          BY <1>2 DEF Reads
        <4> QED BY <4>1, <4>3, <4>4, <1>1, <2>4 DEF EntityInv, Newest
      <3> QED BY <1>1, <3>1, <3>2
    <2> QED BY <2>1, <2>2, <2>3, <2>4 DEF Newest
  <1>7. ServerInv'
    BY DEF ServerInv, EntityInv
  <1> QED BY <1>5, <1>6, <1>7

\* The list stays, or goes, while changes are told of or written off.
LEMMA ListStays ==
  ASSUME EntityInv, server' = server, stale \subseteq stale',
         cList'.set => cList.set /\ cList'.rows = cList.rows,
         NEW D, \A r \in D : r.op \in Reads \/ ~r.served \/ r.name \in stale',
         NEW R, Tells(R, D), R \subseteq reqs'
  PROVE  ListFollows'
  <1> SUFFICES ASSUME cList'.set, NEW n \in Names \ stale'
               PROVE  Changing(n)' \/ cList'.rows[n] = server'[n]
    BY DEF ListFollows
  <1>1. Changing(n) \/ cList.rows[n] = server[n]
    BY DEF EntityInv, ListFollows
  <1>2. CASE Changing(n)
    <2>1. PICK q \in reqs : q.served /\ q.name = n /\ q.op \notin {"list", "get"}
      BY <1>2 DEF Changing
    <2>2. q \notin D
      BY <2>1 DEF Reads
    <2>3. PICK p \in R : p.op \notin Reads /\ p.served /\ p.name = q.name
      BY <2>1, <2>2 DEF Tells, Reads
    <2> QED BY <2>1, <2>3 DEF Changing, Reads
  <1> QED BY <1>1, <1>2

-----------------------------------------------------------------------------
(* The detail. *)

\* A step of one card that stays open.
LEMMA CardSteps ==
  ASSUME EntityInv, UNCHANGED <<kind, server, clock, cList, ask, stale>>,
         NEW s \in Slots, card[s].open, NEW new \in CardType, card' = [card EXCEPT ![s] = new],
         new.open, new.edit # "new" => new.name \in Names, new.asof <= clock,
         NEW R, Kept(R), Tells(R, {r \in reqs : r.op \in Reads \/ ~r.served}),
         reqs' = R \/ \E q : Sent(R, q) /\ reqs' = R \cup {q},
         \A r \in reqs : r.op = "get" /\ r.slot # s => r \in reqs',
         \/ new.asof = card[s].asof \/ kind = "bucket"
         \/ \A r \in R : ~(r.op = "get" /\ r.slot = s),
         kind \in {"kv", "cnn"} => ~new.json /\ (new.edit = "read" => ~new.draft),
         new.edit = "read" /\ new.draft => new.left \/ \E r \in reqs' : r.op = "get" /\ r.slot = s
  PROVE  EntityInv'
  <1>1. /\ card \in [Slots -> CardType] /\ card'[s] = new
        /\ \A t \in Slots \ {s} : card'[t] = card[t]
    BY DEF EntityInv, ScreenInv, CardsInv
  <1>2. ScreenInv'
    BY <1>1 DEF EntityInv, ScreenInv, CardsInv
  <1>3. Fits(R)
    <2>1. \A r \in R : r.slot \in Slots => r \in reqs
      BY KeptRequests
    <2>2. \A t \in Slots : card'[t].open \/ \A r \in R : r.slot # t
      BY <1>1, <2>1 DEF EntityInv, Newest
    <2> QED BY <1>1, <2>2 DEF Fits, EntityInv, Newest
  <1>4. RequestInv' /\ Newest' /\ ServerInv'
    BY <1>3, RequestsStay
  <1>5. ListFollows'
    <2>1. R \subseteq reqs'
      OBVIOUS
    <2> QED BY <2>1, ListStays
  <1>6. DraftInv'
    <2>1. ASSUME NEW t \in Slots, card'[t].edit = "read", card'[t].draft
          PROVE  card'[t].left \/ \E r \in reqs' : r.op = "get" /\ r.slot = t
      BY <1>1, <2>1 DEF EntityInv, DraftInv, NoDraftInRead
    <2>2. ASSUME NEW t \in Slots, kind \in {"kv", "cnn"}
          PROVE  ~card'[t].json /\ (card'[t].edit = "read" => ~card'[t].draft)
      BY <1>1, <2>2 DEF EntityInv, DraftInv
    <2> QED BY <2>1, <2>2 DEF DraftInv, NoDraftInRead
  <1>7. AskInv'
    BY DEF AskInv, EntityInv
  <1> QED BY <1>2, <1>4, <1>5, <1>6, <1>7 DEF EntityInv

\* A card asks for what it shows; what it asked before may be aborted.
LEMMA FetchSends ==
  ASSUME EntityInv, NEW s \in Slots, card[s].open, card[s].edit # "new", Fetch(s),
         card'[s].open
  PROVE  \E R \in SUBSET reqs :
           /\ \A r \in reqs \ R : r.op = "get" /\ r.slot = s
           /\ \E q : Sent(R, q) /\ reqs' = R \cup {q} /\ q.op = "get" /\ q.slot = s
           /\ kind # "cnn"
  <1>1. PICK name \in Names : name = card[s].name /\ kind # "cnn"
    BY DEF EntityInv, ScreenInv, CardsInv, Fetch, StreamFetch, BucketFetch, KvFetch, ConsumerFetch
  <1> DEFINE old == {r \in reqs : ~(r.op = "get" /\ r.slot = s)}
  <1>2. PICK R \in SUBSET reqs :
          /\ Cardinality(R) < MaxReqs /\ reqs' = R \cup {Request(R, "get", s, name, name, FALSE)}
          /\ R \in {reqs, old} /\ (kind # "bucket" => R = old)
    BY <1>1 DEF Fetch, StreamFetch, BucketFetch, KvFetch, ConsumerFetch, SendManaged, Send, Post
  <1> DEFINE q == Request(R, "get", s, name, name, FALSE)
  <1>3. R \in SUBSET RequestType /\ \A p, r \in R : p.id = r.id => p = r
    BY <1>2 DEF EntityInv, RequestInv
  <1>4. q.op = "get" /\ q.slot = s /\ q.name = name /\ ~q.served
    BY DEF Request
  <1>5. q \in RequestType /\ \A r \in R : r.id # q.id
    <2>1. /\ "get" \in Ops /\ s \in Slots \cup {"list", "gone"} /\ name \in NameOrNone
          /\ FALSE \in BOOLEAN
      BY <1>1 DEF Ops, NameOrNone
    <2>2. Cardinality(R) < MaxReqs
      BY <1>2
    <2> QED BY <2>2, <1>3, <2>1, RequestFacts
  <1>6. Sent(R, q)
    <2> HIDE DEF q
    <2>1. Placed(q)
      BY <1>1, <1>4 DEF Placed, Slots, OfList
    <2> QED BY <1>2, <1>4, <1>5, <2>1 DEF Sent
  <1> QED BY <1>1, <1>2, <1>4, <1>6

\* A card sends a change.
LEMMA ChangeSends ==
  ASSUME EntityInv, NEW s \in Slots, NEW op \in {"create", "save", "pause"}, NEW n \in Names,
         op = "pause" => kind = "consumer", card'[s].open, Send(op, s, n)
  PROVE  \E q : Sent(reqs, q) /\ reqs' = reqs \cup {q}
  <1> DEFINE q == Request(reqs, op, s, n, n, FALSE)
  <1>1. Cardinality(reqs) < MaxReqs /\ reqs' = reqs \cup {q}
    BY DEF Send, Post
  <1>2. reqs \in SUBSET RequestType /\ \A p, r \in reqs : p.id = r.id => p = r
    BY DEF EntityInv, RequestInv
  <1>3. q.op = op /\ q.slot = s /\ q.name = n /\ ~q.served
    BY DEF Request
  <1>4. q \in RequestType /\ \A r \in reqs : r.id # q.id
    <2>1. op \in Ops /\ s \in Slots \cup {"list", "gone"} /\ n \in NameOrNone /\ FALSE \in BOOLEAN
      BY DEF Ops, NameOrNone
    <2> QED BY <1>1, <1>2, <2>1, RequestFacts
  <1> HIDE DEF q
  <1>5. Placed(q)
    BY <1>3 DEF Placed, Slots, OfList
  <1> QED BY <1>1, <1>4, <1>5, <1>3 DEF Sent

LEMMA SetCard ==
  ASSUME EntityInv, NEW s \in Slots, NEW new, Set(s, new), card[s].open
  PROVE  /\ card' = [card EXCEPT ![s] = new] /\ card'[s] = new /\ card[s] \in CardType
         /\ card[s].asof <= clock /\ (card[s].edit # "new" => card[s].name \in Names)
         /\ kind \in {"kv", "cnn"} => ~card[s].json /\ (card[s].edit = "read" => ~card[s].draft)
         /\ card[s].edit = "read" /\ card[s].draft =>
              card[s].left \/ \E r \in reqs : r.op = "get" /\ r.slot = s
  BY DEF Set, EntityInv, ScreenInv, CardsInv, Newest, DraftInv, NoDraftInRead

\* A card whose requests stay as they are.
LEMMA QuietCard ==
  ASSUME EntityInv, UNCHANGED <<kind, server, clock, cList, ask, stale>>,
         NEW s \in Slots, card[s].open, NEW new \in CardType, Set(s, new),
         reqs' = reqs \/ \E q : Sent(reqs, q) /\ reqs' = reqs \cup {q},
         new.open, new.edit # "new" => new.name \in Names, new.asof = card[s].asof,
         kind \in {"kv", "cnn"} => ~new.json /\ (new.edit = "read" => ~new.draft),
         new.edit = "read" /\ new.draft => new.left \/ \E r \in reqs : r.op = "get" /\ r.slot = s
  PROVE  EntityInv'
  <1>1. card' = [card EXCEPT ![s] = new] /\ new.asof <= clock
    BY SetCard
  <1>2. Kept(reqs)
    BY SomeAreKept
  <1>3. Tells(reqs, {r \in reqs : r.op \in Reads \/ ~r.served})
    BY DEF Tells
  <1>4. reqs \subseteq reqs'
    OBVIOUS
  <1>5. \A r \in reqs : r.op = "get" /\ r.slot # s => r \in reqs'
    BY <1>4
  <1>6. new.edit = "read" /\ new.draft => new.left \/ \E r \in reqs' : r.op = "get" /\ r.slot = s
    BY <1>4
  <1>7. new.asof = card[s].asof \/ kind = "bucket" \/ \A r \in reqs : ~(r.op = "get" /\ r.slot = s)
    OBVIOUS
  <1> QED BY <1>1, <1>2, <1>3, <1>5, <1>6, <1>7, CardSteps

\* A card that asks for what it shows, mounted or cancelled.
LEMMA AskingCard ==
  ASSUME EntityInv, UNCHANGED <<kind, server, clock, cList, ask, stale>>,
         NEW s \in Slots, card[s].open, card[s].edit # "new", Fetch(s),
         NEW new \in CardType, Set(s, new), new.open, new.edit = card[s].edit \/ new.edit = "read",
         new.name = card[s].name, new.asof = card[s].asof, new.json = card[s].json,
         new.edit = "read" => ~new.draft \/ kind # "kv"
  PROVE  EntityInv'
  <1>1. /\ card' = [card EXCEPT ![s] = new] /\ card'[s] = new /\ card[s].asof <= clock
        /\ card[s].name \in Names /\ (kind \in {"kv", "cnn"} => ~card[s].json)
    BY SetCard
  <1>2. PICK R \in SUBSET reqs :
          /\ \A r \in reqs \ R : r.op = "get" /\ r.slot = s
          /\ \E q : Sent(R, q) /\ reqs' = R \cup {q} /\ q.op = "get" /\ q.slot = s
          /\ kind # "cnn"
    BY <1>1, FetchSends
  <1>3. Kept(R)
    BY SomeAreKept
  <1>4. Tells(R, {r \in reqs : r.op \in Reads \/ ~r.served})
    BY <1>2 DEF Tells, Reads
  <1>5. \E r \in reqs' : r.op = "get" /\ r.slot = s
    BY <1>2
  <1>6. \A r \in reqs : r.op = "get" /\ r.slot # s => r \in reqs'
    BY <1>2
  <1>7. reqs' = R \/ \E q : Sent(R, q) /\ reqs' = R \cup {q}
    BY <1>2
  <1>8. kind \in {"kv", "cnn"} => ~new.json /\ (new.edit = "read" => ~new.draft)
    BY <1>1, <1>2
  <1>9. new.edit # "new" => new.name \in Names
    BY <1>1
  <1>10. new.asof <= clock
    BY <1>1
  <1>11. new.asof = card[s].asof \/ kind = "bucket" \/ \A r \in R : ~(r.op = "get" /\ r.slot = s)
    OBVIOUS
  <1>12. new.edit = "read" /\ new.draft => new.left \/ \E r \in reqs' : r.op = "get" /\ r.slot = s
    BY <1>5
  <1> QED BY <1>1, <1>3, <1>4, <1>6, <1>7, <1>8, <1>9, <1>10, <1>11, <1>12, CardSteps

LEMMA MountKeeps ==
  ASSUME EntityInv, NEW s \in Slots, DetailMount(s)
  PROVE  EntityInv'
  <1>1. /\ card[s].open /\ card[s].edit # "new" /\ Fetch(s)
        /\ UNCHANGED <<kind, server, clock, cList, ask, stale>>
    BY DEF DetailMount, StreamView, BucketView, KvView, Fetch
  <1>2. card \in [Slots -> CardType] /\ card[s] \in CardType
    BY DEF EntityInv, ScreenInv, CardsInv
  <1>3. PICK new \in {card[s], Undrafted(card[s])} : Set(s, new) /\ (new = card[s] \/ kind # "kv")
    <2>1. CASE UNCHANGED card
      <3>1. Set(s, card[s])
        BY <2>1, <1>2 DEF Set
      <3> QED BY <3>1
    <2>2. CASE kind # "kv" /\ Set(s, Undrafted(card[s]))
      BY <2>2
    <2> QED BY <2>1, <2>2 DEF DetailMount
  <1>4. /\ new \in CardType /\ new.open /\ new.edit = card[s].edit /\ new.name = card[s].name
        /\ new.asof = card[s].asof /\ new.json = card[s].json
    BY <1>1, <1>2, <1>3 DEF Undrafted, CardType
  <1>5. new.edit = "read" => ~new.draft \/ kind # "kv"
    BY <1>3, <1>4 DEF EntityInv, DraftInv
  <1> QED BY <1>1, <1>3, <1>4, <1>5, AskingCard

LEMMA ActionsKeep ==
  ASSUME EntityInv, NEW s \in Slots, Actions(s)
  PROVE  EntityInv'
  <1> DEFINE c == card[s]
  <1>1. card[s].open /\ UNCHANGED <<kind, server, clock, cList, ask, stale>>
    BY DEF Actions
  <1>2. card[s] \in CardType /\ card \in [Slots -> CardType]
    BY DEF EntityInv, ScreenInv, CardsInv
  <1>3. /\ card[s].edit # "new" => card[s].name \in Names
        /\ kind \in {"kv", "cnn"} => ~card[s].json /\ (card[s].edit = "read" => ~card[s].draft)
        /\ card[s].edit = "read" /\ card[s].draft =>
              card[s].left \/ \E r \in reqs : r.op = "get" /\ r.slot = s
    BY <1>1 DEF EntityInv, ScreenInv, CardsInv, DraftInv, NoDraftInRead
  <1>4. CASE Edit(s)
    <2> DEFINE new == [card[s] EXCEPT !.edit = "edit"]
    <2>1. Set(s, new) /\ reqs' = reqs /\ card[s].edit = "read"
      BY <1>4 DEF Edit
    <2>2. /\ new \in CardType /\ new.open /\ new.edit = "edit" /\ new.name = card[s].name
          /\ new.asof = card[s].asof /\ new.json = card[s].json
      BY <1>1, <1>2 DEF CardType
    <2> HIDE DEF new
    <2> QED BY <1>1, <1>3, <2>1, <2>2, QuietCard
  <1>5. CASE Type(s) /\ (kind \notin {"kv", "cnn"} \/ card[s].edit # "read")
    <2> DEFINE new == [card[s] EXCEPT !.draft = TRUE, !.left = @ \/ card[s].edit = "read"]
    <2>1. Set(s, new) /\ reqs' = reqs
      BY <1>5 DEF Type
    <2>2. /\ new \in CardType /\ new.open /\ new.edit = card[s].edit /\ new.name = card[s].name
          /\ new.asof = card[s].asof /\ new.json = card[s].json
          /\ new.left = (card[s].left \/ card[s].edit = "read")
      BY <1>1, <1>2 DEF CardType
    <2> HIDE DEF new
    <2> QED BY <1>1, <1>3, <1>5, <2>1, <2>2, QuietCard
  <1>6. CASE Cancel(s)
    <2> DEFINE read == [card[s] EXCEPT !.edit = "read", !.left = FALSE,
                          !.draft = @ /\ kind \notin {"kv", "cnn"}]
    <2>1. PICK new \in {read, Undrafted(read)} : Set(s, new)
      BY <1>6 DEF Cancel
    <2>2. card[s].edit = "edit"
      BY <1>6 DEF Cancel
    <2>3. /\ read \in CardType /\ read.open /\ read.edit = "read" /\ read.name = card[s].name
          /\ read.asof = card[s].asof /\ read.json = card[s].json
          /\ read.draft = (card[s].draft /\ kind \notin {"kv", "cnn"})
      BY <1>1, <1>2 DEF CardType
    <2> HIDE DEF read
    <2>4. /\ new \in CardType /\ new.open /\ new.edit = "read" /\ new.name = card[s].name
          /\ new.asof = card[s].asof /\ new.json = card[s].json
          /\ new.draft => kind \notin {"kv", "cnn"}
      BY <2>1, <2>3 DEF CardType, Undrafted
    <2>5. CASE kind = "cnn"
      <3>1. reqs' = reqs
        BY <1>6, <2>5 DEF Cancel
      <3> QED BY <3>1, <2>1, <2>2, <2>4, <2>5, <1>1, <1>3, QuietCard
    <2>6. CASE kind # "cnn"
      <3>1. Fetch(s)
        BY <1>6, <2>6 DEF Cancel
      <3> QED BY <3>1, <2>1, <2>2, <2>4, <2>6, <1>1, <1>3, AskingCard
    <2> QED BY <2>5, <2>6
  <1>7. CASE Save(s)
    <2> DEFINE new == [card[s] EXCEPT !.busy = (kind = "cnn")]
    <2>1. Set(s, new)
      BY <1>7 DEF Save
    <2>2. /\ new \in CardType /\ new.open /\ new.edit = card[s].edit /\ new.name = card[s].name
          /\ new.asof = card[s].asof /\ new.json = card[s].json /\ new.edit # "read"
      BY <1>1, <1>2, <1>7 DEF CardType, Save
    <2> HIDE DEF new
    <2>3. card'[s].open
      BY <2>1, <2>2, <1>1, SetCard
    <2>4. \E op \in {"create", "save"}, n \in Names : Send(op, s, n)
      BY <1>3, <1>7 DEF Save
    <2>5. \E q : Sent(reqs, q) /\ reqs' = reqs \cup {q}
      BY <2>3, <2>4, ChangeSends
    <2> QED BY <1>1, <1>3, <2>1, <2>2, <2>5, QuietCard
  <1>8. CASE (JsonConfig(s) /\ kind \notin {"kv", "cnn"}) \/ Child(s)
    <2>1. PICK j \in BOOLEAN : /\ Set(s, [card[s] EXCEPT !.json = j])
                               /\ j => kind \notin {"kv", "cnn"}
      <3>1. CASE JsonConfig(s) /\ kind \notin {"kv", "cnn"}
        <4>1. Set(s, [card[s] EXCEPT !.json = ~card[s].json]) /\ (~card[s].json) \in BOOLEAN
          BY <3>1, <1>2 DEF JsonConfig, CardType
        <4> QED BY <4>1, <3>1
      <3>2. CASE Child(s)
        BY <3>2 DEF Child
      <3> QED BY <3>1, <3>2, <1>8
    <2> DEFINE new == [card[s] EXCEPT !.json = j]
    <2>2. /\ new \in CardType /\ new.open /\ new.edit = card[s].edit /\ new.name = card[s].name
          /\ new.asof = card[s].asof /\ new.draft = card[s].draft /\ new.left = card[s].left
          /\ new.json = j
      BY <1>1, <1>2 DEF CardType
    <2>3. reqs' = reqs
      BY <1>8 DEF JsonConfig, Child
    <2>4. Set(s, new)
      BY <2>1
    <2> HIDE DEF new
    <2> QED BY <1>1, <1>3, <2>1, <2>2, <2>3, <2>4, QuietCard
  <1>9. CASE Pause(s) /\ kind = "consumer"
    <2>1. Set(s, card[s]) /\ card' = card /\ card[s].name \in Names
      BY <1>2, <1>3, <1>9 DEF Pause, Set
    <2>2. Send("pause", s, card[s].name) /\ card'[s].open
      BY <1>1, <1>9, <2>1 DEF Pause
    <2>3. PICK n \in Names : Send("pause", s, n)
      BY <2>1, <2>2
    <2>4. \E q : Sent(reqs, q) /\ reqs' = reqs \cup {q}
      BY <1>9, <2>2, <2>3, ChangeSends
    <2> QED BY <1>1, <1>2, <1>3, <2>1, <2>4, QuietCard
  <1>10. CASE TypeTtl(s)
    <2> DEFINE new == [card[s] EXCEPT !.ttl = TRUE]
    <2>1. Set(s, new) /\ reqs' = reqs /\ card[s].edit # "read"
      BY <1>10 DEF TypeTtl
    <2>2. /\ new \in CardType /\ new.open /\ new.edit = card[s].edit /\ new.name = card[s].name
          /\ new.asof = card[s].asof /\ new.json = card[s].json
      BY <1>1, <1>2 DEF CardType
    <2> HIDE DEF new
    <2> QED BY <1>1, <1>3, <2>1, <2>2, QuietCard
  <1>11. CASE kind = "kv" /\ (OpenHistory(s) \/ CloseHistory(s) \/ PickRevision(s))
    <2>1. PICK new : /\ new \in {[card[s] EXCEPT !.history = TRUE], [card[s] EXCEPT !.history = FALSE],
                                [card[s] EXCEPT !.draft = FALSE, !.history = FALSE]}
                     /\ Set(s, new)
      BY <1>11 DEF OpenHistory, CloseHistory, PickRevision
    <2>2. /\ new \in CardType /\ new.open /\ new.edit = card[s].edit /\ new.name = card[s].name
          /\ new.asof = card[s].asof /\ new.json = card[s].json /\ (new.draft => card[s].draft)
      BY <1>1, <1>2, <2>1 DEF CardType
    <2>3. reqs' = reqs
      BY <1>11 DEF OpenHistory, CloseHistory, PickRevision
    <2>4. new.edit = "read" => ~new.draft
      BY <1>3, <1>11, <2>2
    <2> QED BY <1>1, <1>3, <1>11, <2>1, <2>2, <2>3, <2>4, QuietCard
  <1>12. CASE SaveRefused(s)
    <2>1. Set(s, card[s]) /\ reqs' = reqs
      BY <1>2, <1>12 DEF SaveRefused, Set
    <2> QED BY <1>1, <1>2, <1>3, <2>1, QuietCard
  <1> QED BY <1>4, <1>5, <1>6, <1>7, <1>8, <1>9, <1>10, <1>11, <1>12
       DEF Actions, StreamActions, BucketActions, KvActions, ConsumerActions, CnnActions, Type

LEMMA ApplyKeeps ==
  ASSUME EntityInv, NEW s \in Slots, JsonApply(s)
  PROVE  EntityInv'
  <1> DEFINE new == [card[s] EXCEPT !.json = FALSE, !.draft = TRUE,
                                    !.left = @ \/ card[s].edit = "read"]
  <1>1. /\ card[s].open /\ card[s].json /\ Set(s, new) /\ reqs' = reqs
        /\ UNCHANGED <<kind, server, clock, cList, ask, stale>>
    BY DEF JsonApply
  <1>2. card[s] \in CardType
    BY DEF EntityInv, ScreenInv, CardsInv
  <1>3. /\ new \in CardType /\ new.open /\ new.edit = card[s].edit /\ new.name = card[s].name
        /\ new.asof = card[s].asof /\ new.left = (card[s].left \/ card[s].edit = "read")
    BY <1>1, <1>2 DEF CardType
  <1>4. kind \notin {"kv", "cnn"} /\ (card[s].edit # "new" => card[s].name \in Names)
    BY <1>1 DEF EntityInv, DraftInv, ScreenInv, CardsInv
  <1> HIDE DEF new
  <1> QED BY <1>1, <1>3, <1>4, QuietCard

-----------------------------------------------------------------------------
(* Cards that open and close. *)

\* What a card is that shows no draft in READ, or one that stays.
Clean(c) ==
  /\ c.edit = "read" /\ c.draft => c.left
  /\ kind \in {"kv", "cnn"} => ~c.json /\ (c.edit = "read" => ~c.draft)

LEMMA DraftStays ==
  ASSUME EntityInv, kind' = kind,
         \A s \in Slots :
           \/ Clean(card'[s])
           \/ card'[s] = card[s] /\ \A r \in reqs : r.op = "get" /\ r.slot = s => r \in reqs'
  PROVE  DraftInv'
  <1>1. ASSUME NEW s \in Slots, card'[s].edit = "read", card'[s].draft
        PROVE  card'[s].left \/ \E r \in reqs' : r.op = "get" /\ r.slot = s
    BY <1>1 DEF EntityInv, DraftInv, NoDraftInRead, Clean
  <1>2. ASSUME NEW s \in Slots, kind \in {"kv", "cnn"}
        PROVE  ~card'[s].json /\ (card'[s].edit = "read" => ~card'[s].draft)
    BY <1>2 DEF EntityInv, DraftInv, Clean
  <1> QED BY <1>1, <1>2 DEF DraftInv, NoDraftInRead

LEMMA NoCardFacts ==
  NoCard \in CardType /\ ~NoCard.open /\ NoCard.asof = 0 /\ Clean(NoCard)
  BY EntityAssumption DEF NoCard, CardType, Clean, NameOrNone, Values

\* A card is put in the place of another, or closes, and its requests are orphaned.
LEMMA PlacedCard ==
  ASSUME EntityInv, UNCHANGED <<kind, server, clock, ask, stale>>,
         cList'.set = cList.set, cList'.rows = cList.rows, cList'.asof = cList.asof,
         cList' \in ListType, AskInv',
         NEW s \in Slots, NEW new \in CardType, card' = [card EXCEPT ![s] = new],
         new = NoCard \/ (new.open /\ (new.edit # "new" => new.name \in Names)),
         new.asof = 0, Clean(new), reqs' = Orphaned({s})
  PROVE  EntityInv'
  <1>1. /\ card \in [Slots -> CardType] /\ card'[s] = new
        /\ \A t \in Slots \ {s} : card'[t] = card[t]
    BY DEF EntityInv, ScreenInv, CardsInv
  <1>2. ScreenInv'
    BY <1>1, NoCardFacts DEF EntityInv, ScreenInv, CardsInv
  <1> DEFINE R == Orphaned({s})
  <1>3. /\ Kept(R) /\ \A q \in R : q.slot # s
        /\ Tells(R, {}) /\ \A r \in reqs : r.slot # s => r \in R
    BY OrphanedAreKept
  <1> HIDE DEF R
  <1>4. reqs' = R
    BY DEF R
  <1>5. Fits(R)
    <2>1. \A r \in R : r.slot \in Slots => r \in reqs
      BY <1>3, KeptRequests
    <2>2. \A t \in Slots : card'[t].open \/ \A r \in R : r.slot # t
      BY <1>1, <1>3, <2>1 DEF EntityInv, Newest
    <2>3. 0 <= clock
      BY EntityAssumption DEF EntityInv, ServerInv, Values
    <2> QED BY <1>1, <1>3, <2>2, <2>3 DEF Fits, EntityInv, Newest
  <1>6. RequestInv' /\ Newest' /\ ServerInv'
    BY <1>3, <1>4, <1>5, RequestsStay
  <1>7. ListFollows'
    BY <1>3, <1>4, ListStays
  <1>8. DraftInv'
    BY <1>1, <1>3, <1>4, DraftStays
  <1> QED BY <1>2, <1>6, <1>7, <1>8 DEF EntityInv

LEMMA CloseKeeps ==
  ASSUME EntityInv, NEW s \in Slots, CloseCard(s)
  PROVE  EntityInv'
  <1>1. /\ card' = [card EXCEPT ![s] = NoCard] /\ reqs' = Orphaned({s})
        /\ UNCHANGED <<kind, server, clock, cList, ask, stale>>
    BY DEF CloseCard, Set
  <1>2. AskInv' /\ cList' \in ListType
    BY <1>1 DEF AskInv, EntityInv, ScreenInv
  <1> QED BY <1>1, <1>2, NoCardFacts, PlacedCard

LEMMA LinkKeeps ==
  ASSUME EntityInv, UNCHANGED <<kind, server, clock, ask, stale>>, ask.op = "none",
         NEW select \in NameOrNone, NEW view \in CardType, Link(view, select),
         view = NoCard \/ (view.open /\ (view.edit # "new" => view.name \in Names)),
         view.asof = 0, Clean(view)
  PROVE  EntityInv'
  <1>1. /\ card' = [card EXCEPT !["linked"] = view] /\ cList' = [cList EXCEPT !.select = select]
        /\ reqs' = Orphaned({"linked"})
    BY DEF Link
  <1>2. cList \in ListType
    BY DEF EntityInv, ScreenInv
  <1>3. /\ cList'.set = cList.set /\ cList'.rows = cList.rows /\ cList'.asof = cList.asof
        /\ cList' \in ListType
    BY <1>1, <1>2 DEF ListType
  <1>4. AskInv' /\ "linked" \in Slots
    BY DEF AskInv, Slots
  <1> QED BY <1>1, <1>3, <1>4, PlacedCard

LEMMA SelectKeeps ==
  ASSUME EntityInv, NEW n \in Names, Select(n)
  PROVE  EntityInv'
  <1> DEFINE view == [NoCard EXCEPT !.open = TRUE, !.name = n]
  <1>1. /\ UNCHANGED <<kind, server, clock, ask, stale>> /\ ask.op = "none"
        /\ Link(NoCard, NoName) \/ Link(view, n)
    BY DEF Select
  <1>2. NoCard \in CardType
    BY NoCardFacts
  <1>3. /\ view \in CardType /\ view.open /\ view.name \in Names /\ view.asof = 0
        /\ n \in NameOrNone /\ NoName \in NameOrNone
    BY <1>2 DEF NoCard, CardType, NameOrNone
  <1>4. Clean(view)
    BY <1>2 DEF NoCard, CardType, Clean
  <1> HIDE DEF view
  <1>5. CASE Link(NoCard, NoName)
    BY <1>1, <1>3, <1>5, NoCardFacts, LinkKeeps
  <1>6. CASE Link(view, n)
    BY <1>1, <1>3, <1>4, <1>6, LinkKeeps
  <1> QED BY <1>1, <1>5, <1>6

LEMMA CreateKeeps ==
  ASSUME EntityInv, Create, UNCHANGED <<kind, server, clock, ask, stale>>
  PROVE  EntityInv'
  <1> DEFINE view == [NoCard EXCEPT !.open = TRUE, !.edit = "new", !.draft = TRUE]
  <1>1. Link(view, NoName) /\ ask.op = "none"
    BY DEF Create
  <1>2. NoCard \in CardType
    BY NoCardFacts
  <1>3. /\ view \in CardType /\ view.open /\ view.edit = "new" /\ view.asof = 0
        /\ NoName \in NameOrNone
    BY <1>2 DEF NoCard, CardType, NameOrNone
  <1>4. Clean(view)
    BY <1>2 DEF NoCard, CardType, Clean
  <1> HIDE DEF view
  <1> QED BY <1>1, <1>3, <1>4, LinkKeeps

-----------------------------------------------------------------------------
(* The list and the alert. *)

LEMMA AbortedFacts ==
  ASSUME EntityInv, NEW l \in AbortedList
  PROVE  /\ l \in ListType /\ l.asof = cList.asof /\ l.select = cList.select
         /\ l.set => cList.set /\ l.rows = cList.rows
  <1>1. cList \in ListType /\ [n \in Names |-> 0] \in [Names -> Values]
    BY EntityAssumption DEF EntityInv, ScreenInv, Values
  <1>2. l = cList \/ l = [cList EXCEPT !.set = FALSE, !.rows = [n \in Names |-> 0]]
    BY DEF AbortedList
  <1>3. CASE l = cList
    BY <1>1, <1>3
  <1>4. CASE l = [cList EXCEPT !.set = FALSE, !.rows = [n \in Names |-> 0]]
    <2> DEFINE none == [n \in Names |-> 0]
    <2> HIDE DEF none
    <2> QED BY <1>1, <1>4 DEF ListType
  <1> QED BY <1>2, <1>3, <1>4

\* The list is asked for beside R, in which it is not asked for.
LEMMA ListSent ==
  ASSUME NEW R \in SUBSET RequestType, \A p, r \in R : p.id = r.id => p = r,
         kind # "cnn" => \A r \in R : r.op # "list", Post(R, "list", "list", NoName)
  PROVE  \E q : Sent(R, q) /\ reqs' = R \cup {q}
  <1> DEFINE q == Request(R, "list", "list", NoName, NoName, FALSE)
  <1>1. Cardinality(R) < MaxReqs /\ reqs' = R \cup {q}
    BY DEF Post
  <1>2. q.op = "list" /\ q.slot = "list" /\ ~q.served
    BY DEF Request
  <1>3. q \in RequestType /\ \A r \in R : r.id # q.id
    <2>1. /\ "list" \in Ops /\ "list" \in Slots \cup {"list", "gone"} /\ NoName \in NameOrNone
          /\ FALSE \in BOOLEAN
      BY DEF Ops, NameOrNone
    <2> QED BY <1>1, <2>1, RequestFacts
  <1> HIDE DEF q
  <1>4. Placed(q)
    BY <1>2 DEF Placed, Slots, OfList
  <1> QED BY <1>1, <1>2, <1>3, <1>4 DEF Sent, Slots

LEMMA ListMountKeeps ==
  ASSUME EntityInv, ListMount
  PROVE  EntityInv'
  <1>1. cList' \in AbortedList /\ UNCHANGED <<kind, server, clock, card, ask, stale>>
    BY DEF ListMount
  <1> DEFINE old == {r \in reqs : ~(r.op = "list" /\ r.slot = "list")}
  <1>2. PICK R \in SUBSET reqs : /\ Post(R, "list", "list", NoName)
                                 /\ R \in {reqs, old} /\ (kind # "cnn" => R = old)
    BY DEF ListMount, ListFetch, SendManaged, Send
  <1>3. R \in SUBSET RequestType /\ \A p, r \in R : p.id = r.id => p = r
    BY <1>2 DEF EntityInv, RequestInv
  <1>4. kind # "cnn" => \A r \in R : r.op # "list"
    BY <1>2 DEF EntityInv, RequestInv, Placed, OfList
  <1>5. \E q : Sent(R, q) /\ reqs' = R \cup {q}
    BY <1>2, <1>3, <1>4, ListSent
  <1>6. Kept(R)
    BY SomeAreKept
  <1>7. /\ cList' \in ListType /\ cList'.asof = cList.asof /\ cList'.select = cList.select
        /\ cList'.set => cList.set /\ cList'.rows = cList.rows
    BY <1>1, AbortedFacts
  <1>8. Fits(R)
    BY <1>1, <1>7 DEF Fits, EntityInv, Newest
  <1>9. RequestInv' /\ Newest' /\ ServerInv'
    BY <1>1, <1>5, <1>6, <1>8, RequestsStay
  <1>10. ListFollows'
    <2>1. Tells(R, {r \in reqs : r.op \in Reads})
      BY <1>2 DEF Tells, Reads
    <2>2. R \subseteq reqs'
      BY <1>5
    <2> QED BY <1>1, <1>7, <2>1, <2>2, ListStays
  <1>11. DraftInv'
    <2>1. \A r \in reqs : r.op = "get" => r \in reqs'
      BY <1>2, <1>5
    <2> QED BY <1>1, <2>1, DraftStays
  <1>12. ScreenInv' /\ AskInv'
    BY <1>1, <1>7 DEF EntityInv, ScreenInv, CardsInv, AskInv
  <1> QED BY <1>9, <1>10, <1>11, <1>12 DEF EntityInv

\* The alert opens or goes.
LEMMA AlertKeeps ==
  ASSUME EntityInv, UNCHANGED <<kind, server, clock, cList, card, reqs, stale>>,
         ask' \in AskType, ask'.op # "none" => ask'.name \in Names, AskInv'
  PROVE  EntityInv'
  <1>1. ScreenInv' /\ ServerInv' /\ ListFollows' /\ DraftInv'
    BY DEF EntityInv, ScreenInv, CardsInv, ServerInv, ListFollows, Changing, DraftInv,
       NoDraftInRead
  <1>2. \A r : (Placed(r) => Placed(r)') /\ (Answered(r) => Answered(r)')
    BY DEF Placed, Answered
  <1>3. RequestInv'
    BY <1>2 DEF EntityInv, RequestInv
  <1>4. Newest'
    BY DEF EntityInv, Newest
  <1> QED BY <1>1, <1>3, <1>4 DEF EntityInv

LEMMA AskKeeps ==
  ASSUME EntityInv, UNCHANGED <<kind, server, clock, cList, card, reqs, stale>>,
         \/ AskCancel
         \/ \E op \in {"delete", "purge"} : AskConfirm(op, cList.select)
         \/ AskConfirm("delete", card["linked"].name) /\ kind = "cnn"
  PROVE  EntityInv'
  <1>1. NoAsk \in AskType /\ NoAsk.op = "none"
    BY DEF NoAsk, AskType, NameOrNone
  <1>2. cList.select \in NameOrNone /\ card["linked"].name \in NameOrNone
    BY DEF EntityInv, ScreenInv, CardsInv, ListType, CardType, Slots
  <1>3. CASE AskCancel
    <2>1. ask' \in AskType /\ ask'.op = "none"
      BY <1>1, <1>3 DEF AskCancel
    <2>2. AskInv'
      BY <2>1 DEF AskInv
    <2> QED BY <2>1, <2>2, AlertKeeps
  <1>4. ASSUME NEW op \in {"delete", "purge"}, NEW chosen \in {cList.select, card["linked"].name},
               AskConfirm(op, chosen), chosen = cList.select \/ kind = "cnn"
        PROVE  EntityInv'
    <2>1. ask' = [op |-> op, name |-> chosen, swapped |-> FALSE] /\ chosen \in Names
      BY <1>2, <1>4 DEF AskConfirm, NameOrNone
    <2>2. ask' \in AskType /\ ask'.name = chosen
      BY <2>1 DEF AskType, NameOrNone
    <2>3. AskInv'
      BY <1>4, <2>2 DEF AskInv
    <2> QED BY <2>1, <2>2, <2>3, AlertKeeps
  <1> QED BY <1>3, <1>4

\* What is confirmed is sent.
LEMMA ConfirmedSent ==
  ASSUME EntityInv, NEW R, Kept(R), ask.op # "none", NEW name \in Names,
         name = ask.name \/ ask.swapped, SendConfirmed(R, name)
  PROVE  \E q : Sent(R, q) /\ reqs' = R \cup {q}
  <1> DEFINE q == Request(R, ask.op, "list", name, ask.name, ask.swapped)
  <1>1. Cardinality(R) < MaxReqs /\ reqs' = R \cup {q}
    BY DEF SendConfirmed
  <1>2. /\ q.op = ask.op /\ q.slot = "list" /\ q.name = name /\ q.asked = ask.name
        /\ ~q.served /\ q.swapped = ask.swapped
    BY DEF Request
  <1>3. ask.op \in {"delete", "purge"} /\ ask.name \in Names /\ ask.swapped \in BOOLEAN
    BY DEF EntityInv, ScreenInv, AskType
  <1>4. R \in SUBSET RequestType /\ \A p, r \in R : p.id = r.id => p = r
    BY KeptRequests
  <1>5. q \in RequestType /\ \A r \in R : r.id # q.id
    <2>1. ask.op \in Ops /\ "list" \in Slots \cup {"list", "gone"} /\ name \in NameOrNone
          /\ ask.name \in NameOrNone
      BY <1>3 DEF Ops, NameOrNone
    <2> QED BY <1>1, <1>3, <1>4, <2>1, RequestFacts
  <1> HIDE DEF q
  <1>6. Placed(q)
    BY <1>2, <1>3 DEF Placed, Slots, OfList
  <1> QED BY <1>1, <1>2, <1>3, <1>5, <1>6 DEF Sent, Slots

LEMMA ConfirmKeeps ==
  ASSUME EntityInv, Confirm
  PROVE  EntityInv'
  <1>1. ask' = NoAsk /\ UNCHANGED <<kind, server, clock, stale>> /\ ask.op # "none"
    BY DEF Confirm, ConfirmCnn, ConfirmOthers
  <1>2. ask' \in AskType /\ ask'.op = "none"
    BY <1>1 DEF NoAsk, AskType, NameOrNone
  <1>3. AskInv'
    BY <1>2 DEF AskInv
  <1>4. cList \in ListType /\ card \in [Slots -> CardType] /\ ask.name \in Names
    BY <1>1 DEF EntityInv, ScreenInv, CardsInv
  <1>5. CASE ConfirmCnn
    <2> DEFINE R == Orphaned({"linked"})
    <2>1. /\ cList' = [cList EXCEPT !.select = NoName] /\ card' = [card EXCEPT !["linked"] = NoCard]
          /\ SendConfirmed(R, ask.name) /\ kind = "cnn"
      BY <1>5 DEF ConfirmCnn
    <2>2. {"linked"} \in SUBSET Slots
      BY DEF Slots
    <2>3. /\ Kept(R) /\ \A q \in R : q.slot # "linked"
          /\ Tells(R, {}) /\ \A r \in reqs : r.slot # "linked" => r \in R
      BY <2>2, OrphanedAreKept
    <2> HIDE DEF R
    <2>4. \E q : Sent(R, q) /\ reqs' = R \cup {q}
      BY <1>1, <1>4, <2>1, <2>3, ConfirmedSent
    <2>5. /\ cList'.set = cList.set /\ cList'.rows = cList.rows /\ cList'.asof = cList.asof
          /\ cList' \in ListType
      BY <1>4, <2>1 DEF ListType, NameOrNone
    <2>6. card'["linked"] = NoCard /\ \A t \in Slots : t # "linked" => card'[t] = card[t]
      BY <1>4, <2>1 DEF Slots
    <2>7. Fits(R)
      <3>1. \A r \in R : r.slot \in Slots => r \in reqs
        BY <2>3, KeptRequests
      <3>2. \A t \in Slots : card'[t].open \/ \A r \in R : r.slot # t
        BY <2>3, <2>6, <3>1 DEF EntityInv, Newest
      <3>3. 0 <= clock
        BY EntityAssumption DEF EntityInv, ServerInv, Values
      <3> QED BY <2>1, <2>3, <2>5, <2>6, <3>2, <3>3, NoCardFacts DEF Fits, EntityInv, Newest
    <2>8. RequestInv' /\ Newest' /\ ServerInv'
      BY <1>1, <2>3, <2>4, <2>7, RequestsStay
    <2>9. ListFollows'
      <3>1. R \subseteq reqs'
        BY <2>4
      <3> QED BY <1>1, <2>3, <2>5, <3>1, ListStays
    <2>10. DraftInv'
      <3>1. \A r \in reqs : r.slot # "linked" => r \in reqs'
        BY <2>3, <2>4
      <3> QED BY <1>1, <2>6, <3>1, NoCardFacts, DraftStays
    <2>11. ScreenInv'
      BY <1>1, <1>2, <2>1, <2>5, <2>6, NoCardFacts DEF EntityInv, ScreenInv, CardsInv, Slots
    <2> QED BY <1>3, <2>8, <2>9, <2>10, <2>11 DEF EntityInv
  <1>6. CASE ConfirmOthers
    <2>1. cList' = cList /\ card' = card /\ kind # "cnn"
      BY <1>6 DEF ConfirmOthers
    <2>2. Kept(reqs)
      BY SomeAreKept
    <2>3. reqs' = reqs \/ \E q : Sent(reqs, q) /\ reqs' = reqs \cup {q}
      <3>1. CASE cList.select = NoName
        BY <1>6, <3>1 DEF ConfirmOthers
      <3>2. CASE cList.select # NoName
        <4>1. SendConfirmed(reqs, cList.select) /\ cList.select \in Names
          BY <1>4, <1>6, <3>2 DEF ConfirmOthers, ListType, NameOrNone
        <4>2. cList.select = ask.name \/ ask.swapped
          BY <1>1, <2>1, <3>2 DEF EntityInv, AskInv
        <4> QED BY <1>1, <2>2, <4>1, <4>2, ConfirmedSent
      <3> QED BY <3>1, <3>2
    <2>4. Fits(reqs)
      BY <2>1 DEF Fits, EntityInv, Newest
    <2>5. RequestInv' /\ Newest' /\ ServerInv'
      BY <1>1, <2>2, <2>3, <2>4, RequestsStay
    <2>6. ListFollows'
      <3>1. reqs \subseteq reqs' /\ Tells(reqs, {})
        BY <2>3 DEF Tells
      <3> QED BY <1>1, <2>1, <3>1, ListStays
    <2>7. DraftInv'
      BY <1>1, <2>1, <2>3, DraftStays
    <2>8. ScreenInv'
      BY <1>1, <1>2, <2>1 DEF EntityInv, ScreenInv, CardsInv
    <2> QED BY <1>3, <2>5, <2>6, <2>7, <2>8 DEF EntityInv
  <1> QED BY <1>5, <1>6 DEF Confirm

-----------------------------------------------------------------------------
(* The answers. *)

\* The list is told what became of a name.
LEMMA RowTold ==
  ASSUME EntityInv, server' = server, NEW r \in reqs, r.served, r.op \notin Reads,
         cList.set, cList'.rows = [cList.rows EXCEPT ![r.name] = r.val],
         stale' = IF r.name \in r.old THEN stale \cup {r.name} ELSE stale \ {r.name},
         NEW R, Tells(R, {r}), R \subseteq reqs'
  PROVE  ListFollows'
  <1> SUFFICES ASSUME NEW n \in Names \ stale'
               PROVE  Changing(n)' \/ cList'.rows[n] = server'[n]
    BY DEF ListFollows
  <1>1. cList.rows \in [Names -> Values] /\ (r.name \notin r.old => r.val = server[r.name])
    BY DEF EntityInv, ScreenInv, ListType, RequestInv, Answered
  <1>2. CASE n = r.name
    BY <1>1, <1>2
  <1>3. CASE n # r.name
    <2>1. n \notin stale /\ cList'.rows[n] = cList.rows[n]
      BY <1>1, <1>3
    <2>2. Changing(n) \/ cList.rows[n] = server[n]
      BY <2>1 DEF EntityInv, ListFollows
    <2>3. ASSUME Changing(n)
          PROVE  Changing(n)'
      <3>1. PICK q \in reqs : q.served /\ q.name = n /\ q.op \notin {"list", "get"}
        BY <2>3 DEF Changing
      <3>2. PICK p \in R : p.op \notin Reads /\ p.served /\ p.name = q.name
        BY <1>3, <3>1 DEF Tells, Reads
      <3> QED BY <3>1, <3>2 DEF Changing, Reads
    <2> QED BY <2>1, <2>2, <2>3
  <1> QED BY <1>2, <1>3

LEMMA AnswerFacts ==
  ASSUME EntityInv, NEW r \in reqs
  PROVE  /\ r \in RequestType /\ Placed(r) /\ (r.served => Answered(r))
         /\ r.slot \in Slots => card[r.slot].open
         /\ Kept(reqs \ {r}) /\ Tells(reqs \ {r}, {r})
  BY SomeAreKept DEF EntityInv, RequestInv, Newest, Tells

LEMMA ListAnswerKeeps ==
  ASSUME EntityInv, NEW r \in reqs, ListAnswer(r)
  PROVE  EntityInv'
  <1>1. /\ r.op = "list" /\ r.served /\ reqs' = reqs \ {r} /\ stale' = r.old
        /\ cList' = [cList EXCEPT !.set = TRUE, !.rows = r.rows, !.asof = r.asof]
        /\ UNCHANGED <<kind, server, clock, card, ask>>
    BY DEF ListAnswer
  <1>2. /\ r.old \in SUBSET Names /\ r.asof \in Values /\ r.rows \in [Names -> Values]
        /\ r.asof <= clock /\ \A n \in Names \ r.old : r.rows[n] = server[n]
    BY <1>1, AnswerFacts DEF RequestType, Answered
  <1>3. cList \in ListType
    BY DEF EntityInv, ScreenInv
  <1>4. /\ cList' \in ListType /\ cList'.asof = r.asof /\ cList'.rows = r.rows
        /\ cList'.select = cList.select
    BY <1>1, <1>2, <1>3 DEF ListType
  <1>5. ListFollows'
    BY <1>1, <1>2, <1>4 DEF ListFollows
  <1>6. Fits(reqs \ {r})
    BY <1>1, <1>2, <1>4 DEF Fits, EntityInv, Newest
  <1>7. RequestInv' /\ Newest' /\ ServerInv'
    BY <1>1, <1>6, AnswerFacts, RequestsStay
  <1>8. DraftInv'
    BY <1>1, DraftStays
  <1>9. ScreenInv' /\ AskInv'
    BY <1>1, <1>2, <1>4 DEF EntityInv, ScreenInv, CardsInv, AskInv
  <1> QED BY <1>5, <1>7, <1>8, <1>9 DEF EntityInv

LEMMA FailureKeeps ==
  ASSUME EntityInv, NEW r \in reqs, RequestFails(r)
  PROVE  EntityInv'
  <1>1. /\ reqs' = reqs \ {r} /\ UNCHANGED <<kind, server, clock, cList, ask>>
        /\ card' = IF r.op = "get" THEN [card EXCEPT ![r.slot].left = TRUE] ELSE card
        /\ stale \subseteq stale' /\ stale' \in SUBSET Names
        /\ r.op \in Reads \/ ~r.served \/ r.name \in stale'
    BY AnswerFacts DEF RequestFails, EntityInv, ScreenInv, Placed, Reads
  <1>2. /\ card \in [Slots -> CardType] /\ card' \in [Slots -> CardType]
        /\ r.op # "get" => card' = card
        /\ r.op = "get" => /\ r.slot \in Slots /\ card[r.slot].open
                           /\ card' = [card EXCEPT ![r.slot] = [card[r.slot] EXCEPT !.left = TRUE]]
    <2>1. card \in [Slots -> CardType] /\ (r.op = "get" => r.slot \in Slots /\ card[r.slot].open)
      BY AnswerFacts DEF EntityInv, ScreenInv, CardsInv, Placed
    <2>2. ASSUME NEW s \in Slots
          PROVE  [card[s] EXCEPT !.left = TRUE] \in CardType
      <3>1. card[s] \in CardType
        BY <2>1, <2>2
      <3> QED BY <3>1 DEF CardType
    <2> QED BY <1>1, <2>1, <2>2
  <1>3. \A s \in Slots : /\ card'[s].open = card[s].open /\ card'[s].asof = card[s].asof
                         /\ card'[s].edit = card[s].edit /\ card'[s].name = card[s].name
                         /\ card'[s].draft = card[s].draft /\ card'[s].json = card[s].json
                         /\ \/ card'[s] = card[s]
                            \/ card'[s].left /\ card[s].open /\ r.op = "get" /\ s = r.slot
    BY <1>2 DEF CardType
  <1>4. ScreenInv'
    BY <1>1, <1>2, <1>3 DEF EntityInv, ScreenInv, CardsInv
  <1>5. Fits(reqs \ {r})
    <2>1. \A t \in Slots : card'[t].open \/ \A q \in reqs : q.slot # t
      BY <1>3 DEF EntityInv, Newest
    <2> QED BY <1>1, <1>3, <2>1 DEF Fits, EntityInv, Newest
  <1>6. RequestInv' /\ Newest' /\ ServerInv'
    BY <1>1, <1>5, AnswerFacts, RequestsStay
  <1>7. ListFollows'
    <2>1. \A q \in {r} : q.op \in Reads \/ ~q.served \/ q.name \in stale'
      BY <1>1
    <2>2. server' = server /\ (cList'.set => cList.set /\ cList'.rows = cList.rows)
      BY <1>1
    <2> QED BY <1>1, <2>1, <2>2, AnswerFacts, ListStays
  <1>8. DraftInv'
    <2>1. ASSUME NEW s \in Slots
          PROVE  \/ Clean(card'[s])
                 \/ card'[s] = card[s] /\ \A q \in reqs : q.op = "get" /\ q.slot = s => q \in reqs'
      <3>1. kind \in {"kv", "cnn"} => ~card'[s].json /\ (card'[s].edit = "read" => ~card'[s].draft)
        BY <1>3 DEF EntityInv, DraftInv
      <3>2. CASE card'[s].left
        BY <3>1, <3>2 DEF Clean
      <3>3. CASE ~card'[s].left
        <4>1. card'[s] = card[s] /\ (r.op = "get" => s # r.slot)
          <5>1. card'[s] = card[s]
            BY <1>3, <3>3
          <5>2. ASSUME r.op = "get", s = r.slot
                PROVE  FALSE
            BY <1>2, <3>3, <5>2 DEF CardType
          <5> QED BY <5>1, <5>2
        <4> QED BY <1>1, <4>1
      <3> QED BY <3>2, <3>3
    <2> QED BY <1>1, <2>1, DraftStays
  <1>9. AskInv'
    BY <1>1 DEF EntityInv, AskInv
  <1> QED BY <1>4, <1>6, <1>7, <1>8, <1>9 DEF EntityInv

\* What an answer does to the card that asked for it.
LEMMA CardAnswered ==
  ASSUME EntityInv, UNCHANGED <<kind, server, clock>>, NEW r \in reqs, r.slot \in Slots,
         NEW new \in CardType, card' = [card EXCEPT ![r.slot] = new],
         new.open, new.edit # "new" => new.name \in Names, Clean(new), new.asof <= clock,
         new.asof = card[r.slot].asof \/ kind = "bucket" \/ r.op = "get"
  PROVE  /\ CardsInv' /\ \A s \in Slots : /\ card'[s].open = card[s].open /\ card'[s].asof <= clock
                                          /\ \/ card'[s].asof = card[s].asof \/ kind = "bucket"
                                             \/ r.op = "get" /\ r.slot = s
         /\ \A s \in Slots : s # r.slot => card'[s] = card[s]
         /\ card'[r.slot] = new
  <1>1. card \in [Slots -> CardType] /\ card[r.slot].open
    BY AnswerFacts DEF EntityInv, ScreenInv, CardsInv
  <1> QED BY <1>1 DEF EntityInv, ScreenInv, CardsInv, Newest

LEMMA GetAnswerKeeps ==
  ASSUME EntityInv, NEW r \in reqs, GetAnswer(r)
  PROVE  EntityInv'
  <1> DEFINE c == card[r.slot]
             new == [c EXCEPT !.asof = r.asof, !.draft = @ /\ kind = "kv", !.ttl = FALSE,
                              !.revs = (kind = "kv"), !.left = @ /\ kind = "kv"]
  <1>1. /\ r.op = "get" /\ r.served /\ reqs' = reqs \ {r} /\ card' = [card EXCEPT ![r.slot] = new]
        /\ UNCHANGED <<kind, server, clock, cList, ask, stale>>
    BY DEF GetAnswer, Set
  <1>2. r.slot \in Slots /\ kind # "cnn" /\ r.asof \in Values /\ r.asof <= clock /\ c.open
    BY <1>1, AnswerFacts DEF Placed, Answered, RequestType
  <1>3. /\ c \in CardType /\ (c.edit # "new" => c.name \in Names)
        /\ kind = "kv" => ~c.json /\ (c.edit = "read" => ~c.draft)
    BY <1>2 DEF EntityInv, ScreenInv, CardsInv, DraftInv
  <1>4. /\ new \in CardType /\ new.open /\ new.edit = c.edit /\ new.name = c.name
        /\ new.json = c.json /\ new.asof = r.asof /\ (new.draft => c.draft /\ kind = "kv")
    BY <1>2, <1>3 DEF CardType
  <1>5. Clean(new)
    BY <1>2, <1>3, <1>4 DEF Clean
  <1> HIDE DEF c, new
  <1>6. /\ CardsInv' /\ \A s \in Slots : /\ card'[s].open = card[s].open /\ card'[s].asof <= clock
                                         /\ \/ card'[s].asof = card[s].asof \/ kind = "bucket"
                                            \/ r.op = "get" /\ r.slot = s
        /\ \A s \in Slots : s # r.slot => card'[s] = card[s]
        /\ card'[r.slot] = new
    <2>1. new.edit # "new" => new.name \in Names
      BY <1>3, <1>4
    <2>2. new.asof <= clock
      BY <1>2, <1>4
    <2> QED BY <1>1, <1>2, <1>4, <1>5, <2>1, <2>2, CardAnswered
  <1>7. Fits(reqs \ {r})
    <2>1. \A t \in Slots : card'[t].open \/ \A q \in reqs : q.slot # t
      BY <1>6 DEF EntityInv, Newest
    <2> QED BY <1>1, <1>6, <2>1 DEF Fits, EntityInv, Newest
  <1>8. RequestInv' /\ Newest' /\ ServerInv'
    BY <1>1, <1>7, AnswerFacts, RequestsStay
  <1>9. ListFollows'
    BY <1>1, AnswerFacts, ListStays DEF Reads
  <1>10. DraftInv'
    BY <1>1, <1>5, <1>6, DraftStays
  <1>11. ScreenInv' /\ AskInv'
    BY <1>1, <1>6 DEF EntityInv, ScreenInv, AskInv
  <1> QED BY <1>8, <1>9, <1>10, <1>11 DEF EntityInv

\* A change is told of: the list takes it in, and the card that asked for it.
LEMMA ToldKeeps ==
  ASSUME EntityInv, UNCHANGED <<kind, server, clock>>, NEW r \in reqs, r.op \notin Reads,
         cList' \in ListType, cList'.asof = cList.asof,
         ask' \in AskType, ask'.op = ask.op, ask'.name = ask.name, AskInv',
         stale' \in SUBSET Names, ListFollows', CardsInv',
         \A s \in Slots : /\ card'[s].open \/ ~card[s].open
                          /\ card'[s].asof = card[s].asof
                          /\ Clean(card'[s]) \/ card'[s] = card[s],
         \/ reqs' = reqs \ {r}
         \/ \E R \in SUBSET (reqs \ {r}) :
              /\ \E q : Sent(R, q) /\ reqs' = R \cup {q}
              /\ \A p \in reqs \ {r} : p.op = "get" => p \in R
  PROVE  EntityInv'
  <1>1. PICK R \in SUBSET (reqs \ {r}) : /\ reqs' = R \/ \E q : Sent(R, q) /\ reqs' = R \cup {q}
                                         /\ \A p \in reqs \ {r} : p.op = "get" => p \in R
    OBVIOUS
  <1>2. Kept(R)
    BY <1>1, SomeAreKept
  <1>3. Fits(R)
    <2>1. \A t \in Slots : card'[t].open \/ \A q \in reqs : q.slot # t
      BY DEF EntityInv, Newest
    <2> QED BY <1>1, <2>1 DEF Fits, EntityInv, Newest
  <1>4. RequestInv' /\ Newest' /\ ServerInv'
    BY <1>1, <1>2, <1>3, RequestsStay
  <1>5. DraftInv'
    <2>1. \A p \in reqs : p.op = "get" => p \in reqs'
      BY <1>1 DEF Reads
    <2> QED BY <2>1, DraftStays
  <1>6. ScreenInv'
    BY DEF EntityInv, ScreenInv
  <1> QED BY <1>4, <1>5, <1>6 DEF EntityInv

LEMMA DeletedKeeps ==
  ASSUME EntityInv, NEW r \in reqs, Deleted(r)
  PROVE  EntityInv'
  <1>1. r.op = "delete" /\ r.served /\ UNCHANGED <<kind, server, clock, ask>>
    BY DEF Deleted
  <1>2. /\ r.val = 0 /\ r.name \in Names /\ r.slot = "list"
        /\ 0 \in Values /\ r.op \notin Reads /\ r.op # "list"
    <2>1. r.val = 0 /\ r.name \in Names /\ r.slot = "list" /\ r.op \notin Reads /\ r.op # "list"
      BY <1>1, AnswerFacts DEF Answered, Placed, OfList, Reads
    <2> QED BY <2>1, EntityAssumption DEF Values
  <1>3. cList \in ListType /\ stale \in SUBSET Names
    BY DEF EntityInv, ScreenInv
  <1>4. CASE ~cList.set
    <2>1. reqs' = reqs \ {r} /\ UNCHANGED <<cList, card, stale>>
      BY <1>4 DEF Deleted
    <2>2. ListFollows' /\ CardsInv' /\ AskInv'
      BY <1>1, <1>4, <2>1 DEF ListFollows, EntityInv, ScreenInv, CardsInv, AskInv
    <2>3. ask' \in AskType
      BY <1>1 DEF EntityInv, ScreenInv
    <2> QED BY <1>1, <1>2, <1>3, <2>1, <2>2, <2>3, ToldKeeps
  <1>5. CASE cList.set
    <2>1. /\ cList' = [cList EXCEPT !.rows[r.name] = 0,
                         !.select = IF kind = "cnn" THEN @ ELSE NoName]
          /\ card' = IF kind = "cnn" THEN card ELSE [s \in Slots |-> NoCard]
          /\ stale' = IF r.name \in r.old THEN stale \cup {r.name} ELSE stale \ {r.name}
          /\ reqs' = (IF kind = "cnn" THEN reqs ELSE Orphaned(Slots)) \ {r}
      BY <1>5 DEF Deleted
    <2>2. /\ cList' \in ListType /\ cList'.asof = cList.asof /\ cList'.set = cList.set
          /\ cList'.rows = [cList.rows EXCEPT ![r.name] = r.val]
          /\ cList'.select = IF kind = "cnn" THEN cList.select ELSE NoName
      BY <1>2, <1>3, <2>1 DEF ListType, NameOrNone
    <2>3. stale' \in SUBSET Names
      BY <1>2, <1>3, <2>1
    <2>4. AskInv'
      BY <1>1, <2>2 DEF EntityInv, AskInv
    <2>5. CASE kind = "cnn"
      <3>1. card' = card /\ reqs' = reqs \ {r}
        BY <2>1, <2>5
      <3>2. ListFollows'
        BY <1>1, <1>2, <1>5, <2>1, <2>2, <3>1, AnswerFacts, RowTold
      <3>3. CardsInv' /\ ask' \in AskType
        BY <1>1, <3>1 DEF EntityInv, ScreenInv, CardsInv
      <3> QED BY <1>1, <1>2, <2>2, <2>3, <2>4, <3>1, <3>2, <3>3, ToldKeeps
    <2>6. CASE kind # "cnn"
      <3> DEFINE R == Orphaned(Slots) \ {r}
      <3>1. card' = [s \in Slots |-> NoCard] /\ reqs' = R
        BY <2>1, <2>6
      <3>2. /\ Kept(Orphaned(Slots)) /\ \A q \in Orphaned(Slots) : q.slot \notin Slots
            /\ Tells(Orphaned(Slots), {})
            /\ \A q \in Orphaned(Slots) : q.op \in Reads => q \in reqs
        BY OrphanedAreKept
      <3>3. Kept(R) /\ \A q \in R : q.slot \notin Slots
        BY <3>2 DEF Kept
      <3>4. ListFollows'
        <4>1. Tells(R, {q \in reqs : q.name = r.name})
          BY <3>2 DEF Tells
        <4>2. \A n \in Names \ {r.name} : Changing(n) => Changing(n)'
          <5>1. ASSUME NEW n \in Names \ {r.name}, Changing(n)
                PROVE  Changing(n)'
            <6>1. PICK q \in reqs : q.served /\ q.name = n /\ q.op \notin {"list", "get"}
              BY <5>1 DEF Changing
            <6>2. PICK p \in R : p.op \notin Reads /\ p.served /\ p.name = q.name
              BY <4>1, <6>1 DEF Tells, Reads
            <6> QED BY <3>1, <6>1, <6>2 DEF Changing, Reads
          <5> QED BY <5>1
        <4>3. /\ r.name \notin r.old => r.val = server[r.name]
              /\ cList.rows \in [Names -> Values]
          BY <1>1, <1>2, <1>3, AnswerFacts DEF Answered, ListType
        <4>4. ASSUME NEW n \in Names \ stale'
              PROVE  Changing(n)' \/ cList'.rows[n] = server'[n]
          <5>1. CASE n = r.name
            BY <1>1, <2>1, <2>2, <4>3, <4>4, <5>1
          <5>2. CASE n # r.name
            BY <1>1, <1>5, <2>1, <2>2, <4>2, <4>3, <4>4, <5>2 DEF EntityInv, ListFollows
          <5> QED BY <5>1, <5>2
        <4> QED BY <4>4 DEF ListFollows
      <3>5. Fits(R)
        <4>1. 0 <= clock
          BY EntityAssumption DEF EntityInv, ServerInv, Values
        <4>2. \A s \in Slots : card'[s].asof = 0
          BY <3>1, NoCardFacts
        <4> QED BY <2>2, <3>3, <4>1, <4>2 DEF Fits, EntityInv, Newest
      <3> HIDE DEF R
      <3>6. RequestInv' /\ Newest' /\ ServerInv'
        BY <1>1, <3>1, <3>3, <3>5, RequestsStay
      <3>7. DraftInv'
        BY <1>1, <3>1, NoCardFacts, DraftStays
      <3>8. ScreenInv'
        BY <1>1, <2>2, <2>3, <3>1, NoCardFacts DEF EntityInv, ScreenInv, CardsInv
      <3> QED BY <2>4, <3>4, <3>6, <3>7, <3>8 DEF EntityInv
    <2> QED BY <2>5, <2>6
  <1> QED BY <1>4, <1>5

LEMMA PurgedKeeps ==
  ASSUME EntityInv, NEW r \in reqs, PurgedInPlace(r) \/ (PurgedEntry(r) /\ kind = "kv")
  PROVE  EntityInv'
  <1>1. /\ r.op = "purge" /\ r.served /\ reqs' = reqs \ {r}
        /\ UNCHANGED <<kind, server, clock, card, ask>>
    BY DEF PurgedInPlace, PurgedEntry
  <1>2. r.name \in Names /\ 0 \in Values /\ r.op \notin Reads
    <2>1. r.name \in Names /\ r.op \notin Reads
      BY <1>1, AnswerFacts DEF Placed, Reads
    <2> QED BY <2>1, EntityAssumption DEF Values
  <1>3. cList \in ListType /\ stale \in SUBSET Names /\ CardsInv' /\ ask' \in AskType
    BY <1>1 DEF EntityInv, ScreenInv, CardsInv
  <1>4. CASE cList' = cList /\ stale' = stale \cup {r.name}
    <2>1. ListFollows'
      <3>1. \A q \in {r} : q.op \in Reads \/ ~q.served \/ q.name \in stale'
        BY <1>4
      <3> QED BY <1>1, <1>4, <3>1, AnswerFacts, ListStays
    <2>2. AskInv' /\ stale' \in SUBSET Names
      BY <1>1, <1>2, <1>3, <1>4 DEF EntityInv, AskInv
    <2> QED BY <1>1, <1>2, <1>3, <1>4, <2>1, <2>2, ToldKeeps
  <1>5. CASE /\ cList.set /\ kind = "kv"
             /\ cList' = [cList EXCEPT !.rows[r.name] = 0, !.select = NoName]
             /\ stale' = IF r.name \in r.old THEN stale \cup {r.name} ELSE stale \ {r.name}
    <2>1. r.val = 0
      BY <1>1, <1>5, AnswerFacts DEF Answered
    <2>2. /\ cList' \in ListType /\ cList'.asof = cList.asof /\ cList'.set = cList.set
          /\ cList'.rows = [cList.rows EXCEPT ![r.name] = r.val] /\ cList'.select = NoName
      BY <1>2, <1>3, <1>5, <2>1 DEF ListType, NameOrNone
    <2>3. stale' \in SUBSET Names
      BY <1>2, <1>3, <1>5
    <2>4. AskInv'
      BY <2>2 DEF AskInv
    <2>5. ListFollows'
      BY <1>1, <1>2, <1>5, <2>2, AnswerFacts, RowTold
    <2> QED BY <1>1, <1>2, <1>3, <2>2, <2>3, <2>4, <2>5, ToldKeeps
  <1> QED BY <1>4, <1>5 DEF PurgedInPlace, PurgedEntry

\* The card of a save.
LEMMA CardStored ==
  ASSUME EntityInv, NEW r \in reqs, UNCHANGED <<kind, server, clock>>,
         r.op \in {"create", "save", "pause"},
         NEW new, SetStored(r, new),
         new = Stored(r) \/ new = [Stored(r) EXCEPT !.edit = "read"]
           \/ new = [Stored(r) EXCEPT !.edit = "read", !.busy = FALSE]
  PROVE  /\ CardsInv'
         /\ \A s \in Slots : /\ card'[s].open \/ ~card[s].open
                             /\ card'[s].asof = card[s].asof
                             /\ Clean(card'[s]) \/ card'[s] = card[s]
  <1>1. r.slot \in Slots \cup {"gone"} /\ r.name \in Names
    BY AnswerFacts DEF Placed, RequestType, OfList
  <1>2. CASE r.slot = "gone"
    <2>1. card' = card
      BY <1>2 DEF SetStored
    <2> QED BY <2>1 DEF EntityInv, ScreenInv, CardsInv
  <1>3. CASE r.slot # "gone"
    <2> DEFINE c == card[r.slot]
               d == Stored(r)
    <2>1. r.slot \in Slots /\ card' = [card EXCEPT ![r.slot] = new] /\ card \in [Slots -> CardType]
      BY <1>1, <1>3 DEF SetStored, EntityInv, ScreenInv, CardsInv
    <2>2. c \in CardType /\ c.open /\ (kind \in {"kv", "cnn"} => ~c.json)
      BY <2>1, AnswerFacts DEF EntityInv, DraftInv
    <2>3. /\ d \in CardType /\ d.open /\ d.asof = c.asof /\ d.json = c.json
          /\ d.name = r.name /\ ~d.draft
      BY <1>1, <2>2 DEF Stored, CardType, NameOrNone
    <2> HIDE DEF c, d
    <2>4. /\ new \in CardType /\ new.open /\ new.asof = c.asof /\ new.json = c.json
          /\ new.name = r.name /\ ~new.draft
      BY <2>3 DEF CardType, d
    <2>5. Clean(new)
      BY <2>2, <2>4 DEF Clean
    <2>6. card'[r.slot] = new /\ \A s \in Slots : s # r.slot => card'[s] = card[s]
      BY <2>1
    <2>7. CardsInv'
      BY <1>1, <2>1, <2>4, <2>6 DEF EntityInv, ScreenInv, CardsInv
    <2> QED BY <2>4, <2>5, <2>6, <2>7 DEF c
  <1> QED BY <1>2, <1>3

LEMMA PausedKeeps ==
  ASSUME EntityInv, NEW r \in reqs, Paused(r)
  PROVE  EntityInv'
  <1>1. /\ r.op = "pause" /\ r.served /\ reqs' = reqs \ {r} /\ SetStored(r, Stored(r))
        /\ stale' = stale \cup {r.name} /\ UNCHANGED <<kind, server, clock, cList, ask>>
    BY DEF Paused
  <1>2. r.op \notin Reads /\ r.name \in Names
    BY <1>1, AnswerFacts DEF Reads, Placed
  <1>3. /\ CardsInv'
        /\ \A s \in Slots : /\ card'[s].open \/ ~card[s].open
                            /\ card'[s].asof = card[s].asof
                            /\ Clean(card'[s]) \/ card'[s] = card[s]
    BY <1>1, CardStored
  <1>4. ListFollows'
    <2>1. \A q \in {r} : q.op \in Reads \/ ~q.served \/ q.name \in stale'
      BY <1>1
    <2> QED BY <1>1, <2>1, AnswerFacts, ListStays
  <1>5. /\ cList' \in ListType /\ ask' \in AskType /\ AskInv' /\ stale' \in SUBSET Names
    BY <1>1, <1>2 DEF EntityInv, ScreenInv, AskInv
  <1> QED BY <1>1, <1>2, <1>3, <1>4, <1>5, ToldKeeps

\* A save that is answered moves the selection away from what was asked about.
LEMMA AlertMoves ==
  ASSUME EntityInv, kind' = kind, cList' \in ListType,
         ask' = [ask EXCEPT !.swapped = ask.op # "none" /\ (@ \/ cList'.select # cList.select)]
  PROVE  ask' \in AskType /\ ask'.op = ask.op /\ ask'.name = ask.name /\ AskInv'
  <1>1. ask \in AskType
    BY DEF EntityInv, ScreenInv
  <1> DEFINE moved == ask.op # "none" /\ (ask.swapped \/ cList'.select # cList.select)
  <1>2. ask' = [ask EXCEPT !.swapped = moved] /\ moved \in BOOLEAN
    OBVIOUS
  <1> HIDE DEF moved
  <1>3. ask' \in AskType /\ ask'.op = ask.op /\ ask'.name = ask.name /\ ask'.swapped = moved
    BY <1>1, <1>2 DEF AskType
  <1>4. AskInv'
    <2>1. CASE cList'.select = cList.select
      BY <1>3, <2>1 DEF moved, AskInv, EntityInv
    <2>2. CASE cList'.select # cList.select
      BY <1>3, <2>2 DEF moved, AskInv
    <2> QED BY <2>1, <2>2
  <1> QED BY <1>3, <1>4

LEMMA SavedKeeps ==
  ASSUME EntityInv, NEW r \in reqs, Saved(r)
  PROVE  EntityInv'
  <1>1. /\ r.op \in {"create", "save"} /\ r.served /\ UNCHANGED <<kind, server, clock>>
        /\ ask' = [ask EXCEPT !.swapped = ask.op # "none" /\ (@ \/ cList'.select # cList.select)]
    BY DEF Saved
  <1>2. r.op \notin Reads /\ r.op \in {"create", "save", "pause"}
    BY <1>1 DEF Reads
  <1>3. r.name \in Names /\ r.val \in Values /\ r.name \in NameOrNone
    BY <1>1, AnswerFacts DEF Placed, RequestType, NameOrNone
  <1>4. cList \in ListType /\ stale \in SUBSET Names /\ CardsInv
    BY DEF EntityInv, ScreenInv
  <1> DEFINE CardOK ==
        /\ CardsInv'
        /\ \A s \in Slots : /\ card'[s].open \/ ~card[s].open
                            /\ card'[s].asof = card[s].asof
                            /\ Clean(card'[s]) \/ card'[s] = card[s]
             SentOK ==
        \/ reqs' = reqs \ {r}
        \/ \E R \in SUBSET (reqs \ {r}) :
             /\ \E q : Sent(R, q) /\ reqs' = R \cup {q}
             /\ \A p \in reqs \ {r} : p.op = "get" => p \in R
  <1>5. ASSUME CardOK, SentOK, cList' \in ListType, cList'.asof = cList.asof,
               stale' \in SUBSET Names, ListFollows'
        PROVE  EntityInv'
    <2>1. ask' \in AskType /\ ask'.op = ask.op /\ ask'.name = ask.name /\ AskInv'
      BY <1>1, <1>5, AlertMoves
    <2> QED BY <1>1, <1>2, <1>5, <2>1, ToldKeeps
  <1>6. ASSUME \E sel \in NameOrNone :
                 cList' = [cList EXCEPT !.rows[r.name] = r.val, !.select = sel],
               cList.set, stale' = SaveStale(r), reqs' = reqs \ {r}
        PROVE  /\ cList' \in ListType /\ cList'.asof = cList.asof /\ stale' \in SUBSET Names
               /\ ListFollows'
    <2>1. PICK sel \in NameOrNone : cList' = [cList EXCEPT !.rows[r.name] = r.val, !.select = sel]
      BY <1>6
    <2>2. /\ cList' \in ListType /\ cList'.asof = cList.asof
          /\ cList'.rows = [cList.rows EXCEPT ![r.name] = r.val]
      BY <1>3, <1>4, <2>1 DEF ListType
    <2>3. stale' = IF r.name \in r.old THEN stale \cup {r.name} ELSE stale \ {r.name}
      BY <1>6 DEF SaveStale
    <2>4. ListFollows'
      BY <1>1, <1>2, <1>6, <2>2, <2>3, AnswerFacts, RowTold
    <2>5. stale' \in SUBSET Names
      BY <1>3, <1>4, <2>3
    <2> QED BY <2>2, <2>4, <2>5
  <1>7. ASSUME cList' \in ListType, cList'.set => cList.set /\ cList'.rows = cList.rows,
               stale' = stale \cup {r.name},
               reqs \ {r} \subseteq reqs' \/ \E R \in SUBSET reqs' : Tells(R, {r})
        PROVE  stale' \in SUBSET Names /\ ListFollows'
    <2>1. \A q \in {r} : q.op \in Reads \/ ~q.served \/ q.name \in stale'
      BY <1>7
    <2>2. stale \subseteq stale' /\ server' = server
      BY <1>1, <1>7
    <2>3. PICK R \in SUBSET reqs' : Tells(R, {r})
      BY <1>7, AnswerFacts
    <2> QED BY <1>3, <1>4, <1>7, <2>1, <2>2, <2>3, ListStays
  <1>8. CASE SavedInPlace(r)
    <2>1. reqs' = reqs \ {r}
      BY <1>8 DEF SavedInPlace
    <2>2. CASE cList.set /\ UpdateList(r) /\ SetStored(r, [Stored(r) EXCEPT !.edit = "read"])
      <3>1. CardOK
        BY <1>1, <1>2, <2>2, CardStored
      <3>2. /\ cList' \in ListType /\ cList'.asof = cList.asof /\ stale' \in SUBSET Names
            /\ ListFollows'
        BY <1>3, <1>6, <2>1, <2>2 DEF UpdateList
      <3> QED BY <1>5, <2>1, <3>1, <3>2
    <2>3. CASE SetStored(r, Stored(r)) /\ UNCHANGED cList /\ stale' = stale \cup {r.name}
      <3>1. CardOK
        BY <1>1, <1>2, <2>3, CardStored
      <3>2. stale' \in SUBSET Names /\ ListFollows'
        BY <1>4, <1>7, <2>1, <2>3
      <3> QED BY <1>4, <1>5, <2>1, <2>3, <3>1, <3>2
    <2> QED BY <1>8, <2>2, <2>3 DEF SavedInPlace
  <1>9. CASE KvSaved(r)
    <2>1. /\ SetStored(r, [Stored(r) EXCEPT !.edit = "read"]) /\ stale' = stale \cup {r.name}
          /\ kind = "kv"
      BY <1>9 DEF KvSaved
    <2>2. CardOK
      BY <1>1, <1>2, <2>1, CardStored
    <2>3. CASE /\ cList' \in {[c EXCEPT !.select = r.name] : c \in AbortedList}
               /\ Post({q \in reqs \ {r} : q.op # "list"}, "list", "list", NoName)
      <3>1. PICK c \in AbortedList : cList' = [c EXCEPT !.select = r.name]
        BY <2>3
      <3>2. /\ c \in ListType /\ c.asof = cList.asof
            /\ c.set => cList.set /\ c.rows = cList.rows
        BY AbortedFacts
      <3>3. /\ cList' \in ListType /\ cList'.asof = cList.asof
            /\ cList'.set => cList.set /\ cList'.rows = cList.rows
        BY <1>3, <3>1, <3>2 DEF ListType
      <3> DEFINE R == {q \in reqs \ {r} : q.op # "list"}
      <3>4. /\ R \in SUBSET RequestType /\ \A p, q \in R : p.id = q.id => p = q
        BY DEF EntityInv, RequestInv
      <3>5. \A q \in R : q.op # "list"
        OBVIOUS
      <3>6. \A p \in reqs \ {r} : p.op = "get" => p \in R
        OBVIOUS
      <3>7. R \in SUBSET (reqs \ {r}) /\ Tells(R, {r})
        BY DEF Tells, Reads
      <3>8. Post(R, "list", "list", NoName)
        BY <2>3
      <3> HIDE DEF R
      <3>9. \E q : Sent(R, q) /\ reqs' = R \cup {q}
        BY <3>4, <3>5, <3>8, ListSent
      <3>10. stale' \in SUBSET Names /\ ListFollows'
        BY <1>7, <2>1, <3>3, <3>7, <3>9
      <3> QED BY <1>5, <2>2, <3>3, <3>6, <3>7, <3>9, <3>10
    <2>4. CASE reqs' = reqs \ {r} /\ UNCHANGED cList
      <3>1. stale' \in SUBSET Names /\ ListFollows'
        BY <1>4, <1>7, <2>1, <2>4
      <3> QED BY <1>4, <1>5, <2>2, <2>4, <3>1
    <2> QED BY <1>9, <2>3, <2>4 DEF KvSaved
  <1>10. CASE CnnSaved(r)
    <2>1. reqs' = reqs \ {r} /\ kind = "cnn"
      BY <1>10 DEF CnnSaved
    <2>2. CASE ~cList.set
      <3>1. UNCHANGED <<cList, card>> /\ stale' = stale \cup {r.name}
        BY <1>10, <2>2 DEF CnnSaved
      <3>2. stale' \in SUBSET Names /\ ListFollows'
        BY <1>4, <1>7, <2>1, <3>1
      <3>3. CardOK
        BY <1>4, <3>1 DEF CardsInv
      <3> QED BY <1>4, <1>5, <2>1, <3>1, <3>2, <3>3
    <2>3. CASE cList.set
      <3>1. /\ SetStored(r, [Stored(r) EXCEPT !.edit = "read", !.busy = FALSE])
            /\ stale' = SaveStale(r)
            /\ \E sel \in {r.name, cList.select} :
                 cList' = [cList EXCEPT !.rows[r.name] = r.val, !.select = sel]
        BY <1>10, <2>3 DEF CnnSaved
      <3>2. CardOK
        BY <1>1, <1>2, <3>1, CardStored
      <3>3. {r.name, cList.select} \subseteq NameOrNone
        BY <1>3, <1>4 DEF ListType
      <3>4. /\ cList' \in ListType /\ cList'.asof = cList.asof /\ stale' \in SUBSET Names
            /\ ListFollows'
        BY <1>6, <2>1, <2>3, <3>1, <3>3
      <3> QED BY <1>5, <2>1, <3>2, <3>4
    <2> QED BY <2>2, <2>3
  <1> QED BY <1>8, <1>9, <1>10 DEF Saved, StreamSaved, BucketSaved, ConsumerSaved

LEMMA DetachKeeps ==
  ASSUME EntityInv, Detach
  PROVE  EntityInv'
  <1>0. PICK f : f = [r \in reqs |-> IF r.slot = "linked" THEN [r EXCEPT !.slot = "loose"] ELSE r]
    OBVIOUS
  <1>1. /\ card["linked"].open /\ ~card["loose"].open
        /\ card' = [card EXCEPT !["loose"] = card["linked"], !["linked"] = NoCard]
        /\ UNCHANGED <<kind, server, clock, cList, ask, stale>>
    BY DEF Detach
  <1>2. reqs' = {f[r] : r \in reqs} /\ \A r \in reqs : f[r] \in reqs'
    BY <1>0 DEF Detach
  <1>3. /\ card' \in [Slots -> CardType] /\ card'["loose"] = card["linked"]
        /\ card'["linked"] = NoCard /\ card \in [Slots -> CardType]
    BY <1>1, NoCardFacts DEF EntityInv, ScreenInv, CardsInv, Slots
  <1>4. ASSUME NEW r \in reqs
        PROVE  /\ f[r] \in RequestType /\ f[r].id = r.id /\ f[r].op = r.op /\ f[r].name = r.name
               /\ f[r].asked = r.asked /\ f[r].swapped = r.swapped /\ f[r].served = r.served
               /\ f[r].rows = r.rows /\ f[r].val = r.val /\ f[r].asof = r.asof /\ f[r].old = r.old
               /\ f[r].slot = IF r.slot = "linked" THEN "loose" ELSE r.slot
    <2>1. r \in RequestType
      BY AnswerFacts
    <2>2. CASE r.slot = "linked"
      <3>1. f[r] = [r EXCEPT !.slot = "loose"]
        BY <1>0, <2>2
      <3> QED BY <2>1, <2>2, <3>1 DEF RequestType, Slots
    <2>3. CASE r.slot # "linked"
      BY <1>0, <2>1, <2>3
    <2> QED BY <2>2, <2>3
  <1>5. ASSUME NEW r \in reqs
        PROVE  /\ Placed(f[r])' /\ (f[r].served => Answered(f[r])')
               /\ f[r].slot \in Slots => f[r].slot = "loose"
    <2>1. Placed(r) /\ (r.served => Answered(r)) /\ (r.slot \in Slots => card[r.slot].open)
          /\ r \in RequestType
      BY AnswerFacts
    <2>2. Placed(f[r])'
      <3>1. PICK q : q = f[r]
        OBVIOUS
      <3>2. /\ q.op = r.op /\ q.name = r.name /\ q.asked = r.asked /\ (r.swapped => q.swapped)
            /\ q.slot = IF r.slot = "linked" THEN "loose" ELSE r.slot
        BY <1>4, <3>1
      <3> QED BY <1>1, <2>1, <3>1, <3>2 DEF Placed, Slots, OfList
    <2>3. f[r].served => Answered(f[r])'
      <3>1. PICK q : q = f[r]
        OBVIOUS
      <3>2. /\ q.op = r.op /\ q.name = r.name /\ (q.served => r.served)
            /\ q.rows = r.rows /\ q.val = r.val /\ q.asof = r.asof /\ q.old = r.old
        BY <1>4, <3>1
      <3> QED BY <1>1, <2>1, <3>1, <3>2 DEF Answered
    <2>4. f[r].slot \in Slots => f[r].slot = "loose"
      BY <1>1, <1>4, <2>1 DEF Slots
    <2> QED BY <2>2, <2>3, <2>4
  <1>6. ScreenInv' /\ ServerInv' /\ AskInv'
    BY <1>1, <1>3, NoCardFacts DEF EntityInv, ScreenInv, CardsInv, ServerInv, AskInv, Slots
  <1>7. RequestInv'
    <2>1. reqs' \in SUBSET RequestType /\ \A q \in reqs' : Placed(q)' /\ (q.served => Answered(q)')
      <3>1. SUFFICES ASSUME NEW q \in reqs'
                     PROVE  q \in RequestType /\ Placed(q)' /\ (q.served => Answered(q)')
        OBVIOUS
      <3>2. PICK r \in reqs : q = f[r]
        BY <1>2
      <3>3. f[r] \in RequestType /\ Placed(f[r])' /\ (f[r].served => Answered(f[r])')
        BY <1>4, <1>5
      <3> QED BY <3>2, <3>3
    <2>2. \A p, q \in reqs' : p.id = q.id => p = q
      <3>1. TAKE p, q \in reqs'
      <3>2. PICK a \in reqs : p = f[a]
        BY <1>2
      <3>3. PICK b \in reqs : q = f[b]
        BY <1>2
      <3>4. p.id = q.id => a = b
        BY <3>2, <3>3, <1>4 DEF EntityInv, RequestInv
      <3> QED BY <3>2, <3>3, <3>4
    <2> QED BY <2>1, <2>2 DEF RequestInv
  <1>8. Newest'
    <2>1. cList'.asof <= clock' /\ \A s \in Slots : card'[s].asof <= clock'
      <3>1. 0 <= clock
        BY EntityAssumption DEF EntityInv, ServerInv, Values
      <3> QED BY <1>1, <1>3, <3>1, NoCardFacts DEF EntityInv, Newest, Slots
    <2>2. \A q \in reqs' : q.slot \in Slots => card'[q.slot].open
      BY <1>1, <1>2, <1>3, <1>5
    <2>3. ASSUME kind # "cnn", NEW q \in reqs', q.op = "list"
          PROVE  /\ q.served => cList'.asof <= q.asof
                 /\ \A p \in reqs' : p.op = "list" => p = q
      <3>1. PICK a \in reqs : q = f[a]
        BY <1>2
      <3>2. \A b \in reqs : b.op = "list" => b = a
        BY <1>4, <2>3, <3>1 DEF EntityInv, Newest
      <3>3. q.served => cList'.asof <= q.asof
        BY <1>1, <1>4, <2>3, <3>1 DEF EntityInv, Newest
      <3> QED BY <1>2, <1>4, <3>1, <3>2, <3>3
    <2>4. ASSUME kind # "bucket", NEW q \in reqs', q.op = "get"
          PROVE  /\ q.served => card'[q.slot].asof <= q.asof
                 /\ \A p \in reqs' : p.op = "get" /\ p.slot = q.slot => p = q
      <3>1. PICK a \in reqs : q = f[a]
        BY <1>2
      <3>2. ASSUME NEW b \in reqs, b.op = "get"
            PROVE  b.slot = "linked" /\ f[b].slot = "loose"
        <4>1. b.slot \in Slots /\ card[b.slot].open
          BY <3>2, AnswerFacts DEF Placed
        <4> QED BY <1>1, <1>4, <4>1 DEF Slots
      <3>3. a.op = "get" /\ a.slot = "linked" /\ q.slot = "loose"
        BY <1>4, <2>4, <3>1, <3>2
      <3>4. \A b \in reqs : b.op = "get" => b = a
        BY <2>4, <3>2, <3>3 DEF EntityInv, Newest
      <3>5. q.served => card'[q.slot].asof <= q.asof
        BY <1>3, <1>4, <2>4, <3>1, <3>3 DEF EntityInv, Newest
      <3> QED BY <1>2, <1>4, <3>1, <3>4, <3>5
    <2> QED BY <1>1, <2>1, <2>2, <2>3, <2>4 DEF Newest
  <1>9. ListFollows'
    <2>1. Tells(reqs', {})
      BY <1>2, <1>4 DEF Tells
    <2> QED BY <1>1, <2>1, ListStays
  <1>10. DraftInv'
    <2>1. ASSUME card'["loose"].edit = "read", card'["loose"].draft
          PROVE  card'["loose"].left \/ \E q \in reqs' : q.op = "get" /\ q.slot = "loose"
      <3>1. CASE card["linked"].left
        BY <1>3, <3>1
      <3>2. CASE \E r \in reqs : r.op = "get" /\ r.slot = "linked"
        BY <1>2, <1>4, <3>2
      <3> QED BY <1>3, <2>1, <3>1, <3>2 DEF EntityInv, DraftInv, NoDraftInRead, Slots
    <2>2. kind \in {"kv", "cnn"} =>
            ~card'["loose"].json /\ (card'["loose"].edit = "read" => ~card'["loose"].draft)
      BY <1>3 DEF EntityInv, DraftInv, Slots
    <2>3. Clean(card'["linked"])
      BY <1>3, NoCardFacts
    <2> QED BY <1>1, <2>1, <2>2, <2>3 DEF DraftInv, NoDraftInRead, Clean, Slots
  <1> QED BY <1>6, <1>7, <1>8, <1>9, <1>10 DEF EntityInv

-----------------------------------------------------------------------------
(* The server. *)

\* What the server does to its requests: f says what becomes of each of them.
LEMMA ServerSteps ==
  ASSUME EntityInv, UNCHANGED <<kind, cList, card, ask>>, stale' \in SUBSET Names,
         ServerInv', clock <= clock', NEW f, reqs' = {f[r] : r \in reqs},
         \A r \in reqs : /\ f[r] \in RequestType /\ f[r].id = r.id /\ f[r].op = r.op
                         /\ f[r].slot = r.slot /\ f[r].name = r.name
                         /\ f[r].asked = r.asked /\ (r.swapped => f[r].swapped),
         \A r \in reqs : f[r].served =>
           Answered(f[r])' /\ ((r.served /\ f[r].asof = r.asof) \/ f[r].asof = clock'),
         ListFollows'
  PROVE  EntityInv'
  <1>1. ScreenInv' /\ AskInv'
    BY DEF EntityInv, ScreenInv, CardsInv, AskInv
  <1>2. \A r \in reqs : Placed(f[r])'
    BY DEF Placed, EntityInv, RequestInv
  <1>3. RequestInv'
    <2>1. reqs' \in SUBSET RequestType /\ \A q \in reqs' : Placed(q)' /\ (q.served => Answered(q)')
      BY <1>2
    <2>2. \A p, q \in reqs' : p.id = q.id => p = q
      <3>1. TAKE p, q \in reqs'
      <3>2. PICK a \in reqs : p = f[a]
        OBVIOUS
      <3>3. PICK b \in reqs : q = f[b]
        OBVIOUS
      <3>4. p.id = q.id => a = b
        BY <3>2, <3>3 DEF EntityInv, RequestInv
      <3> QED BY <3>2, <3>3, <3>4
    <2> QED BY <2>1, <2>2 DEF RequestInv
  <1>4. /\ clock \in Nat /\ clock' \in Nat /\ cList.asof \in Nat
        /\ \A s \in Slots : card[s].asof \in Nat
    BY EntityAssumption
    DEF EntityInv, ServerInv, ScreenInv, CardsInv, ListType, CardType, Values
  <1>5. Newest'
    <2>1. cList'.asof <= clock' /\ \A s \in Slots : card'[s].asof <= clock'
      BY <1>4 DEF EntityInv, Newest
    <2>2. \A q \in reqs' : q.slot \in Slots => card'[q.slot].open
      BY DEF EntityInv, Newest
    <2>3. ASSUME kind # "cnn", NEW q \in reqs', q.op = "list"
          PROVE  /\ q.served => cList'.asof <= q.asof
                 /\ \A p \in reqs' : p.op = "list" => p = q
      <3>1. PICK a \in reqs : q = f[a]
        OBVIOUS
      <3>2. \A b \in reqs : b.op = "list" => b = a
        BY <2>3, <3>1 DEF EntityInv, Newest
      <3>3. q.served => cList'.asof <= q.asof
        BY <2>1, <2>3, <3>1 DEF EntityInv, Newest
      <3> QED BY <3>1, <3>2, <3>3
    <2>4. ASSUME kind # "bucket", NEW q \in reqs', q.op = "get"
          PROVE  /\ q.served => card'[q.slot].asof <= q.asof
                 /\ \A p \in reqs' : p.op = "get" /\ p.slot = q.slot => p = q
      <3>1. PICK a \in reqs : q = f[a]
        OBVIOUS
      <3>2. a.op = "get" /\ a.slot = q.slot /\ q.slot \in Slots
        BY <2>4, <3>1, AnswerFacts DEF Placed
      <3>3. \A b \in reqs : b.op = "get" /\ b.slot = a.slot => b = a
        BY <2>4, <3>2 DEF EntityInv, Newest
      <3>4. q.served => card'[q.slot].asof <= q.asof
        BY <2>1, <2>4, <3>1, <3>2 DEF EntityInv, Newest
      <3> QED BY <3>1, <3>2, <3>3, <3>4
    <2> QED BY <2>1, <2>2, <2>3, <2>4 DEF Newest
  <1>6. DraftInv'
    BY DEF EntityInv, DraftInv, NoDraftInRead
  <1> QED BY <1>1, <1>3, <1>5, <1>6 DEF EntityInv

\* An answer given before a name changed is out of date about it, and about no other.
LEMMA OutdatedAnswer ==
  ASSUME EntityInv, NEW n \in Names, NEW v, Change(n, v), kind' = kind, NEW r \in reqs,
         NEW q, q = IF r.served THEN [r EXCEPT !.old = @ \cup {n}] ELSE r
  PROVE  /\ q \in RequestType /\ q.id = r.id /\ q.op = r.op /\ q.slot = r.slot /\ q.name = r.name
         /\ q.asked = r.asked /\ (r.swapped => q.swapped) /\ (r.served => q.served)
         /\ q.served => r.served /\ q.asof = r.asof /\ Answered(q)'
  <1>1. r \in RequestType /\ (r.served => Answered(r))
    BY AnswerFacts
  <1>2. clock' = clock + 1 /\ server' = [server EXCEPT ![n] = v] /\ clock \in Nat
        /\ server \in [Names -> Values]
    BY EntityAssumption DEF Change, EntityInv, ServerInv, Values
  <1>3. CASE r.served
    <2>1. q = [r EXCEPT !.old = r.old \cup {n}]
      BY <1>3
    <2>2. /\ q \in RequestType /\ q.id = r.id /\ q.op = r.op /\ q.slot = r.slot /\ q.name = r.name
          /\ q.asked = r.asked /\ q.swapped = r.swapped /\ q.served = r.served /\ q.asof = r.asof
          /\ q.rows = r.rows /\ q.val = r.val /\ q.old = r.old \cup {n}
      BY <1>1, <2>1 DEF RequestType
    <2>3. Answered(r) /\ r.asof \in Nat
      BY <1>1, <1>3, EntityAssumption DEF RequestType, Values
    <2>4. q.asof <= clock'
      BY <1>2, <2>2, <2>3 DEF Answered
    <2>5. q.op = "list" => \A m \in Names \ q.old : q.rows[m] = server'[m]
      BY <1>2, <2>2, <2>3 DEF Answered
    <2>6. q.op \notin Reads /\ q.name \notin q.old => q.val = server'[q.name]
      <3>1. r.op \notin Reads => r.name \in Names
        BY AnswerFacts DEF Placed, Reads
      <3> QED BY <1>2, <2>2, <2>3, <3>1 DEF Answered
    <2>7. q.op = "delete" \/ (q.op = "purge" /\ kind' = "kv") => q.val = 0
      BY <2>2, <2>3 DEF Answered
    <2> QED BY <2>2, <2>4, <2>5, <2>6, <2>7 DEF Answered
  <1>4. CASE ~r.served
    BY <1>1, <1>4
  <1> QED BY <1>3, <1>4

LEMMA ChangeFacts ==
  ASSUME EntityInv, NEW n \in Names, NEW v \in Nat, v <= clock + 1, Change(n, v)
  PROVE  /\ ServerInv' /\ clock <= clock' /\ clock' \in Values
         /\ server'[n] = v /\ \A m \in Names \ {n} : server'[m] = server[m]
  BY EntityAssumption DEF EntityInv, ServerInv, Values, Change

\* Another client changes a name.
LEMMA OtherKeeps ==
  ASSUME EntityInv, NEW n \in Names, Other(n)
  PROVE  EntityInv'
  <1>1. PICK v \in {0, clock + 1} : Change(n, v)
    BY DEF Other
  <1>2. reqs' = Outdated(reqs, n) /\ stale' = stale \cup {n} /\ UNCHANGED <<kind, cList, card, ask>>
    BY DEF Other
  <1>3. v \in Nat /\ v <= clock + 1
    BY <1>1, EntityAssumption DEF EntityInv, ServerInv, Values
  <1>4. ServerInv' /\ clock <= clock' /\ \A m \in Names \ {n} : server'[m] = server[m]
    BY <1>1, <1>3, ChangeFacts
  <1>5. PICK f : f = [r \in reqs |-> IF r.served THEN [r EXCEPT !.old = @ \cup {n}] ELSE r]
    OBVIOUS
  <1>6. reqs' = {f[r] : r \in reqs}
    BY <1>2, <1>5 DEF Outdated
  <1>7. ASSUME NEW r \in reqs
        PROVE  /\ f[r] \in RequestType /\ f[r].id = r.id /\ f[r].op = r.op
               /\ f[r].slot = r.slot /\ f[r].name = r.name
               /\ f[r].asked = r.asked /\ (r.swapped => f[r].swapped)
               /\ r.served => f[r].served
               /\ f[r].served => r.served /\ f[r].asof = r.asof /\ Answered(f[r])'
    <2>1. PICK q : q = f[r]
      OBVIOUS
    <2>2. q = IF r.served THEN [r EXCEPT !.old = @ \cup {n}] ELSE r
      BY <1>5, <2>1
    <2>3. /\ q \in RequestType /\ q.id = r.id /\ q.op = r.op /\ q.slot = r.slot /\ q.name = r.name
          /\ q.asked = r.asked /\ (r.swapped => q.swapped) /\ (r.served => q.served)
          /\ q.served => r.served /\ q.asof = r.asof /\ Answered(q)'
      BY <1>1, <1>2, <2>2, OutdatedAnswer
    <2> QED BY <2>1, <2>3
  <1>8. ListFollows'
    <2>1. ASSUME NEW m \in Names, Changing(m)
          PROVE  Changing(m)'
      BY <1>6, <1>7, <2>1 DEF Changing
    <2> QED BY <1>2, <1>4, <2>1 DEF EntityInv, ListFollows
  <1>9. stale' \in SUBSET Names
    BY <1>2 DEF EntityInv, ScreenInv
  <1> QED BY <1>2, <1>4, <1>6, <1>7, <1>8, <1>9, ServerSteps

\* A question is answered.
LEMMA ReadServed ==
  ASSUME EntityInv, NEW r \in reqs, ~r.served, ServeRead(r),
         UNCHANGED <<kind, cList, card, ask, stale>>
  PROVE  EntityInv'
  <1> DEFINE rows == IF r.op = "list" THEN server ELSE r.rows
  <1>1. PICK a : a = [r EXCEPT !.served = TRUE, !.asof = clock, !.rows = rows]
    OBVIOUS
  <1>2. r.op \in Reads /\ reqs' = (reqs \ {r}) \cup {a} /\ UNCHANGED <<server, clock>>
    BY <1>1 DEF ServeRead, Reads
  <1>3. r \in RequestType /\ clock \in Values /\ server \in [Names -> Values]
    BY AnswerFacts DEF EntityInv, ServerInv
  <1>4. rows \in [Names -> Values] /\ (r.op = "list" => rows = server)
    BY <1>3 DEF RequestType
  <1> HIDE DEF rows
  <1>5. /\ a \in RequestType /\ a.id = r.id /\ a.op = r.op /\ a.slot = r.slot /\ a.name = r.name
        /\ a.asked = r.asked /\ (r.swapped => a.swapped) /\ a.asof = clock /\ a.rows = rows
    BY <1>1, <1>3, <1>4 DEF RequestType
  <1>6. Answered(a)'
    <2>1. clock <= clock
      BY <1>3, EntityAssumption DEF Values
    <2> QED BY <1>2, <1>4, <1>5, <2>1 DEF Answered, Reads
  <1>7. PICK f : f = [q \in reqs |-> IF q = r THEN a ELSE q]
    OBVIOUS
  <1>8. reqs' = {f[q] : q \in reqs}
    BY <1>2, <1>7
  <1>9. ASSUME NEW q \in reqs
        PROVE  /\ f[q] \in RequestType /\ f[q].id = q.id /\ f[q].op = q.op
               /\ f[q].slot = q.slot /\ f[q].name = q.name
               /\ f[q].asked = q.asked /\ (q.swapped => f[q].swapped)
               /\ f[q].served =>
                    Answered(f[q])' /\ ((q.served /\ f[q].asof = q.asof) \/ f[q].asof = clock')
    <2>1. CASE q = r
      BY <1>2, <1>5, <1>6, <1>7, <2>1
    <2>2. CASE q # r
      <3>1. f[q] = q /\ q \in RequestType /\ (q.served => Answered(q))
        BY <1>7, <2>2, AnswerFacts
      <3>2. q.served => Answered(q)'
        BY <1>2, <3>1 DEF Answered
      <3> QED BY <3>1, <3>2
    <2> QED BY <2>1, <2>2
  <1>10. ListFollows'
    <2>1. ASSUME NEW n \in Names, Changing(n)
          PROVE  Changing(n)'
      <3>1. PICK q \in reqs : q.served /\ q.name = n /\ q.op \notin {"list", "get"}
        BY <2>1 DEF Changing
      <3>2. q \in reqs'
        BY <1>2, <3>1 DEF Reads
      <3> QED BY <3>1, <3>2 DEF Changing
    <2> QED BY <1>2, <2>1 DEF EntityInv, ListFollows
  <1>11. ServerInv' /\ clock <= clock' /\ stale' \in SUBSET Names
    BY <1>2, <1>3, EntityAssumption DEF ServerInv, Values, EntityInv, ScreenInv
  <1> QED BY <1>8, <1>9, <1>10, <1>11, ServerSteps

\* A change is made.
LEMMA ChangeServed ==
  ASSUME EntityInv, NEW r \in reqs, ~r.served, ServeChange(r),
         UNCHANGED <<kind, cList, card, ask, stale>>
  PROVE  EntityInv'
  <1>1. PICK v \in {0, clock + 1} :
          /\ Change(r.name, v)
          /\ r.op = "delete" \/ (r.op = "purge" /\ kind = "kv") => v = 0
    BY DEF ServeChange
  <1>2. PICK a : a = [r EXCEPT !.served = TRUE, !.val = server'[r.name], !.asof = clock']
    OBVIOUS
  <1>3. r.op \notin Reads /\ reqs' = Outdated(reqs \ {r}, r.name) \cup {a}
    BY <1>2 DEF ServeChange, Reads
  <1>4. r \in RequestType /\ r.name \in Names
    BY <1>3, AnswerFacts DEF Placed, Reads
  <1>5. v \in Nat /\ v <= clock + 1
    BY <1>1, EntityAssumption DEF EntityInv, ServerInv, Values
  <1>6. /\ ServerInv' /\ clock <= clock' /\ clock' \in Values /\ server'[r.name] = v
        /\ \A m \in Names \ {r.name} : server'[m] = server[m]
    BY <1>1, <1>4, <1>5, ChangeFacts
  <1>7. server'[r.name] \in Values
    BY <1>4, <1>6 DEF ServerInv
  <1>8. /\ a \in RequestType /\ a.id = r.id /\ a.op = r.op /\ a.slot = r.slot /\ a.name = r.name
        /\ a.asked = r.asked /\ (r.swapped => a.swapped) /\ a.asof = clock'
        /\ a.val = server'[r.name] /\ a.served
    BY <1>2, <1>4, <1>6, <1>7 DEF RequestType
  <1>9. Answered(a)'
    <2>1. clock' <= clock' /\ r.op # "list"
      BY <1>3, <1>6, EntityAssumption DEF Values, Reads
    <2> QED BY <1>1, <1>6, <1>8, <2>1 DEF Answered
  <1>10. PICK f : f = [q \in reqs |-> IF q = r THEN a
                        ELSE IF q.served THEN [q EXCEPT !.old = @ \cup {r.name}] ELSE q]
    OBVIOUS
  <1>11. reqs' = {f[q] : q \in reqs}
    BY <1>3, <1>10 DEF Outdated
  <1>12. ASSUME NEW q \in reqs
         PROVE  /\ f[q] \in RequestType /\ f[q].id = q.id /\ f[q].op = q.op
                /\ f[q].slot = q.slot /\ f[q].name = q.name
                /\ f[q].asked = q.asked /\ (q.swapped => f[q].swapped)
                /\ q.served => f[q].served
                /\ f[q].served =>
                     Answered(f[q])' /\ ((q.served /\ f[q].asof = q.asof) \/ f[q].asof = clock')
    <2>1. CASE q = r
      BY <1>8, <1>9, <1>10, <2>1
    <2>2. CASE q # r
      <3>1. PICK p : p = f[q]
        OBVIOUS
      <3>2. p = IF q.served THEN [q EXCEPT !.old = @ \cup {r.name}] ELSE q
        BY <1>10, <2>2, <3>1
      <3>3. /\ p \in RequestType /\ p.id = q.id /\ p.op = q.op /\ p.slot = q.slot /\ p.name = q.name
            /\ p.asked = q.asked /\ (q.swapped => p.swapped) /\ (q.served => p.served)
            /\ p.served => q.served /\ p.asof = q.asof /\ Answered(p)'
        BY <1>1, <1>4, <3>2, OutdatedAnswer
      <3> QED BY <3>1, <3>3
    <2> QED BY <2>1, <2>2
  <1>13. ListFollows'
    <2>1. ASSUME NEW n \in Names, Changing(n)
          PROVE  Changing(n)'
      BY <1>11, <1>12, <2>1 DEF Changing
    <2>2. Changing(r.name)'
      BY <1>3, <1>8 DEF Changing, Reads
    <2> QED BY <1>6, <2>1, <2>2 DEF EntityInv, ListFollows
  <1>14. stale' \in SUBSET Names
    BY DEF EntityInv, ScreenInv
  <1> QED BY <1>6, <1>11, <1>12, <1>13, <1>14, ServerSteps

-----------------------------------------------------------------------------
(* The invariant holds. *)

LEMMA EntityInvInit == EntityInit => EntityInv
  <1> SUFFICES ASSUME EntityInit
               PROVE  EntityInv
    OBVIOUS
  <1>1. PICK n \in {m \in Names : server[m] = 1} \cup {NoName} :
          /\ cList = [set |-> FALSE, rows |-> [m \in Names |-> 0], select |-> n, asof |-> 0]
          /\ card = [s \in Slots |-> IF s = "linked" /\ n # NoName
                                     THEN [NoCard EXCEPT !.open = TRUE, !.name = n, !.revs = (kind = "kv")]
                                     ELSE NoCard]
    BY DEF EntityInit
  <1>2. /\ kind \in Kinds /\ clock = 1 /\ server \in [Names -> {0, 1}] /\ reqs = {}
        /\ ask = NoAsk /\ stale = {}
    BY DEF EntityInit
  <1>3. 0 \in Values /\ 1 \in Values
    BY EntityAssumption DEF Values
  <1>4. cList \in ListType /\ ask \in AskType /\ ask.op = "none" /\ cList.asof = 0 /\ ~cList.set
    BY <1>1, <1>2, <1>3 DEF ListType, AskType, NoAsk, NameOrNone
  <1> DEFINE view == [NoCard EXCEPT !.open = TRUE, !.name = n, !.revs = (kind = "kv")]
  <1>5. view \in CardType /\ view.open /\ view.name = n /\ view.asof = 0 /\ Clean(view)
    <2>1. NoCard \in CardType
      BY NoCardFacts
    <2>2. view \in CardType /\ view.open /\ view.name = n /\ view.asof = 0
      BY <2>1 DEF CardType, NoCard, NameOrNone
    <2>3. Clean(view)
      BY <2>1 DEF CardType, NoCard, Clean
    <2> QED BY <2>2, <2>3
  <1>6. \A s \in Slots : card[s] = NoCard \/ (card[s] = view /\ n \in Names)
    BY <1>1
  <1> HIDE DEF view
  <1>7. card \in [Slots -> CardType] /\ \A s \in Slots : Clean(card[s]) /\ card[s].asof = 0
    BY <1>1, <1>5, <1>6, NoCardFacts
  <1>8. ScreenInv
    BY <1>2, <1>4, <1>5, <1>6, <1>7, NoCardFacts DEF ScreenInv, CardsInv
  <1>9. ServerInv
    BY <1>2, <1>3 DEF ServerInv
  <1>10. RequestInv /\ ListFollows /\ AskInv
    BY <1>2, <1>4 DEF RequestInv, ListFollows, AskInv
  <1>11. Newest
    BY <1>2, <1>4, <1>7 DEF Newest
  <1>12. DraftInv
    BY <1>7 DEF DraftInv, NoDraftInRead, Clean
  <1> QED BY <1>8, <1>9, <1>10, <1>11, <1>12 DEF EntityInv

LEMMA EntityInvNext == EntityInv /\ [EntityNext]_entityVars => EntityInv'
  <1> SUFFICES ASSUME EntityInv, [EntityNext]_entityVars
               PROVE  EntityInv'
    OBVIOUS
  <1>1. CASE UNCHANGED entityVars
    <2>1. ask' \in AskType /\ (ask'.op # "none" => ask'.name \in Names) /\ AskInv'
      BY <1>1 DEF entityVars, EntityInv, ScreenInv, AskInv
    <2> QED BY <1>1, <2>1, AlertKeeps DEF entityVars
  <1>2. CASE ListNext
    <2>1. CASE ListMount
      BY <2>1, ListMountKeeps
    <2>2. CASE Detach
      BY <2>2, DetachKeeps
    <2>3. CASE \E n \in Names : Select(n) \/ Other(n)
      BY <2>3, SelectKeeps, OtherKeeps
    <2>4. CASE Create
      BY <2>4, CreateKeeps DEF Create
    <2>5. CASE Confirm
      BY <2>5, ConfirmKeeps
    <2>6. CASE \/ AskCancel
               \/ \E op \in {"delete", "purge"} : AskConfirm(op, cList.select)
               \/ AskConfirm("delete", card["linked"].name) /\ kind = "cnn"
      <3>1. UNCHANGED <<kind, server, clock, cList, card, reqs, stale>>
        BY <2>6 DEF AskCancel, AskConfirm
      <3> QED BY <2>6, <3>1, AskKeeps
    <2>7. StreamList \/ BucketList \/ KvList \/ ConsumerList \/ CnnList =>
            \/ Create \/ Confirm \/ AskCancel
            \/ \E op \in {"delete", "purge"} : AskConfirm(op, cList.select)
            \/ AskConfirm("delete", card["linked"].name) /\ kind = "cnn"
      BY DEF StreamList, BucketList, KvList, ConsumerList, CnnList, Buttons
    <2> QED BY <1>2, <2>1, <2>2, <2>3, <2>4, <2>5, <2>6, <2>7 DEF ListNext
  <1>3. CASE DetailNext
    BY <1>3, MountKeeps, ActionsKeep, ApplyKeeps, CloseKeeps DEF DetailNext
  <1>4. CASE AnswerNext
    <2>1. PICK r \in reqs :
            \/ Serve(r) \/ RequestFails(r) \/ GetAnswer(r) \/ Saved(r) \/ Paused(r)
            \/ ListAnswer(r) \/ Deleted(r) \/ PurgedInPlace(r) \/ (PurgedEntry(r) /\ kind = "kv")
      BY <1>4 DEF AnswerNext, StreamListAnswers, BucketListAnswers, KvListAnswers,
                  ConsumerListAnswers, CnnListAnswers
    <2>2. CASE Serve(r)
      BY <2>2, ReadServed, ChangeServed DEF Serve
    <2>3. CASE RequestFails(r)
      BY <2>3, FailureKeeps
    <2>4. CASE GetAnswer(r)
      BY <2>4, GetAnswerKeeps
    <2>5. CASE Saved(r)
      BY <2>5, SavedKeeps
    <2>6. CASE Paused(r)
      BY <2>6, PausedKeeps
    <2>7. CASE ListAnswer(r)
      BY <2>7, ListAnswerKeeps
    <2>8. CASE Deleted(r)
      BY <2>8, DeletedKeeps
    <2>9. CASE PurgedInPlace(r) \/ (PurgedEntry(r) /\ kind = "kv")
      BY <2>9, PurgedKeeps
    <2> QED BY <2>1, <2>2, <2>3, <2>4, <2>5, <2>6, <2>7, <2>8, <2>9
  <1> QED BY <1>1, <1>2, <1>3, <1>4 DEF EntityNext

LEMMA EntityInvHolds == EntitySpec => []EntityInv
  <1>1. EntityInit => EntityInv
    BY EntityInvInit
  <1>2. EntityInv /\ [EntityNext]_entityVars => EntityInv'
    BY EntityInvNext
  <1> QED BY <1>1, <1>2, PTL DEF EntitySpec

\* List, detail cards and alert tell of the same entities, whatever was answered,
\* selected or changed by others: a row is what the server has unless its change is
\* known to be on its way or untold, READ shows no draft, and what is deleted is what
\* the user was asked about.
THEOREM EntityCardsAgree == EntitySpec => []EntityCardsSound
  <1>1. EntityInv => EntityCardsSound
    <2> SUFFICES ASSUME EntityInv
                 PROVE  EntityCardsSound
      OBVIOUS
    <2>1. ListFollows /\ NoDraftInRead
      BY DEF EntityInv, DraftInv
    <2>2. DeletesWhatWasAsked
      BY DEF EntityInv, RequestInv, Placed, DeletesWhatWasAsked
    <2>3. EntityTypeOK
      <3>1. Cardinality(reqs) <= MaxReqs /\ Cardinality({r.id : r \in reqs}) = Cardinality(reqs)
        BY FewRequests DEF EntityInv, RequestInv
      <3>2. \A r \in reqs : r.op \in {"list", "get", "create", "save", "delete", "purge", "pause"}
        BY DEF EntityInv, RequestInv, RequestType, Ops
      <3>3. /\ kind \in Kinds /\ server \in [Names -> Values] /\ clock \in Values
            /\ cList \in ListType /\ stale \subseteq Names
            /\ \A s \in Slots : card[s] \in CardType /\ (card[s].open \/ card[s] = NoCard)
        BY DEF EntityInv, ServerInv, ScreenInv, CardsInv
      <3>4. ask.op \in {"none", "delete", "purge"}
        BY DEF EntityInv, ScreenInv, AskType
      <3> QED BY <3>1, <3>2, <3>3, <3>4 DEF EntityTypeOK, ListType, CardType
    <2> QED BY <2>1, <2>2, <2>3 DEF EntityCardsSound
  <1> QED BY <1>1, EntityInvHolds, PTL

-----------------------------------------------------------------------------
(* What a step does to the cards. *)

\* A step does not take a card or the list back, and nothing that was typed into an entry
\* or a connection that goes on being edited, but for what DraftKept names.
StaysEdited(s) ==
  /\ kind \in {"kv", "cnn"} /\ card[s].edit = "edit"
  /\ card'[s].open /\ card'[s].edit = "edit" /\ card'[s].name = card[s].name
Forth(s) ==
  /\ card'[s].asof >= card[s].asof \/ card'[s].asof = 0 \/ kind = "bucket"
  /\ StaysEdited(s) => /\ card[s].draft => card'[s].draft \/ Picked(s)
                       /\ card[s].ttl => card'[s].ttl \/ Overwritten(s)
ListForth == cList'.asof >= cList.asof \/ kind = "cnn"
AllForth == ListForth /\ \A s \in Slots : Forth(s)

LEMMA AsOfNat ==
  ASSUME EntityInv
  PROVE  cList.asof \in Nat /\ \A s \in Slots : card[s].asof \in Nat
  BY EntityAssumption DEF EntityInv, ScreenInv, CardsInv, ListType, CardType, Values

LEMMA SameForth ==
  ASSUME EntityInv, NEW s \in Slots, card'[s] = card[s]
  PROVE  Forth(s)
  BY AsOfNat DEF Forth, StaysEdited

LEMMA SameListForth ==
  ASSUME EntityInv, cList'.asof = cList.asof
  PROVE  ListForth
  BY AsOfNat DEF ListForth

\* One card is set to new.
LEMMA SetForth ==
  ASSUME EntityInv, NEW s \in Slots, NEW new, Set(s, new), cList'.asof = cList.asof,
         new.asof = card[s].asof \/ new.asof = 0,
         \/ kind \notin {"kv", "cnn"} \/ new.edit # "edit" \/ card[s].edit # "edit"
         \/ /\ card[s].draft => new.draft \/ (card[s].history /\ ~new.history)
            /\ card[s].ttl => new.ttl
  PROVE  AllForth
  <1>1. card'[s] = new /\ \A t \in Slots : t # s => card'[t] = card[t]
    BY DEF Set, EntityInv, ScreenInv, CardsInv
  <1>2. Forth(s)
    BY <1>1, AsOfNat DEF Forth, StaysEdited, Picked
  <1> QED BY <1>1, <1>2, SameForth, SameListForth DEF AllForth

LEMMA DetailForth ==
  ASSUME EntityInv, NEW s \in Slots,
         DetailMount(s) \/ Actions(s) \/ JsonApply(s) \/ CloseCard(s)
  PROVE  AllForth
  <1>1. cList' = cList /\ card \in [Slots -> CardType] /\ card[s] \in CardType
    BY DEF DetailMount, Actions, JsonApply, CloseCard, EntityInv, ScreenInv, CardsInv
  <1>2. CASE UNCHANGED card
    BY <1>1, <1>2, SameForth, SameListForth DEF AllForth
  <1>3. CASE DetailMount(s)
    <2>1. ASSUME kind # "kv", Set(s, Undrafted(card[s]))
          PROVE  AllForth
      <3>1. kind # "cnn"
        BY <1>3 DEF DetailMount, StreamView, BucketView, KvView, StreamFetch, BucketFetch, KvFetch
      <3>2. Undrafted(card[s]).asof = card[s].asof
        BY <1>1 DEF Undrafted, CardType
      <3> QED BY <1>1, <2>1, <3>1, <3>2, SetForth
    <2> QED BY <1>2, <1>3, <2>1 DEF DetailMount
  <1>4. CASE Edit(s)
    <2> DEFINE new == [card[s] EXCEPT !.edit = "edit"]
    <2>1. Set(s, new) /\ card[s].edit = "read"
      BY <1>4 DEF Edit
    <2>2. new.asof = card[s].asof /\ new.edit = "edit"
      BY <1>1 DEF CardType
    <2> HIDE DEF new
    <2> QED BY <1>1, <2>1, <2>2, SetForth
  <1>5. CASE Type(s)
    <2> DEFINE new == [card[s] EXCEPT !.draft = TRUE, !.left = @ \/ card[s].edit = "read"]
    <2>1. Set(s, new)
      BY <1>5 DEF Type
    <2>2. new.asof = card[s].asof /\ new.draft /\ new.ttl = card[s].ttl
      BY <1>1 DEF CardType
    <2> HIDE DEF new
    <2> QED BY <1>1, <2>1, <2>2, SetForth
  <1>6. CASE Cancel(s)
    <2> DEFINE read == [card[s] EXCEPT !.edit = "read", !.left = FALSE,
                          !.draft = @ /\ kind \notin {"kv", "cnn"}]
    <2>1. PICK new \in {read, Undrafted(read)} : Set(s, new)
      BY <1>6 DEF Cancel
    <2>2. read \in CardType /\ read.edit = "read" /\ read.asof = card[s].asof
      BY <1>1 DEF CardType
    <2> HIDE DEF read
    <2>3. new.edit = "read" /\ new.asof = card[s].asof /\ card[s].edit = "edit"
      BY <1>6, <2>1, <2>2 DEF CardType, Undrafted, Cancel
    <2> QED BY <1>1, <2>1, <2>3, SetForth
  <1>7. CASE Save(s)
    <2> DEFINE new == [card[s] EXCEPT !.busy = (kind = "cnn")]
    <2>1. Set(s, new)
      BY <1>7 DEF Save
    <2>2. new.asof = card[s].asof /\ new.draft = card[s].draft /\ new.ttl = card[s].ttl
      BY <1>1 DEF CardType
    <2> HIDE DEF new
    <2> QED BY <1>1, <2>1, <2>2, SetForth
  <1>8. CASE JsonConfig(s) \/ Child(s)
    <2>1. PICK j \in BOOLEAN : Set(s, [card[s] EXCEPT !.json = j])
      <3>1. (~card[s].json) \in BOOLEAN
        BY <1>1 DEF CardType
      <3>2. CASE JsonConfig(s)
        <4>1. Set(s, [card[s] EXCEPT !.json = ~card[s].json])
          BY <1>1, <3>2 DEF JsonConfig
        <4> QED BY <3>1, <4>1
      <3>3. CASE Child(s)
        BY <3>3 DEF Child
      <3> QED BY <1>8, <3>2, <3>3
    <2> DEFINE new == [card[s] EXCEPT !.json = j]
    <2>2. new.asof = card[s].asof /\ new.draft = card[s].draft /\ new.ttl = card[s].ttl
      BY <1>1 DEF CardType
    <2>3. Set(s, new)
      BY <2>1
    <2> HIDE DEF new
    <2> QED BY <1>1, <2>2, <2>3, SetForth
  <1>9. CASE JsonApply(s)
    <2> DEFINE new == [card[s] EXCEPT !.json = FALSE, !.draft = TRUE,
                                      !.left = @ \/ card[s].edit = "read"]
    <2>1. Set(s, new)
      BY <1>9 DEF JsonApply
    <2>2. new.asof = card[s].asof /\ new.draft /\ new.ttl = card[s].ttl
      BY <1>1 DEF CardType
    <2> HIDE DEF new
    <2> QED BY <1>1, <2>1, <2>2, SetForth
  <1>10. CASE CloseCard(s)
    <2>1. Set(s, NoCard) /\ NoCard.asof = 0 /\ NoCard.edit # "edit"
      BY <1>10 DEF CloseCard, NoCard
    <2> QED BY <1>1, <2>1, SetForth
  <1>11. CASE TypeTtl(s)
    <2> DEFINE new == [card[s] EXCEPT !.ttl = TRUE]
    <2>1. Set(s, new)
      BY <1>11 DEF TypeTtl
    <2>2. new.asof = card[s].asof /\ new.draft = card[s].draft /\ new.ttl
      BY <1>1 DEF CardType
    <2> HIDE DEF new
    <2> QED BY <1>1, <2>1, <2>2, SetForth
  <1>12. CASE OpenHistory(s) \/ CloseHistory(s)
    <2>1. PICK h \in BOOLEAN : Set(s, [card[s] EXCEPT !.history = h])
      BY <1>12 DEF OpenHistory, CloseHistory
    <2> DEFINE new == [card[s] EXCEPT !.history = h]
    <2>2. new.asof = card[s].asof /\ new.draft = card[s].draft /\ new.ttl = card[s].ttl
      BY <1>1 DEF CardType
    <2>3. Set(s, new)
      BY <2>1
    <2> HIDE DEF new
    <2> QED BY <1>1, <2>2, <2>3, SetForth
  <1>13. CASE PickRevision(s)
    <2> DEFINE new == [card[s] EXCEPT !.draft = FALSE, !.history = FALSE]
    <2>1. Set(s, new) /\ (card[s].history \/ card[s].edit = "read")
      BY <1>13 DEF PickRevision
    <2>2. new.asof = card[s].asof /\ ~new.history /\ new.ttl = card[s].ttl
      BY <1>1 DEF CardType
    <2> HIDE DEF new
    <2> QED BY <1>1, <2>1, <2>2, SetForth
  <1>14. CASE Actions(s)
    BY <1>2, <1>4, <1>5, <1>6, <1>7, <1>8, <1>11, <1>12, <1>13, <1>14
    DEF Actions, StreamActions, BucketActions, KvActions, ConsumerActions, CnnActions, Pause,
        SaveRefused
  <1> QED BY <1>3, <1>9, <1>10, <1>14

\* What is put in the place of the linked card is not being edited.
LEMMA LinkForth ==
  ASSUME EntityInv, NEW select, NEW view, Link(view, select),
         view.asof = 0, view.edit # "edit"
  PROVE  AllForth
  <1>1. cList'.asof = cList.asof /\ "linked" \in Slots /\ Set("linked", view)
    BY DEF Link, Set, Slots, EntityInv, ScreenInv, ListType
  <1> QED BY <1>1, SetForth

LEMMA ListForthSteps ==
  ASSUME EntityInv, ListNext
  PROVE  \/ AllForth
         \/ /\ card'["loose"] = card["linked"] /\ cList' = cList /\ ~card["loose"].open
            /\ ~card'["linked"].open
  <1>1. ASSUME cList'.asof = cList.asof, card' = card
        PROVE  AllForth
    BY <1>1, SameForth, SameListForth DEF AllForth
  <1>2. CASE ListMount
    BY <1>1, <1>2, AbortedFacts DEF ListMount
  <1>3. CASE Detach
    <2>1. card' = [card EXCEPT !["loose"] = card["linked"], !["linked"] = NoCard]
          /\ cList' = cList /\ ~card["loose"].open
      BY <1>3 DEF Detach
    <2>2. card'["loose"] = card["linked"] /\ card'["linked"] = NoCard
      BY <2>1 DEF EntityInv, ScreenInv, CardsInv, Slots
    <2> QED BY <2>1, <2>2, NoCardFacts
  <1>4. ASSUME NEW n \in Names, Select(n)
        PROVE  AllForth
    <2> DEFINE view == [NoCard EXCEPT !.open = TRUE, !.name = n]
    <2>1. Link(NoCard, NoName) \/ Link(view, n)
      BY <1>4 DEF Select
    <2>2. view.asof = 0 /\ view.edit = "read" /\ NoCard.asof = 0 /\ NoCard.edit = "read"
      BY DEF NoCard
    <2> HIDE DEF view
    <2>3. CASE Link(view, n)
      BY <2>2, <2>3, LinkForth
    <2>4. CASE Link(NoCard, NoName)
      BY <2>2, <2>4, LinkForth
    <2> QED BY <2>1, <2>3, <2>4
  <1>5. CASE Create
    <2> DEFINE view == [NoCard EXCEPT !.open = TRUE, !.edit = "new", !.draft = TRUE]
    <2>1. Link(view, NoName)
      BY <1>5 DEF Create
    <2>2. view.asof = 0 /\ view.edit = "new"
      BY DEF NoCard
    <2> HIDE DEF view
    <2> QED BY <2>1, <2>2, LinkForth
  <1>6. CASE Confirm
    <2>1. CASE ConfirmCnn
      <3>1. cList'.asof = cList.asof /\ "linked" \in Slots /\ Set("linked", NoCard)
        BY <2>1 DEF ConfirmCnn, Set, Slots, EntityInv, ScreenInv, ListType
      <3>2. NoCard.asof = 0 /\ NoCard.edit # "edit"
        BY DEF NoCard
      <3> QED BY <3>1, <3>2, SetForth
    <2>2. CASE ConfirmOthers
      BY <1>1, <2>2 DEF ConfirmOthers
    <2> QED BY <1>6, <2>1, <2>2 DEF Confirm
  <1>7. ASSUME NEW n \in Names, Other(n)
        PROVE  AllForth
    BY <1>1, <1>7 DEF Other
  <1>8. CASE AskCancel \/ \E op, chosen : AskConfirm(op, chosen)
    BY <1>1, <1>8 DEF AskCancel, AskConfirm
  <1> QED BY <1>2, <1>3, <1>4, <1>5, <1>6, <1>7, <1>8
       DEF ListNext, StreamList, BucketList, KvList, ConsumerList, CnnList, Buttons

\* What a save's answer makes of its card.
LEMMA StoredForth ==
  ASSUME EntityInv, NEW r \in reqs, r.op \in {"create", "save", "pause"}, cList'.asof = cList.asof,
         NEW new, SetStored(r, new),
         \/ new = Stored(r) /\ kind \notin {"kv", "cnn"}
         \/ new = [Stored(r) EXCEPT !.edit = "read"]
         \/ new = [Stored(r) EXCEPT !.edit = "read", !.busy = FALSE]
  PROVE  AllForth
  <1>1. r.slot \in Slots \cup {"gone"}
    BY AnswerFacts DEF Placed, RequestType, OfList
  <1>2. CASE r.slot = "gone"
    BY <1>2, SameForth, SameListForth DEF SetStored, AllForth
  <1>3. CASE r.slot # "gone"
    <2> DEFINE c == card[r.slot]
    <2>1. r.slot \in Slots /\ c \in CardType /\ Set(r.slot, new)
      BY <1>1, <1>3 DEF SetStored, Set, EntityInv, ScreenInv, CardsInv
    <2>2. Stored(r).asof = c.asof /\ [Stored(r) EXCEPT !.edit = "read"].asof = c.asof
          /\ [Stored(r) EXCEPT !.edit = "read"].edit = "read"
          /\ [Stored(r) EXCEPT !.edit = "read", !.busy = FALSE].asof = c.asof
          /\ [Stored(r) EXCEPT !.edit = "read", !.busy = FALSE].edit = "read"
      BY <2>1 DEF Stored, CardType
    <2>3. card'[r.slot] = new /\ \A t \in Slots : t # r.slot => card'[t] = card[t]
      BY <2>1 DEF Set, EntityInv, ScreenInv, CardsInv
    <2>4. new.asof = c.asof /\ (new.edit = "read" \/ kind \notin {"kv", "cnn"})
      BY <2>2
    <2> HIDE DEF c
    <2>5. Forth(r.slot)
      BY <2>1, <2>3, <2>4, AsOfNat DEF Forth, StaysEdited, c
    <2> QED BY <2>3, <2>5, SameForth, SameListForth DEF AllForth
  <1> QED BY <1>2, <1>3

LEMMA AnswerForth ==
  ASSUME EntityInv, AnswerNext
  PROVE  AllForth
  <1>1. PICK r \in reqs :
          \/ Serve(r) \/ RequestFails(r) \/ GetAnswer(r) \/ Saved(r) \/ Paused(r)
          \/ ListAnswer(r) \/ Deleted(r) \/ PurgedInPlace(r) \/ PurgedEntry(r)
    BY DEF AnswerNext, StreamListAnswers, BucketListAnswers, KvListAnswers,
           ConsumerListAnswers, CnnListAnswers
  <1>2. cList \in ListType /\ card \in [Slots -> CardType]
    BY DEF EntityInv, ScreenInv, CardsInv
  <1>3. ASSUME cList'.asof = cList.asof, card' = card
        PROVE  AllForth
    BY <1>3, SameForth, SameListForth DEF AllForth
  <1>4. CASE Serve(r)
    BY <1>3, <1>4 DEF Serve
  <1>5. CASE RequestFails(r)
    <2>1. CASE r.op # "get"
      BY <1>3, <1>5, <2>1 DEF RequestFails
    <2>2. CASE r.op = "get"
      <3> DEFINE new == [card[r.slot] EXCEPT !.left = TRUE]
      <3>1. r.slot \in Slots /\ Set(r.slot, new) /\ cList' = cList
        BY <1>5, <2>2, AnswerFacts DEF RequestFails, Set, Placed
      <3>2. /\ new.asof = card[r.slot].asof /\ new.draft = card[r.slot].draft
            /\ new.ttl = card[r.slot].ttl
        BY <1>2, <3>1 DEF CardType
      <3> HIDE DEF new
      <3> QED BY <3>1, <3>2, SetForth
    <2> QED BY <2>1, <2>2
  <1>6. CASE GetAnswer(r)
    <2> DEFINE c == card[r.slot]
               new == [c EXCEPT !.asof = r.asof, !.draft = @ /\ kind = "kv", !.ttl = FALSE,
                                !.revs = (kind = "kv"), !.left = @ /\ kind = "kv"]
    <2>1. /\ r.op = "get" /\ r.served /\ Set(r.slot, new) /\ cList' = cList
      BY <1>6 DEF GetAnswer
    <2>2. r.slot \in Slots /\ kind # "cnn" /\ r.asof \in Nat
      <3>1. r \in RequestType /\ Placed(r)
        BY AnswerFacts
      <3>2. r.asof \in Values
        BY <3>1 DEF RequestType
      <3> QED BY <2>1, <3>1, <3>2, EntityAssumption DEF Placed, Values
    <2>3. c \in CardType
      BY <1>2, <2>2
    <2>4. new.asof = r.asof /\ (c.draft /\ kind = "kv" => new.draft)
      BY <2>3 DEF CardType
    <2>5. kind = "bucket" \/ c.asof <= r.asof
      BY <2>1, <2>2 DEF EntityInv, Newest
    <2> HIDE DEF c, new
    <2>6. card'[r.slot] = new /\ \A t \in Slots : t # r.slot => card'[t] = card[t]
      BY <2>1, <2>2 DEF Set, EntityInv, ScreenInv, CardsInv
    <2>7. Overwritten(r.slot)
      <3>1. r \in reqs \ reqs'
        BY <1>6 DEF GetAnswer
      <3> QED BY <2>1, <3>1 DEF Overwritten
    <2>8. Forth(r.slot)
      BY <2>2, <2>4, <2>5, <2>6, <2>7, AsOfNat DEF Forth, StaysEdited, c
    <2> QED BY <2>1, <2>6, <2>8, SameForth, SameListForth DEF AllForth
  <1>7. CASE ListAnswer(r)
    <2>1. /\ r.op = "list" /\ r.served /\ card' = card
          /\ cList' = [cList EXCEPT !.set = TRUE, !.rows = r.rows, !.asof = r.asof]
      BY <1>7 DEF ListAnswer
    <2>2. cList'.asof = r.asof /\ r.asof \in Nat
      <3>1. r.asof \in Values
        BY AnswerFacts DEF RequestType
      <3>2. cList'.asof = r.asof
        BY <1>2, <2>1 DEF ListType
      <3> QED BY <3>1, <3>2, EntityAssumption DEF Values
    <2>3. kind = "cnn" \/ cList.asof <= r.asof
      BY <2>1 DEF EntityInv, Newest
    <2>4. ListForth
      BY <2>2, <2>3, AsOfNat DEF ListForth
    <2> QED BY <2>1, <2>4, SameForth DEF AllForth
  <1>8. CASE Deleted(r)
    <2>1. CASE card' = card
      <3>1. cList'.asof = cList.asof
        BY <1>2, <1>8 DEF Deleted, ListType
      <3> QED BY <1>3, <2>1, <3>1
    <2>2. CASE card' = [s \in Slots |-> NoCard]
      <3>1. cList'.asof = cList.asof
        BY <1>2, <1>8 DEF Deleted, ListType
      <3>2. \A s \in Slots : Forth(s)
        BY <2>2, NoCardFacts DEF Forth, StaysEdited
      <3> QED BY <3>1, <3>2, SameListForth DEF AllForth
    <2> QED BY <1>8, <2>1, <2>2 DEF Deleted
  <1>9. CASE PurgedInPlace(r) \/ PurgedEntry(r)
    <2>1. card' = card /\ cList'.asof = cList.asof
      BY <1>2, <1>9 DEF PurgedInPlace, PurgedEntry, ListType
    <2> QED BY <1>3, <2>1
  <1>10. CASE Paused(r)
    <2>1. /\ r.op = "pause" /\ SetStored(r, Stored(r)) /\ cList' = cList
      BY <1>10 DEF Paused
    <2>2. kind \notin {"kv", "cnn"}
      BY <2>1, AnswerFacts DEF Placed
    <2> QED BY <2>1, <2>2, StoredForth
  <1>11. CASE Saved(r)
    <2>1. r.op \in {"create", "save", "pause"}
      BY <1>11 DEF Saved
    <2>2. CASE SavedInPlace(r) /\ kind \notin {"kv", "cnn"}
      <3>1. cList'.asof = cList.asof
        BY <1>2, <2>2 DEF SavedInPlace, UpdateList, ListType
      <3>2. SetStored(r, [Stored(r) EXCEPT !.edit = "read"]) \/ SetStored(r, Stored(r))
        BY <2>2 DEF SavedInPlace
      <3> QED BY <2>1, <2>2, <3>1, <3>2, StoredForth
    <2>3. CASE KvSaved(r)
      <3>1. cList'.asof = cList.asof
        <4>1. ASSUME NEW c \in AbortedList, cList' = [c EXCEPT !.select = r.name]
              PROVE  cList'.asof = cList.asof
          BY <4>1, AbortedFacts DEF ListType
        <4> QED BY <2>3, <4>1 DEF KvSaved
      <3>2. SetStored(r, [Stored(r) EXCEPT !.edit = "read"])
        BY <2>3 DEF KvSaved
      <3> QED BY <2>1, <3>1, <3>2, StoredForth
    <2>4. CASE CnnSaved(r)
      <3>1. cList'.asof = cList.asof
        <4>1. CASE ~cList.set
          BY <2>4, <4>1 DEF CnnSaved
        <4>2. CASE cList.set
          <5>1. PICK sel : cList' = [cList EXCEPT !.rows[r.name] = r.val, !.select = sel]
            BY <2>4, <4>2 DEF CnnSaved
          <5> QED BY <1>2, <5>1 DEF ListType
        <4> QED BY <4>1, <4>2
      <3>2. CASE ~cList.set
        BY <1>3, <2>4, <3>1, <3>2 DEF CnnSaved
      <3>3. CASE cList.set
        <4>1. SetStored(r, [Stored(r) EXCEPT !.edit = "read", !.busy = FALSE])
          BY <2>4, <3>3 DEF CnnSaved
        <4> QED BY <2>1, <3>1, <4>1, StoredForth
      <3> QED BY <3>2, <3>3
    <2> QED BY <1>11, <2>2, <2>3, <2>4 DEF Saved, StreamSaved, BucketSaved, ConsumerSaved
  <1> QED BY <1>1, <1>4, <1>5, <1>6, <1>7, <1>8, <1>9, <1>10, <1>11

LEMMA StepsForth ==
  ASSUME EntityInv, [EntityNext]_entityVars
  PROVE  \/ AllForth
         \/ /\ card'["loose"] = card["linked"] /\ cList' = cList /\ ~card["loose"].open
            /\ ~card'["linked"].open
  <1>1. CASE UNCHANGED entityVars
    <2>1. cList' = cList /\ card' = card
      BY <1>1 DEF entityVars
    <2> QED BY <2>1, SameForth, SameListForth DEF AllForth
  <1>2. CASE DetailNext
    BY <1>2, DetailForth DEF DetailNext
  <1> QED BY <1>1, <1>2, ListForthSteps, AnswerForth DEF EntityNext

\* Answers of reads are taken in the order of their questions: neither the list nor a
\* detail goes back to what an earlier question was told, where the question before is
\* aborted (for connections and buckets it is not).
THEOREM AnswersInAskedOrder == EntitySpec => InAskedOrder
  <1> DEFINE Ordered ==
        /\ kind # "cnn" => cList'.asof >= cList.asof
        /\ kind # "bucket" => \A s \in Slots :
             card'[s].asof >= card[s].asof \/ card'[s].asof = 0 \/ card'["loose"] = card["linked"]
  <1>1. EntityInv /\ [EntityNext]_entityVars => Ordered
    <2> SUFFICES ASSUME EntityInv, [EntityNext]_entityVars
                 PROVE  Ordered
      OBVIOUS
    <2>1. CASE AllForth
      BY <2>1 DEF AllForth, ListForth, Forth
    <2>2. CASE card'["loose"] = card["linked"] /\ cList' = cList
      BY <2>2, AsOfNat
    <2> QED BY <2>1, <2>2, StepsForth
  <1>2. EntityInv /\ [EntityNext]_entityVars => [Ordered]_entityVars
    BY <1>1
  <1> HIDE DEF Ordered
  <1>3. EntitySpec => [][Ordered]_entityVars
    BY <1>2, EntityInvHolds, PTL DEF EntitySpec
  <1> QED BY <1>3 DEF InAskedOrder, Ordered

\* Nothing that is typed into an entry or a connection is lost while it is edited, whatever
\* answers come meanwhile: the text goes when a revision is picked in the dialog that EDIT
\* does not close, the TTL when the answer of a get takes the entry's place, and nothing
\* else takes either (stores/stacks/kventry/detail.ts).
THEOREM DraftsAreKept == EntitySpec => DraftKept
  <1> DEFINE Keeps ==
        \A s \in Slots :
          (/\ kind \in {"kv", "cnn"} /\ card[s].edit = "edit"
           /\ card'[s].open /\ card'[s].edit = "edit" /\ card'[s].name = card[s].name)
          => /\ card[s].draft => card'[s].draft \/ Picked(s)
             /\ card[s].ttl => card'[s].ttl \/ Overwritten(s)
  <1>1. EntityInv /\ [EntityNext]_entityVars => Keeps
    <2> SUFFICES ASSUME EntityInv, [EntityNext]_entityVars
                 PROVE  Keeps
      OBVIOUS
    <2>1. CASE AllForth
      <3>1. \A s \in Slots : Forth(s)
        BY <2>1 DEF AllForth
      <3>2. ASSUME NEW s \in Slots, kind \in {"kv", "cnn"}, card[s].edit = "edit",
                   card'[s].open, card'[s].edit = "edit", card'[s].name = card[s].name
            PROVE  /\ card[s].draft => card'[s].draft \/ Picked(s)
                   /\ card[s].ttl => card'[s].ttl \/ Overwritten(s)
        <4>1. StaysEdited(s) /\ Forth(s)
          BY <3>1, <3>2 DEF StaysEdited
        <4>2. card[s].draft => card'[s].draft \/ Picked(s)
          BY <4>1 DEF Forth
        <4>3. card[s].ttl => card'[s].ttl \/ Overwritten(s)
          BY <4>1 DEF Forth
        <4> QED BY <4>2, <4>3
      <3> QED BY <3>2
    <2>2. CASE ~card["loose"].open /\ ~card'["linked"].open
      <3>1. card["loose"] = NoCard
        BY <2>2 DEF EntityInv, ScreenInv, CardsInv, Slots
      <3>2. card["loose"].edit = "read"
        BY <3>1 DEF NoCard
      <3> QED BY <2>2, <3>2 DEF Slots
    <2> QED BY <2>1, <2>2, StepsForth
  <1>2. EntityInv /\ [EntityNext]_entityVars => [Keeps]_entityVars
    BY <1>1
  <1> HIDE DEF Keeps
  <1>3. EntitySpec => [][Keeps]_entityVars
    BY <1>2, EntityInvHolds, PTL DEF EntitySpec
  <1> QED BY <1>3 DEF DraftKept, Keeps

-----------------------------------------------------------------------------
(* Which forms have which inputs. *)

FormKinds == {"stream", "consumer", "bucket", "connection"}

\* One section: sources are a stream's or a bucket's, authentications a connection's,
\* which are open while it is edited.
Closing(k, s) ==
  \A f \in DOMAIN s :
    /\ f = "sources" => k \in {"stream", "bucket"}
    /\ f \in {"auth", "metrics"} => k = "connection" /\ s[f] = "edit"

LEMMA SectionsClose ==
  ASSUME NEW k, NEW parts, \A s \in parts : Closing(k, s)
  PROVE  Closing(k, Sections(parts))
  <1> SUFFICES ASSUME NEW f \in DOMAIN Sections(parts)
               PROVE  /\ f = "sources" => k \in {"stream", "bucket"}
                      /\ f \in {"auth", "metrics"} =>
                           k = "connection" /\ Sections(parts)[f] = "edit"
    BY DEF Closing
  <1> DEFINE s == CHOOSE s \in parts : f \in DOMAIN s
  <1>1. Sections(parts)[f] = s[f]
    BY DEF Sections
  <1>2. \E r \in parts : f \in DOMAIN r
    BY DEF Sections
  <1>3. s \in parts /\ f \in DOMAIN s
    BY <1>2
  <1>4. Closing(k, s)
    BY <1>3
  <1> HIDE DEF s
  <1> QED BY <1>1, <1>3, <1>4 DEF Closing

LEMMA FormsClose == ASSUME NEW k \in FormKinds PROVE Closing(k, FormOf(k))
  <1>1. CASE k = "stream"
    <2>1. /\ Closing("stream", StreamBase) /\ Closing("stream", StreamSources)
          /\ Closing("stream", StreamRetention) /\ Closing("stream", StreamLimits)
          /\ Closing("stream", StreamPublish) /\ Closing("stream", StreamAdvanced)
          /\ Closing("stream", StreamTransform)
      BY DEF Closing, StreamBase, StreamSources,
          StreamRetention, StreamLimits, StreamPublish, StreamAdvanced, StreamTransform
    <2>2. Closing("stream", StreamForm)
      BY <2>1, SectionsClose DEF StreamForm
    <2> QED BY <1>1, <2>2 DEF FormOf
  <1>2. CASE k = "consumer"
    <2>1. /\ Closing("consumer", ConsumerBase) /\ Closing("consumer", ConsumerDelivery)
          /\ Closing("consumer", ConsumerAck) /\ Closing("consumer", ConsumerPull)
          /\ Closing("consumer", ConsumerAdvanced)
      BY DEF Closing, ConsumerBase, ConsumerDelivery,
          ConsumerAck, ConsumerPull, ConsumerAdvanced
    <2>2. Closing("consumer", ConsumerForm)
      BY <2>1, SectionsClose DEF ConsumerForm
    <2> QED BY <1>2, <2>2 DEF FormOf
  <1>3. CASE k = "bucket"
    <2>1. /\ Closing("bucket", BucketBase) /\ Closing("bucket", BucketSources)
          /\ Closing("bucket", BucketStore)
      BY DEF Closing, BucketBase, BucketSources,
          BucketStore
    <2>2. Closing("bucket", BucketForm)
      BY <2>1, SectionsClose DEF BucketForm
    <2> QED BY <1>3, <2>2 DEF FormOf
  <1>4. CASE k = "connection"
    <2>1. Closing("connection", CnnForm)
      BY DEF Closing, CnnForm
    <2> QED BY <1>4, <2>1 DEF FormOf
  <1> QED BY <1>1, <1>2, <1>3, <1>4 DEF FormKinds

LEMMA BucketMirror == FormOf("bucket")["mirror"] = "new"
  <1> DEFINE parts == {BucketBase, BucketSources, BucketStore}
             s == CHOOSE s \in parts : "mirror" \in DOMAIN s
  <1>1. "mirror" \in DOMAIN BucketSources /\ BucketSources["mirror"] = "new"
    BY DEF BucketSources
  <1>2. "mirror" \notin DOMAIN BucketBase /\ "mirror" \notin DOMAIN BucketStore
    BY DEF BucketBase, BucketStore
  <1>3. s = BucketSources
    BY <1>1, <1>2
  <1>4. FormOf("bucket") = Sections(parts)
    BY DEF FormOf, BucketForm
  <1>5. "mirror" \in UNION {DOMAIN r : r \in parts}
    BY <1>1
  <1>6. Sections(parts)["mirror"] = s["mirror"]
    BY <1>5 DEF Sections
  <1> QED BY <1>1, <1>3, <1>4, <1>6

-----------------------------------------------------------------------------
(* The form of a configuration. *)

Policies == {"all", "seq", "time"}
Fields == UNION {FieldsOf(k) : k \in FormKinds}
FormRecord == [kind: FormKinds, edit: {"new", "edit", "read"}, changed: SUBSET Fields,
               lost: SUBSET Fields, shared: SUBSET {"config", "nested"}, row: SUBSET Fields,
               policy: Policies, start: SUBSET {"optStartSeq", "optStartTime"},
               limits: BOOLEAN, below: BOOLEAN, json: BOOLEAN]

\* A connection is edited in a copy.
CnnCopied == form.kind = "connection" /\ form.edit # "read" => form.shared = {}

FormInv == form \in FormRecord /\ CnnCopied /\ RowKept /\ StartSound /\ DraftWhole

\* What an edit does, whichever handler it is of.
LEMMA Edits ==
  ASSUME FormInv, NEW f \in FieldsOf(form.kind), EditField(f)
  PROVE  /\ form' \in FormRecord
         /\ form'.kind = form.kind /\ form'.edit = form.edit /\ (form'.json <=> form.json)
         /\ form'.changed \subseteq form.changed \cup {f}
         /\ form'.shared \subseteq form.shared
         /\ form.kind \in {"consumer", "connection"} => form'.row \subseteq form.row
         /\ (form.start \subseteq StartOf(form.policy)) => (form'.start \subseteq StartOf(form'.policy))
         /\ form'.lost # {} => \/ form.lost # {} /\ (form.changed \subseteq form'.changed)
                               \/ /\ form.kind = "bucket" /\ form.edit = "new"
                                  /\ "mirror" \in form'.changed
  <1>1. form \in FormRecord /\ InputOpen(f) /\ InputShown(f) /\ form.kind \in FormKinds /\ f \in Fields
    BY DEF FormInv, FormRecord, EditField, Fields
  <1>2. Closing(form.kind, FormOf(form.kind)) /\ DOMAIN FormOf(form.kind) = FieldsOf(form.kind)
    BY <1>1, FormsClose DEF FieldsOf
  <1>3. ASSUME NEW g \in Fields
        PROVE  /\ Edited(g) \in FormRecord /\ Edited(g).kind = form.kind
               /\ Edited(g).edit = form.edit /\ (Edited(g).json <=> form.json)
               /\ Edited(g).changed = form.changed \cup {g} /\ Edited(g).lost = form.lost \ {g}
               /\ Edited(g).shared = form.shared /\ Edited(g).row = form.row
               /\ Edited(g).start = form.start /\ Edited(g).policy = form.policy
    BY <1>1 DEF Edited, FormRecord
  <1>4. ASSUME NEW g \in Fields
        PROVE  /\ Copied(g) \in FormRecord /\ Copied(g).kind = form.kind
               /\ Copied(g).edit = form.edit /\ (Copied(g).json <=> form.json)
               /\ Copied(g).changed = form.changed \cup {g} /\ Copied(g).lost = form.lost \ {g}
               /\ Copied(g).shared \subseteq form.shared /\ Copied(g).row = form.row
               /\ Copied(g).start = form.start /\ Copied(g).policy = form.policy
    <2> DEFINE e == Edited(g)
    <2>1. Copied(g) = [e EXCEPT !.shared = e.shared \ {"config"}]
      BY DEF Copied
    <2>2. /\ e \in FormRecord /\ e.kind = form.kind /\ e.edit = form.edit /\ (e.json <=> form.json)
          /\ e.changed = form.changed \cup {g} /\ e.lost = form.lost \ {g}
          /\ e.shared = form.shared /\ e.row = form.row
          /\ e.start = form.start /\ e.policy = form.policy
      BY <1>3
    <2> HIDE DEF e
    <2> QED BY <2>1, <2>2 DEF FormRecord
  <1>5. CASE ChangeProp(f)
    <2> DEFINE e == Copied(f)
               start == IF f \in {"optStartSeq", "optStartTime"} THEN e.start \cup {f} ELSE e.start
               limits == IF f = "consumerLimits" THEN ~e.limits ELSE e.limits
    <2>1. form' = [e EXCEPT !.start = start, !.limits = limits]
      BY <1>5 DEF ChangeProp
    <2>2. /\ e \in FormRecord /\ e.kind = form.kind /\ e.edit = form.edit /\ (e.json <=> form.json)
          /\ e.changed = form.changed \cup {f} /\ e.lost = form.lost \ {f}
          /\ e.shared \subseteq form.shared /\ e.row = form.row
          /\ e.start = form.start /\ e.policy = form.policy
      BY <1>1, <1>4
    <2>3. f \in {"optStartSeq", "optStartTime"} => f \in StartOf(form.policy)
      BY <1>1 DEF InputShown
    <2>4. start \in SUBSET {"optStartSeq", "optStartTime"} /\ limits \in BOOLEAN
      BY <2>2 DEF FormRecord
    <2>5. form.start \subseteq StartOf(form.policy) => start \subseteq StartOf(form.policy)
      BY <2>2, <2>3
    <2> HIDE DEF e, start, limits
    <2> QED BY <2>1, <2>2, <2>4, <2>5 DEF FormRecord
  <1>6. ASSUME f = "deliverPolicy", NEW p \in Policies, PickPolicy(p)
        PROVE  /\ form' \in FormRecord
               /\ form'.kind = form.kind /\ form'.edit = form.edit /\ (form'.json <=> form.json)
               /\ form'.changed = form.changed \cup {f} /\ form'.lost = form.lost \ {f}
               /\ form'.shared \subseteq form.shared /\ form'.row = form.row
               /\ form'.start \subseteq StartOf(form'.policy)
    <2> DEFINE e == Copied(f)
    <2>1. form' = [e EXCEPT !.policy = p, !.start = e.start \cap StartOf(p)]
      BY <1>6 DEF PickPolicy
    <2>2. /\ e \in FormRecord /\ e.kind = form.kind /\ e.edit = form.edit /\ (e.json <=> form.json)
          /\ e.changed = form.changed \cup {f} /\ e.lost = form.lost \ {f}
          /\ e.shared \subseteq form.shared /\ e.row = form.row
      BY <1>1, <1>4
    <2> HIDE DEF e
    <2> QED BY <2>1, <2>2 DEF FormRecord
  <1>7. ASSUME NEW rest \in SUBSET {f},
               \/ form' = [Copied(f) EXCEPT !.row = @ \cup rest]
               \/ form' = [Copied(f) EXCEPT !.shared = {}]
               \/ form' = [Edited(f) EXCEPT !.row = @ \cup rest]
        PROVE  /\ form'.kind = form.kind /\ form'.edit = form.edit /\ (form'.json <=> form.json)
               /\ form'.changed = form.changed \cup {f} /\ form'.lost = form.lost \ {f}
               /\ form'.shared \subseteq form.shared /\ form'.row \subseteq form.row \cup rest
               /\ form'.start = form.start /\ form'.policy = form.policy
               /\ form' \in FormRecord
    <2>1. ASSUME NEW e, e = Copied(f) \/ e = Edited(f)
          PROVE  /\ e \in FormRecord /\ e.kind = form.kind /\ e.edit = form.edit
                 /\ (e.json <=> form.json)
                 /\ e.changed = form.changed \cup {f} /\ e.lost = form.lost \ {f}
                 /\ e.shared \subseteq form.shared /\ e.row = form.row
                 /\ e.start = form.start /\ e.policy = form.policy
      BY <1>1, <1>3, <1>4, <2>1
    <2>2. PICK e : /\ e = Copied(f) \/ e = Edited(f)
                   /\ \/ form' = [e EXCEPT !.row = e.row \cup rest]
                      \/ form' = [e EXCEPT !.shared = {}]
      BY <1>7
    <2>3. /\ e \in FormRecord /\ e.kind = form.kind /\ e.edit = form.edit /\ (e.json <=> form.json)
          /\ e.changed = form.changed \cup {f} /\ e.lost = form.lost \ {f}
          /\ e.shared \subseteq form.shared /\ e.row = form.row
          /\ e.start = form.start /\ e.policy = form.policy
      BY <2>1, <2>2
    <2>4. rest \subseteq Fields
      BY <1>1
    <2> QED BY <2>2, <2>3, <2>4 DEF FormRecord
  <1>8. CASE f = "sources" /\ (ChangeSource \/ ChangeSources)
    <2>1. ThroughNested(f) \in SUBSET {f}
      BY <1>8 DEF ThroughNested
    <2>2. form.kind \notin {"consumer", "connection"}
      BY <1>2, <1>8 DEF Closing
    <2>3. \/ form' = [Copied(f) EXCEPT !.row = @ \cup ThroughNested(f)]
          \/ form' = [Copied(f) EXCEPT !.shared = {}]
      BY <1>8 DEF ChangeSource, ChangeSources
    <2> QED BY <1>7, <2>1, <2>2, <2>3
  <1>9. CASE f \in {"auth", "metrics"} /\ ChangeAuth(f)
    <2>1. form.kind = "connection" /\ FormOf(form.kind)[f] = "edit"
      BY <1>2, <1>9 DEF Closing
    <2>2. form.edit # "read"
      BY <1>1, <2>1 DEF InputOpen
    <2>3. ThroughNested(f) = {}
      BY <2>1, <2>2 DEF FormInv, CnnCopied, ThroughNested
    <2>4. PICK rest \in SUBSET {f} : rest = {}
      OBVIOUS
    <2>5. form' = [Copied(f) EXCEPT !.row = @ \cup rest]
      BY <1>9, <2>3, <2>4 DEF ChangeAuth
    <2> QED BY <1>7, <2>4, <2>5
  <1>10. CASE form.kind = "bucket" /\ f = "placement" /\ ChangePlacement
    <2> DEFINE rest == IF "config" \in form.shared THEN {"placement"} ELSE {}
    <2>1. rest \in SUBSET {f}
      BY <1>10
    <2>2. form' = [Edited(f) EXCEPT !.row = @ \cup rest]
      BY <1>10 DEF ChangePlacement
    <2> HIDE DEF rest
    <2> QED BY <1>7, <1>10, <2>1, <2>2
  <1>11. CASE form.kind = "bucket" /\ f = "mirror" /\ CheckMirror
    <2>1. form.edit = "new"
      BY <1>1, <1>11, BucketMirror DEF InputOpen
    <2>2. FieldsOf("bucket") \subseteq Fields /\ "mirror" \in Fields
      BY <1>1, <1>11 DEF Fields, FormKinds
    <2> DEFINE gone == FieldsOf("bucket") \ {"mirror"}
    <2>3. gone \in SUBSET Fields
      BY <2>2
    <2>4. form' = [form EXCEPT !.changed = {"mirror"}, !.lost = gone, !.shared = {}]
      BY <1>11 DEF CheckMirror
    <2> HIDE DEF gone
    <2> QED BY <1>1, <1>11, <2>1, <2>2, <2>3, <2>4 DEF FormRecord
  <1>12. \/ ChangeProp(f)
         \/ f = "deliverPolicy" /\ \E p \in Policies : PickPolicy(p)
         \/ f = "sources" /\ (ChangeSource \/ ChangeSources)
         \/ f \in {"auth", "metrics"} /\ ChangeAuth(f)
         \/ form.kind = "bucket" /\ f = "placement" /\ ChangePlacement
         \/ form.kind = "bucket" /\ f = "mirror" /\ CheckMirror
    BY DEF EditField, Policies
  <1> QED BY <1>5, <1>6, <1>8, <1>9, <1>10, <1>11, <1>12

LEMMA EditsKeep ==
  ASSUME FormInv, NEW f \in FieldsOf(form.kind), EditField(f)
  PROVE  FormInv'
  <1>1. /\ form' \in FormRecord
        /\ form'.kind = form.kind /\ form'.edit = form.edit /\ (form'.json <=> form.json)
        /\ form'.changed \subseteq form.changed \cup {f}
        /\ form'.shared \subseteq form.shared
        /\ form.kind \in {"consumer", "connection"} => form'.row \subseteq form.row
        /\ (form.start \subseteq StartOf(form.policy)) => (form'.start \subseteq StartOf(form'.policy))
        /\ form'.lost # {} => \/ form.lost # {} /\ (form.changed \subseteq form'.changed)
                              \/ /\ form.kind = "bucket" /\ form.edit = "new"
                                 /\ "mirror" \in form'.changed
    BY Edits
  <1>2. CnnCopied' /\ RowKept' /\ StartSound' /\ DraftWhole'
    BY <1>1 DEF FormInv, CnnCopied, RowKept,
        StartSound, DraftWhole
  <1> QED BY <1>1, <1>2 DEF FormInv

LEMMA FormStarts == FormInit => FormInv
  <1> SUFFICES ASSUME NEW k \in FormKinds, form = NewForm(k) PROVE FormInv
    BY DEF FormInit, FormKinds
  <1>1. /\ form = [kind |-> k, edit |-> "new", changed |-> {}, lost |-> {}, shared |-> {}, row |-> {},
                   policy |-> "all", start |-> {}, limits |-> FALSE, below |-> FALSE, json |-> FALSE]
    BY DEF NewForm
  <1>2. form \in FormRecord
    BY <1>1 DEF FormRecord, Policies
  <1> QED BY <1>1, <1>2 DEF FormInv, CnnCopied, RowKept, StartSound, DraftWhole

LEMMA AnswersKeep ==
  ASSUME FormInv, NEW shared \in SUBSET {"config", "nested"}, NEW changed \in SUBSET form.row,
         FormAnswer(shared, changed)
  PROVE  FormInv'
  <1>1. form \in FormRecord /\ RowKept
    BY DEF FormInv
  <1>2. PICK p \in Policies, l \in BOOLEAN :
          form' = [NewForm(form.kind) EXCEPT !.edit = "read", !.changed = changed, !.shared = shared,
                     !.row = form.row, !.below = form.below, !.policy = p, !.start = StartOf(p),
                     !.limits = l]
    BY DEF FormAnswer, Policies
  <1>3. form' = [kind |-> form.kind, edit |-> "read", changed |-> changed, lost |-> {},
                 shared |-> shared, row |-> form.row, policy |-> p, start |-> StartOf(p),
                 limits |-> l, below |-> form.below, json |-> FALSE]
    BY <1>2 DEF NewForm
  <1>4. StartOf(p) \in SUBSET {"optStartSeq", "optStartTime"}
    BY DEF StartOf, Policies
  <1>5. form' \in FormRecord
    BY <1>1, <1>3, <1>4 DEF FormRecord
  <1> QED
    BY <1>1, <1>3, <1>5 DEF FormInv, CnnCopied, RowKept, StartSound, DraftWhole

\* The steps that write the form record themselves.
LEMMA FormStep ==
  ASSUME FormInv, FormNext
  PROVE  FormInv'
  <1>1. form \in FormRecord /\ form.kind \in FormKinds
    BY DEF FormInv, FormRecord
  <1>2. ASSUME NEW f \in FieldsOf(form.kind), ApplyJson(f) PROVE FormInv'
    <2> DEFINE start == IF form.kind = "consumer" THEN {"optStartSeq", "optStartTime"} ELSE {}
    <2>1. form' = [form EXCEPT !.below = FALSE, !.json = TRUE, !.changed = {f}, !.lost = {},
                               !.shared = {}, !.start = start]
      BY <1>2 DEF ApplyJson
    <2>2. f \in Fields /\ start \in SUBSET {"optStartSeq", "optStartTime"}
      BY <1>1 DEF Fields
    <2> HIDE DEF start
    <2>3. /\ form' \in FormRecord /\ form'.json /\ form'.lost = {} /\ form'.shared = {}
          /\ form'.row = form.row /\ form'.kind = form.kind
      BY <1>1, <2>1, <2>2 DEF FormRecord
    <2> QED
      BY <2>3 DEF FormInv, CnnCopied, RowKept, StartSound, DraftWhole
  <1>3. CASE OpenJson
    <2>1. form' = [form EXCEPT !.below = TRUE]
      BY <1>3 DEF OpenJson
    <2>2. /\ form' \in FormRecord /\ form'.kind = form.kind /\ form'.edit = form.edit
          /\ (form'.json <=> form.json) /\ form'.changed = form.changed /\ form'.lost = form.lost
          /\ form'.shared = form.shared /\ form'.row = form.row
          /\ form'.policy = form.policy /\ form'.start = form.start
      BY <1>1, <2>1 DEF FormRecord
    <2> QED
      BY <2>2 DEF FormInv, CnnCopied, RowKept, StartSound, DraftWhole
  <1>4. CASE SaveForm
    <2>1. PICK listed \in BOOLEAN :
            form' = [form EXCEPT !.edit = "read", !.changed = {}, !.lost = {}, !.json = FALSE,
                       !.start = StartOf(form.policy),
                       !.shared = IF listed THEN {"config", "nested"} ELSE {},
                       !.row = IF listed THEN {} ELSE form.row]
      BY <1>4 DEF SaveForm
    <2>2. StartOf(form.policy) \in SUBSET {"optStartSeq", "optStartTime"}
      BY <1>1 DEF StartOf, FormRecord, Policies
    <2>3. /\ form' \in FormRecord /\ form'.edit = "read" /\ form'.changed = {} /\ form'.lost = {}
          /\ form'.row \subseteq form.row /\ form'.start = StartOf(form'.policy)
          /\ form'.kind = form.kind
      BY <1>1, <2>1, <2>2 DEF FormRecord
    <2> QED
      BY <2>3 DEF FormInv, CnnCopied, RowKept, StartSound, DraftWhole
  <1>5. CASE EditForm
    <2>1. /\ form.edit = "read"
          /\ form' = [form EXCEPT !.edit = "edit",
                                  !.shared = IF form.kind = "connection" THEN {} ELSE form.shared]
      BY <1>5 DEF EditForm
    <2>2. /\ form' \in FormRecord /\ form'.kind = form.kind /\ form'.edit = "edit"
          /\ (form'.json <=> form.json) /\ form'.changed = form.changed /\ form'.lost = form.lost
          /\ form.kind = "connection" => form'.shared = {}
          /\ form'.row = form.row /\ form'.policy = form.policy /\ form'.start = form.start
      BY <1>1, <2>1 DEF FormRecord
    <2> QED
      BY <2>1, <2>2 DEF FormInv, CnnCopied, RowKept, StartSound, DraftWhole
  <1>6. CASE ReloadList
    <2>1. form' = [form EXCEPT !.row = {}, !.shared = {}]
      BY <1>6 DEF ReloadList
    <2>2. /\ form' \in FormRecord /\ form'.kind = form.kind /\ form'.edit = form.edit
          /\ (form'.json <=> form.json) /\ form'.changed = form.changed /\ form'.lost = form.lost
          /\ form'.shared = {} /\ form'.row = {}
          /\ form'.policy = form.policy /\ form'.start = form.start
      BY <1>1, <2>1 DEF FormRecord
    <2> QED
      BY <2>2 DEF FormInv, CnnCopied, RowKept, StartSound, DraftWhole
  <1>7. CASE CancelForm \/ FetchForm \/ OpenRow
    <2>1. FormAnswer({}, {}) \/ FormAnswer({"config", "nested"}, form.row)
      BY <1>7 DEF CancelForm, FetchForm, OpenRow
    <2> QED BY <2>1, AnswersKeep
  <1>8. \A f \in FieldsOf(form.kind) : EditField(f) => FormInv'
    BY EditsKeep
  <1> QED BY <1>2, <1>3, <1>4, <1>5, <1>6, <1>7, <1>8 DEF FormNext

-----------------------------------------------------------------------------
(* The sources of a stream. *)

Source == [name: SourceNames \cup {""}, ext: BOOLEAN]

\* The dialog shows the API of the source that is chosen, or another one has its name.
ShowsIts(list, chosen, external) ==
  chosen # 0 => \/ external <=> list[chosen].ext
                \/ \E i \in 1..Len(list) : i # chosen /\ list[i].name = list[chosen].name
SourcesInv ==
  /\ sources \in [list: Seq(Source), chosen: Nat, external: BOOLEAN]
  /\ sources.chosen \in 0..Len(sources.list)
  /\ ShowsIts(sources.list, sources.chosen, sources.external)

LEMMA DialogShows ==
  ASSUME NEW list \in Seq(Source), NEW chosen \in 0..Len(list), NEW mounted \in BOOLEAN, NEW name,
         NEW external \in BOOLEAN, sources' = Dialog(list, chosen, mounted, name, external),
         (mounted /\ chosen # 0 /\ list[chosen].name = name) => ShowsIts(list, chosen, external)
  PROVE  SourcesInv'
  <1> DEFINE e == IF chosen = 0 THEN FALSE
                  ELSE IF mounted /\ list[chosen].name = name THEN external ELSE list[chosen].ext
  <1>1. Len(list) \in Nat /\ (chosen # 0 => list[chosen] \in Source)
    <2>1. Len(list) \in Nat /\ \A i \in 1..Len(list) : list[i] \in Source
      BY LenProperties
    <2> QED BY <2>1
  <1>2. e \in BOOLEAN
    BY <1>1 DEF Source
  <1>3. ShowsIts(list, chosen, e)
    <2>1. CASE mounted /\ chosen # 0 /\ list[chosen].name = name
      BY <2>1
    <2>2. CASE ~(mounted /\ chosen # 0 /\ list[chosen].name = name)
      BY <2>2 DEF ShowsIts
    <2> QED BY <2>1, <2>2
  <1>4. sources' = [list |-> list, chosen |-> chosen, external |-> e]
    BY DEF Dialog
  <1> HIDE DEF e
  <1>5. sources' \in [list: Seq(Source), chosen: Nat, external: BOOLEAN]
    BY <1>1, <1>2, <1>4
  <1>6. sources'.list = list /\ sources'.chosen = chosen /\ sources'.external = e
    BY <1>4
  <1> QED BY <1>3, <1>5, <1>6 DEF SourcesInv

LEMMA SourcesStart == SourcesInit => SourcesInv
  <1> SUFFICES ASSUME NEW n \in 0..MaxSources,
                      NEW list \in [1..n -> [name: SourceNames, ext: BOOLEAN]],
                      sources = [list |-> list, chosen |-> 0, external |-> FALSE]
               PROVE  SourcesInv
    BY DEF SourcesInit, Dialog
  <1>1. list \in Seq(Source) /\ Len(list) \in Nat
    <2>1. MaxSources \in Nat
      BY FormAssumption
    <2>2. n \in Nat
      BY <2>1
    <2>3. list \in [1..n -> Source]
      BY DEF Source
    <2>4. list \in Seq(Source)
      BY <2>2, <2>3
    <2> QED BY <2>4, LenProperties
  <1>2. sources \in [list: Seq(Source), chosen: Nat, external: BOOLEAN]
    BY <1>1
  <1>3. sources.list = list /\ sources.chosen = 0
    OBVIOUS
  <1> QED BY <1>1, <1>2, <1>3 DEF SourcesInv, ShowsIts

LEMMA SourcesStep ==
  ASSUME SourcesInv, SourcesNext
  PROVE  SourcesInv'
  <1> DEFINE list == sources.list
             chosen == sources.chosen
             external == sources.external
             n == Len(list)
  <1>1. /\ list \in Seq(Source) /\ n \in Nat /\ chosen \in 0..n /\ external \in BOOLEAN
        /\ ShowsIts(list, chosen, external) /\ \A i \in 1..n : list[i] \in Source
    BY LenProperties DEF SourcesInv
  <1>2. chosen # 0 => Shown = list[chosen].name
    BY DEF Shown
  <1>3. ASSUME NEW after \in Seq(Source), NEW next \in 0..Len(after), Render(after, next),
               (chosen # 0 /\ next # 0 /\ after[next].name = list[chosen].name)
                 => ShowsIts(after, next, external)
        PROVE  SourcesInv'
    <2>1. sources' = Dialog(after, next, chosen # 0, Shown, external)
      BY <1>3 DEF Render
    <2>2. ((chosen # 0) /\ next # 0 /\ after[next].name = Shown) => ShowsIts(after, next, external)
      BY <1>2, <1>3
    <2>3. (chosen # 0) \in BOOLEAN
      OBVIOUS
    <2> HIDE DEF chosen, external, list
    <2> QED BY <1>1, <2>1, <2>2, <2>3, DialogShows
  <1> HIDE DEF list, chosen, external, n
  <1>4. ASSUME NEW i \in 1..n, ChooseSource(i) PROVE SourcesInv'
    <2> DEFINE next == IF chosen = i THEN 0 ELSE i
    <2>1. Render(list, next) /\ next \in 0..n
      BY <1>1, <1>4 DEF ChooseSource, list, chosen
    <2>2. (chosen # 0 /\ next # 0 /\ list[next].name = list[chosen].name)
            => ShowsIts(list, next, external)
      BY <1>1 DEF ShowsIts, n
    <2> HIDE DEF next
    <2> QED BY <1>1, <1>3, <2>1, <2>2 DEF n
  <1>5. CASE AddSource
    <2>0. PICK new : new = [name |-> "", ext |-> FALSE]
      OBVIOUS
    <2> DEFINE after == Append(list, new)
    <2>1. PICK next \in {chosen, n + 1} : Render(after, next)
      BY <1>5, <2>0 DEF AddSource, list, chosen, n
    <2>2. \A i \in 1..n : list[i].name # ""
      <3>1. DOMAIN list = 1..n
        BY <1>1 DEF n
      <3> QED BY <1>5, <3>1 DEF AddSource, list
    <2>3. new \in Source /\ new.name = ""
      BY <2>0 DEF Source
    <2>4. /\ after \in Seq(Source) /\ Len(after) = n + 1 /\ after[n + 1] = new
          /\ \A i \in 1..n : after[i] = list[i]
      BY <1>1, <2>3, AppendProperties DEF n
    <2> HIDE DEF after
    <2>5. (chosen # 0 /\ next # 0 /\ after[next].name = list[chosen].name)
            => ShowsIts(after, next, external)
      <3> SUFFICES ASSUME chosen # 0, next # 0, after[next].name = list[chosen].name
                   PROVE  ShowsIts(after, next, external)
        OBVIOUS
      <3>1. next = chosen /\ chosen \in 1..n
        <4>1. chosen \in 1..n
          BY <1>1
        <4>2. list[chosen].name # "" /\ after[n + 1].name = ""
          BY <2>2, <2>3, <2>4, <4>1
        <4> QED BY <2>1, <4>1, <4>2
      <3>2. after[chosen] = list[chosen]
        BY <2>4, <3>1
      <3> QED BY <1>1, <2>4, <3>1, <3>2 DEF ShowsIts, n
    <2>6. next \in 0..Len(after)
      BY <1>1, <2>1, <2>4
    <2> QED BY <1>3, <2>1, <2>4, <2>5, <2>6
  <1>6. ASSUME NEW i \in 1..n, RemoveSource(i) PROVE SourcesInv'
    <2> DEFINE after == [j \in 1..(n - 1) |-> list[IF j < i THEN j ELSE j + 1]]
    <2>1. Render(after, 0)
      BY <1>6 DEF RemoveSource, list, n
    <2>2. after \in Seq(Source) /\ Len(after) \in Nat
      <3>1. \A j \in 1..(n - 1) : (IF j < i THEN j ELSE j + 1) \in 1..n
        BY <1>1
      <3>2. after \in [1..(n - 1) -> Source] /\ n - 1 \in Nat
        BY <1>1, <3>1
      <3> HIDE DEF after
      <3> QED BY <3>2
    <2> HIDE DEF after
    <2> QED BY <1>3, <2>1, <2>2
  <1>7. CASE CloseSource
    <2>1. Render(list, 0)
      BY <1>7 DEF CloseSource, list
    <2> QED BY <1>1, <1>3, <2>1 DEF n
  <1>8. ASSUME NEW m \in SourceNames, NameSource(m) PROVE SourcesInv'
    <2> DEFINE after == [list EXCEPT ![chosen].name = m]
    <2>1. chosen # 0 /\ Render(after, chosen)
      BY <1>8 DEF NameSource, list, chosen
    <2>2. chosen \in 1..n /\ list[chosen] \in Source
      BY <1>1, <2>1
    <2>3. PICK one \in Source : /\ one.name = m /\ (one.ext <=> list[chosen].ext)
                                /\ after = [list EXCEPT ![chosen] = one]
      <3> DEFINE one == [list[chosen] EXCEPT !.name = m]
      <3>1. after = [list EXCEPT ![chosen] = one]
        OBVIOUS
      <3>2. one \in Source /\ one.name = m /\ (one.ext <=> list[chosen].ext)
        BY <2>2 DEF Source
      <3> QED BY <3>1, <3>2
    <2> HIDE DEF after
    <2>4. /\ after \in Seq(Source) /\ Len(after) = n
          /\ \A j \in 1..n : after[j] = IF j = chosen THEN one ELSE list[j]
      BY <1>1, <2>2, <2>3, ExceptSeq DEF n
    <2>5. (chosen # 0 /\ after[chosen].name = list[chosen].name) => ShowsIts(after, chosen, external)
      BY <1>1, <2>2, <2>3, <2>4 DEF ShowsIts, n
    <2> QED BY <1>1, <1>3, <2>1, <2>4, <2>5 DEF n
  <1>9. CASE CheckExternal
    <2>0. PICK one : one = [name |-> "", ext |-> ~external]
      OBVIOUS
    <2> DEFINE after == [list EXCEPT ![chosen] = one]
    <2>1. chosen # 0 /\ sources' = [sources EXCEPT !.list = after, !.external = ~external]
      BY <1>9, <2>0 DEF CheckExternal, list, chosen, external
    <2>2. chosen \in 1..n /\ one \in Source /\ one.ext = ~external
      <3>1. (~external) \in BOOLEAN
        OBVIOUS
      <3>2. one \in Source /\ one.ext = ~external
        BY <2>0, <3>1 DEF Source
      <3> QED BY <1>1, <2>1, <3>2
    <2>3. /\ after \in Seq(Source) /\ Len(after) = n
          /\ \A j \in 1..n : after[j] = IF j = chosen THEN one ELSE list[j]
      BY <1>1, <2>2, ExceptSeq DEF n
    <2> HIDE DEF after
    <2>4. /\ sources' \in [list: Seq(Source), chosen: Nat, external: BOOLEAN]
          /\ sources'.list = after /\ sources'.chosen = chosen /\ sources'.external = ~external
      BY <1>1, <2>1, <2>3 DEF SourcesInv, chosen
    <2>5. ShowsIts(after, chosen, ~external)
      BY <2>2, <2>3 DEF ShowsIts
    <2> QED BY <1>1, <2>3, <2>4, <2>5 DEF SourcesInv
  <1>10. DOMAIN sources.list = 1..n
    BY <1>1 DEF list, n
  <1> QED BY <1>4, <1>5, <1>6, <1>7, <1>8, <1>9, <1>10 DEF SourcesNext

-----------------------------------------------------------------------------
(* The authentications of a connection. *)

AuthRecord == [active: Seq(BOOLEAN), http: BOOLEAN, nats: BOOLEAN, open: Nat,
               kept: BOOLEAN, late: BOOLEAN]
OneAt(active) == \A i, j \in 1..Len(active) : active[i] /\ active[j] => i = j
AuthInv == /\ auth \in AuthRecord /\ auth.open \in 0..Len(auth.active)
           /\ ~auth.late => OneAt(auth.active)
           /\ ~(auth.http /\ auth.nats)

LEMMA AuthStarts == AuthInit => AuthInv
  <1>0. SUFFICES ASSUME NEW n \in 0..MaxSources, NEW one \in 0..n,
                        NEW http \in BOOLEAN, NEW nats \in BOOLEAN, ~(http /\ nats),
                        auth = [active |-> [i \in 1..n |-> i = one], http |-> http, nats |-> nats,
                                open |-> 0, kept |-> FALSE, late |-> FALSE]
                 PROVE  AuthInv
    <2> SUFFICES ASSUME AuthInit PROVE AuthInv
      OBVIOUS
    <2>1. PICK n \in 0..MaxSources : \E one \in 0..n, from \in {"none", "http", "nats"} :
            auth = [active |-> [i \in 1..n |-> i = one], http |-> from = "http",
                    nats |-> from = "nats", open |-> 0, kept |-> FALSE, late |-> FALSE]
      BY DEF AuthInit
    <2>2. PICK one \in 0..n, from \in {"none", "http", "nats"} :
            auth = [active |-> [i \in 1..n |-> i = one], http |-> from = "http",
                    nats |-> from = "nats", open |-> 0, kept |-> FALSE, late |-> FALSE]
      BY <2>1
    <2>3. ~(from = "http" /\ from = "nats")
      OBVIOUS
    <2>4. (from = "http") \in BOOLEAN /\ (from = "nats") \in BOOLEAN
      OBVIOUS
    <2> QED BY <1>0, <2>2, <2>3, <2>4
  <1> DEFINE active == [i \in 1..n |-> i = one]
  <1>1. n \in Nat
    <2>1. MaxSources \in Nat
      BY FormAssumption
    <2> QED BY <2>1
  <1>2. active \in [1..n -> BOOLEAN] /\ \A i \in 1..n : active[i] <=> i = one
    OBVIOUS
  <1>3. active \in Seq(BOOLEAN) /\ Len(active) = n
    <2> HIDE DEF active
    <2> QED BY <1>1, <1>2
  <1>4. auth = [active |-> active, http |-> http, nats |-> nats, open |-> 0,
                kept |-> FALSE, late |-> FALSE]
    BY <1>0
  <1> HIDE DEF active
  <1>5. OneAt(active)
    BY <1>2, <1>3 DEF OneAt
  <1>6. auth \in AuthRecord
    BY <1>3, <1>4 DEF AuthRecord
  <1>7. /\ auth.active = active /\ auth.open = 0
        /\ (auth.http <=> http) /\ (auth.nats <=> nats)
    BY <1>4
  <1> QED BY <1>0, <1>1, <1>3, <1>5, <1>6, <1>7 DEF AuthInv

LEMMA AuthStep ==
  ASSUME AuthInv, AuthNext
  PROVE  AuthInv'
  <1> DEFINE active == auth.active
             n == Len(active)
  <1>1. /\ auth \in AuthRecord /\ active \in Seq(BOOLEAN) /\ n \in Nat /\ auth.open \in 0..n
        /\ \A i \in 1..n : active[i] \in BOOLEAN
        /\ ~auth.late => OneAt(active)
        /\ DOMAIN active = 1..n
    BY LenProperties DEF AuthInv, AuthRecord
  <1> HIDE DEF active, n
  <1>2. CASE AddAuth
    <2>1. auth' = [auth EXCEPT !.active = Append(active, FALSE)]
      BY <1>2 DEF AddAuth, active
    <2> DEFINE after == Append(active, FALSE)
    <2>2. /\ after \in Seq(BOOLEAN) /\ Len(after) = n + 1 /\ ~after[n + 1]
          /\ \A i \in 1..n : after[i] = active[i]
      BY <1>1, AppendProperties DEF n
    <2> HIDE DEF after
    <2>3. ~auth.late => OneAt(after)
      BY <1>1, <2>2 DEF OneAt, n
    <2>4. /\ auth' \in AuthRecord /\ auth'.active = after /\ auth'.open = auth.open
          /\ (auth'.late <=> auth.late) /\ (auth'.http <=> auth.http) /\ (auth'.nats <=> auth.nats)
      BY <1>1, <2>1, <2>2 DEF AuthRecord, after
    <2>5. auth'.open \in 0..Len(auth'.active)
      BY <1>1, <2>2, <2>4
    <2> QED BY <2>3, <2>4, <2>5 DEF AuthInv
  <1>3. ASSUME NEW i \in 1..n, DeleteAuth(i) PROVE AuthInv'
    <2> DEFINE after == [j \in 1..(n - 1) |-> active[IF j < i THEN j ELSE j + 1]]
    <2>1. auth' = [auth EXCEPT !.active = after, !.open = 0]
      BY <1>3 DEF DeleteAuth, active, n
    <2>2. /\ after \in Seq(BOOLEAN) /\ Len(after) = n - 1
          /\ \A j \in 1..(n - 1) : after[j] = active[IF j < i THEN j ELSE j + 1]
      <3>1. \A j \in 1..(n - 1) : (IF j < i THEN j ELSE j + 1) \in 1..n
        BY <1>1
      <3>2. after \in [1..(n - 1) -> BOOLEAN] /\ n - 1 \in Nat
        BY <1>1, <3>1
      <3>3. after \in Seq(BOOLEAN) /\ Len(after) = n - 1
        <4> HIDE DEF after
        <4> QED BY <3>2
      <3> QED BY <3>3
    <2> HIDE DEF after
    <2>3. ~auth.late => OneAt(after)
      <3> SUFFICES ASSUME ~auth.late, NEW j \in 1..(n - 1), NEW k \in 1..(n - 1), after[j], after[k]
                   PROVE  j = k
        BY <2>2 DEF OneAt
      <3> DEFINE jj == IF j < i THEN j ELSE j + 1
                 kk == IF k < i THEN k ELSE k + 1
      <3>1. jj \in 1..n /\ kk \in 1..n /\ (jj = kk => j = k)
        BY <1>1
      <3>2. active[jj] /\ active[kk]
        BY <2>2
      <3> HIDE DEF jj, kk
      <3>3. jj = kk
        BY <1>1, <3>1, <3>2 DEF OneAt, n
      <3> QED BY <3>1, <3>3
    <2>4. /\ auth' \in AuthRecord /\ auth'.active = after /\ auth'.open = 0
          /\ (auth'.late <=> auth.late) /\ (auth'.http <=> auth.http) /\ (auth'.nats <=> auth.nats)
      BY <1>1, <2>1, <2>2 DEF AuthRecord
    <2>5. auth'.open \in 0..Len(auth'.active)
      BY <1>1, <2>2, <2>4
    <2> QED BY <2>3, <2>4, <2>5 DEF AuthInv
  <1>4. ASSUME NEW i \in 1..n, Activate(i) PROVE AuthInv'
    <2> DEFINE after == [j \in 1..n |-> ~active[i] /\ j = i]
    <2>1. auth' = [auth EXCEPT !.active = after, !.late = FALSE]
      BY <1>1, <1>4 DEF Activate, active
    <2>2. after \in [1..n -> BOOLEAN] /\ \A j \in 1..n : after[j] => j = i
      OBVIOUS
    <2> HIDE DEF after
    <2>3. after \in Seq(BOOLEAN) /\ Len(after) = n
      BY <1>1, <2>2
    <2>4. OneAt(after)
      BY <2>2, <2>3 DEF OneAt
    <2>5. /\ auth' \in AuthRecord /\ auth'.active = after /\ auth'.open = auth.open
          /\ (auth'.http <=> auth.http) /\ (auth'.nats <=> auth.nats)
      BY <1>1, <2>1, <2>3 DEF AuthRecord
    <2> QED BY <1>1, <2>3, <2>4, <2>5 DEF AuthInv
  <1>5. ASSUME NEW i \in 1..n, OpenAuth(i) PROVE AuthInv'
    <2>0. PICK k \in BOOLEAN : k = active[i]
      BY <1>1
    <2>1. auth' = [auth EXCEPT !.open = i, !.kept = k]
      BY <1>5, <2>0 DEF OpenAuth, active
    <2>2. /\ auth' \in AuthRecord /\ auth'.active = active /\ auth'.open = i
          /\ (auth'.late <=> auth.late) /\ (auth'.http <=> auth.http) /\ (auth'.nats <=> auth.nats)
      <3>1. i \in Nat
        BY <1>1
      <3> QED BY <1>1, <2>1, <3>1 DEF AuthRecord, active
    <2> QED BY <1>1, <2>2 DEF AuthInv, n
  <1>6. CASE CloseAuth
    <2>1. auth' = [auth EXCEPT !.open = 0]
      BY <1>6 DEF CloseAuth
    <2>2. /\ auth' \in AuthRecord /\ auth'.active = active /\ auth'.open = 0
          /\ (auth'.late <=> auth.late) /\ (auth'.http <=> auth.http) /\ (auth'.nats <=> auth.nats)
      BY <1>1, <2>1 DEF AuthRecord, active
    <2> QED BY <1>1, <2>2 DEF AuthInv, n
  <1>7. CASE SaveAuth
    <2> DEFINE after == [active EXCEPT ![auth.open] = auth.kept]
               late == auth.late \/ auth.kept # active[auth.open]
    <2>1. auth.open # 0 /\ auth' = [auth EXCEPT !.active = after, !.open = 0, !.late = late]
      BY <1>7 DEF SaveAuth, active
    <2>2. auth.open \in 1..n /\ auth.kept \in BOOLEAN
      BY <1>1, <2>1 DEF AuthRecord
    <2>3. /\ after \in Seq(BOOLEAN) /\ Len(after) = n
          /\ \A j \in 1..n : after[j] = IF j = auth.open THEN auth.kept ELSE active[j]
      BY <1>1, <2>2, ExceptSeq DEF n
    <2>4. late \in BOOLEAN
      OBVIOUS
    <2>5. ~late => OneAt(after)
      <3> SUFFICES ASSUME ~late PROVE OneAt(after)
        OBVIOUS
      <3>1. ~auth.late /\ auth.kept = active[auth.open]
        OBVIOUS
      <3> HIDE DEF after, late
      <3>2. \A j \in 1..n : after[j] = active[j]
        BY <2>3, <3>1
      <3> QED BY <1>1, <2>3, <3>1, <3>2 DEF OneAt, n
    <2> HIDE DEF after, late
    <2>6. /\ auth' \in AuthRecord /\ auth'.active = after /\ auth'.open = 0
          /\ (auth'.late <=> late) /\ (auth'.http <=> auth.http) /\ (auth'.nats <=> auth.nats)
      BY <1>1, <2>1, <2>3, <2>4 DEF AuthRecord
    <2> QED BY <1>1, <2>3, <2>5, <2>6 DEF AuthInv
  <1>8. CASE HttpSource
    <2>1. auth' = [auth EXCEPT !.http = ~auth.http, !.nats = auth.nats /\ auth.http]
      BY <1>8 DEF HttpSource
    <2>2. /\ auth' \in AuthRecord /\ auth'.active = active /\ auth'.open = auth.open
          /\ (auth'.late <=> auth.late)
          /\ (auth'.http <=> ~auth.http) /\ (auth'.nats <=> auth.nats /\ auth.http)
      BY <1>1, <2>1 DEF AuthRecord, active
    <2> QED BY <1>1, <2>2 DEF AuthInv, n
  <1>9. CASE NatsSource
    <2>1. auth' = [auth EXCEPT !.nats = ~auth.nats, !.http = auth.http /\ auth.nats]
      BY <1>9 DEF NatsSource
    <2>2. /\ auth' \in AuthRecord /\ auth'.active = active /\ auth'.open = auth.open
          /\ (auth'.late <=> auth.late)
          /\ (auth'.nats <=> ~auth.nats) /\ (auth'.http <=> auth.http /\ auth.nats)
      BY <1>1, <2>1 DEF AuthRecord, active
    <2> QED BY <1>1, <2>2 DEF AuthInv, n
  <1>10. DOMAIN auth.active = 1..n
    BY <1>1 DEF active
  <1> QED BY <1>2, <1>3, <1>4, <1>5, <1>6, <1>7, <1>8, <1>9, <1>10 DEF AuthNext

LEMMA OneIsActive ==
  ASSUME AuthInv
  PROVE  OneActive
  <1> DEFINE on == {i \in DOMAIN auth.active : auth.active[i]}
  <1>1. auth.active \in Seq(BOOLEAN) /\ DOMAIN auth.active = 1..Len(auth.active)
    BY LenProperties DEF AuthInv, AuthRecord
  <1>2. ASSUME ~auth.late PROVE Cardinality(on) <= 1
    <2>1. \A i, j \in on : i = j
      BY <1>1, <1>2 DEF AuthInv, OneAt
    <2> HIDE DEF on
    <2>2. CASE on = {}
      BY <2>2, FS_EmptySet
    <2>3. CASE on # {}
      <3>1. PICK i \in on : on = {i}
        BY <2>1, <2>3
      <3>2. Cardinality({i}) = 1
        BY FS_Singleton
      <3> QED BY <3>1, <3>2
    <2> QED BY <2>2, <2>3
  <1> QED BY <1>2 DEF AuthInv, OneActive

-----------------------------------------------------------------------------
(* Limits and units. *)

LEMMA Multiples ==
  ASSUME NEW a \in Nat \ {0}, NEW b \in Nat \ {0}, NEW t \in Nat, b % a = 0, t % b = 0
  PROVE  t % a = 0
  <1>1. PICK q \in Nat : b = a * q
    BY SMTT(30)
  <1>2. PICK r \in Nat : t = b * r
    BY SMTT(30)
  <1>3. t = a * (q * r) /\ q * r \in Nat
    BY <1>1, <1>2, SMTT(30)
  <1> QED BY <1>3, SMTT(30)

LEMMA InputsAreSound == InputsSound
  <1>1. \A l \in TimeLimits \cup BytesLimits \cup NumberLimits :
          Accordion(l, Toggled(l, TRUE)) /\ ~Accordion(l, Toggled(l, FALSE))
    BY DEF TimeLimits, BytesLimits, NumberLimits, Accordion, Toggled, Limit, Null
  <1>2. ASSUME NEW t \in 1..MaxTime, NEW i \in DOMAIN UnitSizes
        PROVE  t % UnitSizes[i] = 0 <=> i <= LargestUnit(t)
    <2> DEFINE n == Len(UnitSizes)
               divides(j) == t % UnitSizes[j] = 0
               fails == {j \in 1..n : ~divides(j)}
               fits == {j \in DOMAIN UnitSizes : \A k \in 1..j : divides(k)}
    <2>1. /\ n \in Nat \ {0} /\ DOMAIN UnitSizes = 1..n /\ t \in Nat
          /\ \A j \in 1..n : UnitSizes[j] \in Nat \ {0}
      <3>1. UnitSizes \in Seq(Nat \ {0}) /\ UnitSizes # <<>> /\ MaxTime \in Nat
        BY FormAssumption
      <3>2. n \in Nat /\ n # 0
        BY <3>1, EmptySeq, LenProperties
      <3> QED BY <3>1, <3>2
    <2>2. divides(1)
      BY <2>1, FormAssumption
    <2>3. \A j \in 1..n : j + 1 \in 1..n /\ divides(j + 1) => divides(j)
      <3> SUFFICES ASSUME NEW j \in 1..n, j + 1 \in 1..n, divides(j + 1) PROVE divides(j)
        OBVIOUS
      <3>1. UnitSizes[j + 1] % UnitSizes[j] = 0
        BY <2>1, FormAssumption
      <3> QED BY <2>1, <3>1, Multiples
    <2> HIDE DEF divides, n
    <2>4. PICK last \in 1..n : /\ \A j \in 1..n : divides(j) <=> j <= last
      <3>1. CASE fails = {}
        <4>1. n \in 1..n /\ \A j \in 1..n : divides(j) <=> j <= n
          BY <2>1, <3>1
        <4> QED BY <4>1
      <3>2. CASE fails # {}
        <4>1. fails \in SUBSET Nat
          BY <2>1
        <4>2. PICK m \in fails : \A k \in fails : m <= k
          <5> HIDE DEF fails
          <5> QED BY <3>2, <4>1, LeastNumber
        <4>3. m \in 1..n /\ m # 1 /\ ~divides(m) /\ \A j \in 1..(m - 1) : divides(j)
          BY <2>1, <2>2, <4>2
        <4> DEFINE late == {j \in 1..n : j > m /\ divides(j)}
        <4>4. late = {}
          <5> SUFFICES ASSUME late # {} PROVE FALSE
            OBVIOUS
          <5>1. PICK k \in late : \A j \in late : k <= j
            <6>1. late \in SUBSET Nat
              BY <2>1
            <6> HIDE DEF late
            <6> QED BY <6>1, LeastNumber
          <5>2. k - 1 \in 1..n /\ (k - 1) + 1 = k /\ k \in 1..n /\ divides(k) /\ k > m
            BY <2>1, <4>3, <5>1
          <5>3. divides(k - 1)
            BY <2>3, <5>2
          <5>4. k - 1 # m
            BY <4>3, <5>3
          <5>5. k - 1 \in late
            BY <2>1, <4>3, <5>2, <5>3, <5>4
          <5> QED BY <5>1, <5>2, <5>5
        <4>5. \A j \in 1..n : divides(j) <=> j <= m - 1
          BY <2>1, <4>3, <4>4
        <4>6. m - 1 \in 1..n
          BY <2>1, <4>3
        <4> QED BY <4>5, <4>6
      <3> QED BY <3>1, <3>2
    <2>5. fits = 1..last
      BY <2>1, <2>4
    <2>6. LargestUnit(t) = CHOOSE j \in fits : \A k \in fits : k <= j
      BY DEF LargestUnit, divides
    <2>7. LargestUnit(t) = last
      <3> HIDE DEF fits
      <3>1. last \in fits /\ \A k \in fits : k <= last
        BY <2>1, <2>5
      <3>2. \A j \in fits : (\A k \in fits : k <= j) => j = last
        BY <2>1, <2>5
      <3> QED BY <2>6, <3>1, <3>2
    <2> QED BY <2>1, <2>4, <2>7 DEF divides
  <1> QED BY <1>1, <1>2 DEF InputsSound

-----------------------------------------------------------------------------
(* The theorem. *)

\* Whatever is edited, put back, saved or answered, for any number of sources, authentications
\* and units: the row of a consumer or a connection is written through its answer only, a
\* consumer starts where its policy says, a draft keeps what was typed, the dialog of a
\* source shows its API, one authentication is active and limits and times are shown as they
\* are, but for what each property names (the forms of stacks/streams, consumer, buckets and
\* connections).
THEOREM FormsStaySound == FormsSpec => []FormsSound
  <1> DEFINE Inv == FormInv /\ SourcesInv /\ AuthInv
  <1>1. FormInit /\ SourcesInit /\ AuthInit => Inv
    BY FormStarts, SourcesStart, AuthStarts
  <1>2. Inv /\ [FormNext \/ SourcesNext \/ AuthNext]_formVars => Inv'
    <2> SUFFICES ASSUME Inv, [FormNext \/ SourcesNext \/ AuthNext]_formVars PROVE Inv'
      OBVIOUS
    <2>1. form' = form => FormInv'
      BY DEF FormInv, CnnCopied, RowKept, StartSound, DraftWhole
    <2>2. sources' = sources => SourcesInv'
      BY DEF SourcesInv
    <2>3. auth' = auth => AuthInv'
      BY DEF AuthInv
    <2>4. CASE FormNext
      <3>1. UNCHANGED <<sources, auth>>
        BY <2>4 DEF FormNext
      <3> QED BY <2>2, <2>3, <2>4, <3>1, FormStep
    <2>5. CASE SourcesNext
      <3>1. UNCHANGED <<form, auth>>
        BY <2>5 DEF SourcesNext
      <3> QED BY <2>1, <2>3, <2>5, <3>1, SourcesStep
    <2>6. CASE AuthNext
      <3>1. UNCHANGED <<form, sources>>
        BY <2>6 DEF AuthNext
      <3> QED BY <2>1, <2>2, <2>6, <3>1, AuthStep
    <2>7. CASE UNCHANGED formVars
      BY <2>1, <2>2, <2>3, <2>7 DEF formVars
    <2> QED BY <2>4, <2>5, <2>6, <2>7
  <1>3. Inv => FormsSound
    <2> SUFFICES ASSUME Inv PROVE FormsSound
      OBVIOUS
    <2>1. SourceShown
      <3>1. /\ sources.list \in Seq(Source) /\ DOMAIN sources.list = 1..Len(sources.list)
            /\ sources.chosen \in 0..Len(sources.list) /\ Len(sources.list) \in Nat
            /\ sources.external \in BOOLEAN
        BY LenProperties DEF SourcesInv
      <3>2. sources.chosen # 0 => sources.list[sources.chosen].ext \in BOOLEAN
        <4> SUFFICES ASSUME sources.chosen # 0 PROVE sources.list[sources.chosen].ext \in BOOLEAN
          OBVIOUS
        <4>1. sources.list[sources.chosen] \in Source
          <5>1. PICK k : k = sources.chosen /\ k \in 1..Len(sources.list)
            BY <3>1
          <5> QED BY <3>1, <5>1
        <4> QED BY <4>1 DEF Source
      <3>3. sources.chosen # 0 => Shown = sources.list[sources.chosen].name
        BY DEF Shown
      <3> QED BY <3>1, <3>2, <3>3 DEF SourcesInv, ShowsIts, SourceShown
    <2> QED BY <2>1, OneIsActive, InputsAreSound DEF FormInv, FormsSound
  <1> QED BY <1>1, <1>2, <1>3, PTL DEF FormsSpec
=============================================================================

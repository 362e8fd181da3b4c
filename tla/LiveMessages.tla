---------------------------- MODULE LiveMessages ----------------------------
(***************************************************************************)
(* One live messages card: its list of subscriptions and the dialog that   *)
(* edits it, what it asks of the websocket hub, the history it keeps, the  *)
(* card linked to it (the detail of a message, or the form that sends one) *)
(* and its search box.  JavaScript objects are shared where the code       *)
(* shares them: the dialog edits the store's own list.                     *)
(***************************************************************************)
EXTENDS Naturals, Sequences, FiniteSets

CONSTANTS Subjects, SysSubjects,  \* SysSubjects start with _INBOX or $
          MaxHistory,  \* 20000 in the code
          Trim,        \* 5000 in the code
          MaxArrivals, MaxMarks   \* bounds: messages received, markers added

ASSUME LiveAssumption == /\ SysSubjects \subseteq Subjects
                         /\ MaxHistory \in Nat /\ Trim \in Nat \ {0}
                         /\ MaxArrivals \in Nat /\ MaxMarks \in Nat

VARIABLES
  subs,     \* subject -> "absent", "enabled" or "disabled"
  isSet,    \* whether the list is set at all (null before)
  fetching, \* the stored favourites on their way to the card, or NoAnswer
  dialog,   \* [open, draft, shared, same]: the subscriptions dialog's own state
  paused, noSys,
  up,       \* the card's service is open and its listener is set
  feed,    \* the subjects the hub was last asked for
  history, arrived, marked,
  stats,    \* the subjects messages were counted of
  linked,   \* [kind, msg, last]: the linked card
  busy      \* throttle: the linked message was changed less than a second ago

listVars == <<subs, isSet, fetching>>
hubVars == <<paused, up, feed>>
histVars == <<history, arrived, marked>>
viewVars == <<linked, busy>>
liveVars == <<listVars, hubVars, histVars, viewVars, dialog, noSys, stats>>

States == {"absent", "enabled", "disabled"}
NoMsg == 0
NoAnswer == {}
Answers == {NoAnswer} \cup {{stored} : stored \in SUBSET Subjects}
NoText == "no text"

\* A row of the history: a message, numbered by arrival, or a marker of the subjects.
Msg(n, s) == [kind |-> "msg", n |-> n, subjects |-> {s}]
Mark(set) == [kind |-> "mark", n |-> 0, subjects |-> set]
NoLinked == [kind |-> "none", msg |-> NoMsg, last |-> FALSE]

LiveTypeOK ==
  /\ subs \in [Subjects -> States]
  /\ isSet \in BOOLEAN /\ fetching \in Answers
  /\ dialog \in [open: BOOLEAN, draft: [Subjects -> States],
                 shared: SUBSET Subjects, same: BOOLEAN]
  /\ paused \in BOOLEAN /\ noSys \in BOOLEAN /\ up \in BOOLEAN /\ busy \in BOOLEAN
  /\ feed \subseteq Subjects
  /\ \A i \in DOMAIN history : history[i] \in
       [kind: {"msg", "mark"}, n: 0..MaxArrivals, subjects: SUBSET Subjects]
  /\ arrived \in 0..MaxArrivals /\ marked \in 0..MaxMarks
  /\ stats \subseteq Subjects
  /\ \/ linked \in [kind: {"none", "send"}, msg: {NoMsg}, last: {FALSE}]
     \/ linked \in [kind: {"detail"}, msg: 1..MaxArrivals, last: BOOLEAN]

NoSubs == [s \in Subjects |-> "absent"]
Closed == [open |-> FALSE, draft |-> NoSubs, shared |-> {}, same |-> FALSE]

LiveInit ==
  /\ subs = NoSubs /\ isSet = FALSE /\ fetching = NoAnswer
  /\ dialog = Closed
  /\ paused = FALSE /\ noSys = TRUE /\ up = FALSE /\ feed = {} /\ busy = FALSE
  /\ history = <<>> /\ arrived = 0 /\ marked = 0
  /\ stats = {}
  /\ linked = NoLinked

-----------------------------------------------------------------------------
(* What is asked of the hub. *)

Enabled(list) == {s \in Subjects : list[s] = "enabled"}

WsSubjects(list) == IF paused' THEN {} ELSE Enabled(list)

\* Mutant: the marker tells of the list as it was.
SendSubscriptions_Old(list, on) ==
  /\ feed' = IF on THEN WsSubjects(list) ELSE feed
  /\ marked < MaxMarks /\ marked' = marked + 1
  /\ history' = Append(history, Mark(WsSubjects(subs)))

\* The request goes out only on an open websocket; the marker is added anyhow.
SendSubscriptions(list, on) ==
  LET set == WsSubjects(list)
  IN  /\ feed' = IF on THEN set ELSE feed
      /\ marked < MaxMarks /\ marked' = marked + 1
      /\ history' = Append(history, Mark(set))

\* connect, once its service is open.
Connect == /\ ~up /\ up' = TRUE
           /\ UNCHANGED paused /\ SendSubscriptions(subs, TRUE)
           /\ UNCHANGED <<viewVars, listVars, dialog, noSys, arrived, stats>>

\* disconnect, or a websocket that is lost: the hub forgets the client.
Disconnect == /\ up /\ up' = FALSE /\ feed' = {}
              /\ UNCHANGED <<viewVars, histVars, listVars, dialog, paused, noSys, stats>>

SetPause == /\ paused' = ~paused
         /\ SendSubscriptions(subs, up)
         /\ UNCHANGED <<viewVars, listVars, dialog, noSys, up, arrived, stats>>

\* A list that changes and is all disabled opens the dialog, unless a card is linked.
\* Opening hands the store's list itself to the dialog: array and items are shared.
OpenDialog(list, set) ==
  [open |-> TRUE, draft |-> list, shared |-> {s \in Subjects : list[s] # "absent"}, same |-> set]
AutoOpens(list) == /\ linked.kind = "none" /\ list # NoSubs /\ Enabled(list) = {}

\* The backend's favourites are whatever earlier cards of the connection saved.
FetchStart == /\ ~isSet /\ fetching = NoAnswer
              /\ \E stored \in SUBSET Subjects : fetching' = {stored}
              /\ UNCHANGED <<viewVars, histVars, hubVars, subs, isSet, dialog, noSys, stats>>

\* The stored favourites come, all of them disabled, in place of what the list was.
FetchEnd ==
  LET list == [s \in Subjects |-> IF s \in UNION fetching THEN "disabled" ELSE "absent"]
  IN  /\ fetching # NoAnswer /\ fetching' = NoAnswer /\ isSet' = TRUE
      /\ subs' = list
      /\ dialog' = IF AutoOpens(list) /\ ~dialog.open THEN OpenDialog(list, TRUE)
                   ELSE [dialog EXCEPT !.shared = {}, !.same = FALSE]
      /\ UNCHANGED <<viewVars, histVars, hubVars, noSys, stats>>

-----------------------------------------------------------------------------
(* The subscriptions dialog. *)

ClickSubs ==
  /\ dialog' = IF dialog.open THEN Closed ELSE OpenDialog(subs, isSet)
  /\ UNCHANGED <<viewVars, histVars, hubVars, listVars, noSys, stats>>

CancelSubs == dialog.open /\ ClickSubs

\* A row is edited, added or removed: a new array, and a new item in that place.
EditRow(s, state) ==
  /\ dialog.open /\ dialog.draft[s] # state
  /\ dialog' = [dialog EXCEPT !.draft[s] = state, !.shared = @ \ {s}, !.same = FALSE]
  /\ UNCHANGED <<viewVars, histVars, hubVars, listVars, noSys, stats>>

\* The title's toggle writes into the items, the shared ones included.
ToggleAll(list, which, state) ==
  [s \in Subjects |-> IF s \in which /\ list[s] # "absent" THEN state ELSE list[s]]
AllDisable(state) ==
  /\ dialog.open
  /\ subs' = ToggleAll(subs, dialog.shared, state)
  /\ dialog' = [dialog EXCEPT !.draft = ToggleAll(@, Subjects, state), !.same = FALSE]
  /\ UNCHANGED <<viewVars, histVars, hubVars, isSet, fetching, noSys, stats>>

\* A click on a subject of the statistics pushes it into the array at hand.
StatsSelect(s) ==
  /\ dialog.open /\ s \in stats /\ dialog.draft[s] = "absent"
  /\ subs' = IF dialog.same THEN [subs EXCEPT ![s] = "enabled"] ELSE subs
  /\ dialog' = [dialog EXCEPT !.draft[s] = "enabled", !.same = FALSE,
                              !.shared = IF dialog.same THEN @ \cup {s} ELSE @]
  /\ UNCHANGED <<viewVars, histVars, hubVars, isSet, fetching, noSys, stats>>

\* OK: the draft becomes the list, the hub is asked for it, and its favourites are
\* posted to the backend, whose answer the card does not use.
Ok ==
  LET list == dialog.draft
  IN  /\ dialog.open
      /\ subs' = list /\ isSet' = TRUE
      /\ dialog' = IF AutoOpens(list) /\ ~dialog.same THEN OpenDialog(list, TRUE) ELSE Closed
      /\ UNCHANGED paused /\ SendSubscriptions(list, up)
      /\ UNCHANGED <<viewVars, fetching, noSys, up, arrived, stats>>

ClearStats == /\ dialog.open /\ stats' = {}
              /\ UNCHANGED <<viewVars, histVars, hubVars, listVars, dialog, noSys>>

ToggleNoSys == /\ dialog.open /\ noSys' = ~noSys
               /\ UNCHANGED <<viewVars, histVars, hubVars, listVars, dialog, stats>>

-----------------------------------------------------------------------------
(* The history and the linked detail. *)

\* A history longer than MaxHistory loses its Trim oldest rows before a message is added.
Kept(h) == IF Len(h) > MaxHistory THEN SubSeq(h, Trim + 1, Len(h)) ELSE h

FollowsLast == linked.kind = "detail" /\ linked.last

Receive(s) ==
  /\ up /\ s \in feed /\ arrived < MaxArrivals
  /\ arrived' = arrived + 1
  /\ IF noSys /\ s \in SysSubjects
     THEN UNCHANGED <<history, stats, linked, busy>>
     ELSE /\ history' = Append(Kept(history), Msg(arrived + 1, s))
          /\ stats' = stats \cup {s}
          /\ linked' = IF FollowsLast /\ ~busy THEN [linked EXCEPT !.msg = arrived + 1] ELSE linked
          /\ busy' = (busy \/ FollowsLast)
  /\ UNCHANGED <<hubVars, listVars, dialog, noSys, marked>>

ThrottleTimer == /\ busy /\ busy' = FALSE
                 /\ UNCHANGED <<histVars, hubVars, listVars, dialog, noSys, stats, linked>>

Clear == /\ history # <<>> /\ history' = <<>>
         /\ UNCHANGED <<viewVars, hubVars, listVars, dialog, noSys, arrived, marked, stats>>

\* Markers are always listed; a message is when it contains the text.
Filtered(text) == IF text = NoText THEN history
                  ELSE SelectSeq(history, LAMBDA r : r.kind = "mark" \/ text \in r.subjects)

\* A click on a message opens its detail, changes the open one, or closes it.
ClickMessage(n) ==
  /\ \E text \in Subjects \cup {NoText} : \E i \in DOMAIN Filtered(text) :
       Filtered(text)[i].kind = "msg" /\ Filtered(text)[i].n = n
  /\ linked' = IF linked.kind = "detail" /\ linked.msg = n THEN NoLinked
               ELSE [kind |-> "detail", msg |-> n, last |-> FALSE]
  /\ UNCHANGED <<histVars, hubVars, listVars, dialog, noSys, stats, busy>>

ToggleLast == /\ linked.kind = "detail" /\ linked' = [linked EXCEPT !.last = ~@]
              /\ UNCHANGED <<histVars, hubVars, listVars, dialog, noSys, stats, busy>>

-----------------------------------------------------------------------------
(* The card of the form that sends a message. *)

\* SEND opens or closes the form; the dialog is closed first.  With subscriptions
\* still null, the map over them throws after the dialog was closed.
ClickSend ==
  /\ IF linked.kind = "send"
     THEN linked' = NoLinked /\ UNCHANGED dialog
     ELSE /\ dialog' = Closed
          /\ IF isSet THEN linked' = [NoLinked EXCEPT !.kind = "send"]
                               ELSE UNCHANGED linked
  /\ UNCHANGED <<histVars, hubVars, listVars, noSys, stats, busy>>

DialogNext == \/ ClickSubs \/ CancelSubs \/ Ok \/ ClearStats \/ ToggleNoSys
              \/ \E s \in Subjects : StatsSelect(s) \/ \E st \in States : EditRow(s, st)
              \/ \E st \in States \ {"absent"} : AllDisable(st)
LiveNext == \/ Connect \/ Disconnect \/ SetPause \/ FetchStart \/ FetchEnd \/ DialogNext
            \/ \E s \in Subjects : Receive(s)
            \/ ThrottleTimer \/ Clear \/ ToggleLast
            \/ \E n \in 1..MaxArrivals : ClickMessage(n)
            \/ ClickSend

LiveSpec == LiveInit /\ [][LiveNext]_liveVars

-----------------------------------------------------------------------------
(* Properties. *)

\* What the last marker of the history says is what the hub was asked for, across
\* reconnections, pauses, edits and the trimming of the history.
MarkerHonest ==
  LET marks == {i \in DOMAIN history : history[i].kind = "mark"}
  IN  up /\ marks # {} => \E i \in marks : /\ \A j \in marks : j <= i
                                          /\ feed = history[i].subjects

\* While the card is paused the hub streams nothing, even after the dialog's OK or
\* a new connection.
PauseQuiet == up /\ paused => feed = {}

\* The history never outgrows its limit by more than the markers added to it.
HistoryBounded == Len(history) <= MaxHistory + 1 + marked

\* The card and the hub agree: on what is streamed, on what the markers say, and on the
\* length of the history (messages/index.ts:102-196).
LiveCardSound == LiveTypeOK /\ MarkerHonest /\ PauseQuiet /\ HistoryBounded
=============================================================================

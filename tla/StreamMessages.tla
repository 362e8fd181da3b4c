--------------------------- MODULE StreamMessages ---------------------------
(***************************************************************************)
(* One card of a stream's messages: the pages it asks for before and after *)
(* the rows it has, the filter dialog, and the deletion of a message,      *)
(* while the stream itself goes on changing.  A request of a page aborts   *)
(* the one before it (manageAbort); the request of the filter does not.    *)
(* Messages are their sequence numbers; their times grow with them, so a   *)
(* start by time is a start by number.                                     *)
(***************************************************************************)
EXTENDS Naturals, Integers, Sequences, FiniteSets, SequencesExt, FiniteSetsExt

CONSTANTS StreamSubjects,      \* subjects of the stream
          NameOf,     \* the subject of each sequence number
          MaxSeq,     \* bound: sequence numbers
          Intervals,  \* page sizes the user types; a negative one asks backwards
          MaxApplies, \* bound: filters applied
          MaxRows     \* bound: rows of the list before a page is added

ASSUME StreamAssumption ==
  /\ MaxSeq \in Nat \ {0} /\ NameOf \in [1..MaxSeq -> StreamSubjects]
  /\ Intervals \subseteq Int \ {0} /\ Intervals # {}
  /\ MaxApplies \in Nat /\ MaxRows \in Nat

VARIABLES
  alive, last,   \* the stream: its messages and its last sequence number
  info,          \* the card's copy of the stream's first and last
  mounted,
  list,          \* [set, rows]: state.messages; set is FALSE while it is null
  filter,        \* [names, interval]; no names is no filter
  custom,        \* the custom subjects, of the store and not of the dialog
  page,          \* the page on its way, or NoPage
  applying,      \* filters on their way: not aborted by anything
  applies,
  loaded, mixed  \* history: the subjects the rows were asked with; whether a
                 \* page of other subjects, of a list since replaced, or of a
                 \* negative page size was added

serverVars == <<alive, last>>
cardVars == <<info, mounted, list, filter, custom, page, applying>>
histVars2 == <<applies, loaded, mixed>>
streamVars == <<serverVars, cardVars, histVars2>>

Seqs == 1..MaxSeq
NoPage == {}

\* What the backend answers: the first n messages of the names from "start" on,
\* or the last n up to it, in ascending order.  No name is every name.
Match(names) == {s \in alive : names = {} \/ NameOf[s] \in names}
Ascending(S) == CHOOSE rows \in [1..Cardinality(S) -> S] :
                  \A i, j \in DOMAIN rows : i < j => rows[i] < rows[j]
Forward(start, names, n) ==
  LET rows == Ascending({s \in Match(names) : s >= start})
  IN  SubSeq(rows, 1, IF n < Len(rows) THEN n ELSE Len(rows))
Backward(start, names, n) ==
  LET rows == Ascending({s \in Match(names) : s <= start})
  IN  SubSeq(rows, IF n < Len(rows) THEN Len(rows) - n + 1 ELSE 1, Len(rows))
Answer(start, names, interval) ==
  IF interval > 0 THEN Forward(start, names, interval) ELSE Backward(start, names, -interval)

\* The rows without those of one message.
Without(rows, s) ==
  LET kept == Ascending({i \in DOMAIN rows : rows[i] # s})
  IN  [i \in DOMAIN kept |-> rows[kept[i]]]

First(S) == IF S = {} THEN last + 1 ELSE Min(S)

StreamTypeOK ==
  /\ alive \subseteq 1..last /\ last \in 0..MaxSeq
  /\ info \in [first: 1..MaxSeq + 1, last: 0..MaxSeq]
  /\ mounted \in BOOLEAN
  /\ list.set \in BOOLEAN /\ list.rows \in Seq(Seqs)
  /\ filter \in [names: SUBSET StreamSubjects, interval: Intervals]
  /\ custom \subseteq StreamSubjects
  /\ Cardinality(page) <= 1
  /\ \A p \in page : p.pre \in BOOLEAN /\ p.names \subseteq StreamSubjects /\ p.rows \in Seq(Seqs)
  /\ applies \in 0..MaxApplies
  /\ loaded \subseteq StreamSubjects /\ mixed \in BOOLEAN

StreamInit ==
  /\ last \in Seqs /\ alive \in {S \in SUBSET (1..last) : S = {} \/ Max(S) = last}
  /\ info = [first |-> First(alive), last |-> last]
  /\ mounted = FALSE /\ list = [set |-> FALSE, rows |-> <<>>]
  /\ filter \in [names: {{}}, interval: Intervals] /\ custom = {}
  /\ page = NoPage /\ applying = {} /\ applies = 0
  /\ loaded = {} /\ mixed = FALSE

-----------------------------------------------------------------------------
(* The stream. *)

StreamGrows == /\ last < MaxSeq /\ last' = last + 1 /\ alive' = alive \cup {last + 1}
               /\ UNCHANGED <<cardVars, histVars2>>

\* Another client, or a limit of the stream, removes a message.
Expire(s) == /\ s \in alive /\ alive' = alive \ {s} /\ last' = last
             /\ UNCHANGED <<cardVars, histVars2>>

-----------------------------------------------------------------------------
(* Pages. *)

\* fetchWithFilter near the first message turns round: it asks forward from the
\* first one, for as many messages as there are numbers up to the start.
Clamped(start, interval) ==
  IF start + interval < info.first
  THEN [start |-> info.first, interval |-> start - info.first + 1, pre |-> TRUE]
  ELSE [start |-> start, interval |-> interval, pre |-> interval < 0]

\* The request goes out, unless it starts before the first message.
FetchWithFilter(start, interval, names) ==
  LET ask == Clamped(start, interval)
  IN  IF start < info.first THEN UNCHANGED page
      ELSE page' = {[pre |-> ask.pre, names |-> names, served |-> FALSE, rows |-> <<>>,
                     start |-> ask.start, interval |-> ask.interval, old |-> FALSE,
                     turned |-> filter.interval < 0]}   \* history

\* The view is mounted, and loads the newest page if it has no list.
Mount ==
  /\ ~mounted /\ mounted' = TRUE
  /\ IF list.set THEN UNCHANGED page
     ELSE FetchWithFilter(info.last, -filter.interval, {})
  /\ UNCHANGED <<serverVars, info, list, filter, custom, applying, histVars2>>

\* The view is unmounted: its page is aborted, the request of a filter is not.
Unmount == /\ mounted /\ mounted' = FALSE /\ page' = NoPage
           /\ UNCHANGED <<serverVars, info, list, filter, custom, applying, histVars2>>

\* fetchPrev, at the top of the list.
FetchPrev ==
  /\ mounted /\ list.rows # <<>>
  /\ LET start == Head(list.rows) - 1
     IN  start > info.first /\ FetchWithFilter(start, -filter.interval, filter.names \cup custom)
  /\ UNCHANGED <<serverVars, info, mounted, list, filter, custom, applying, histVars2>>

\* Mutant: the next page starts one number too late.
FetchNext_Skips ==
  /\ mounted /\ list.rows # <<>>
  /\ FetchWithFilter(Last(list.rows) + 2, filter.interval, filter.names \cup custom)
  /\ UNCHANGED <<serverVars, info, mounted, list, filter, custom, applying, histVars2>>

\* fetchNext, by the button, the reload and the polling of the card.
FetchNext ==
  /\ mounted /\ list.rows # <<>>
  /\ FetchWithFilter(Last(list.rows) + 1, filter.interval, filter.names \cup custom)
  /\ UNCHANGED <<serverVars, info, mounted, list, filter, custom, applying, histVars2>>

\* The backend reads the stream at some time before the answer arrives.
ServePage == \E p \in page :
  /\ ~p.served
  /\ page' = {[p EXCEPT !.served = TRUE, !.rows = Answer(p.start, p.names, p.interval)]}
  /\ UNCHANGED <<serverVars, info, mounted, list, filter, custom, applying, histVars2>>

\* A page is added before or after the rows the list has by then.
AddPage == \E p \in page :
  /\ p.served /\ page' = NoPage /\ Len(list.rows) <= MaxRows
  /\ list' = [set |-> TRUE, rows |-> IF p.pre THEN p.rows \o list.rows ELSE list.rows \o p.rows]
  /\ mixed' = (mixed \/ p.names # loaded \/ p.old \/ p.turned)
  /\ UNCHANGED <<serverVars, info, mounted, filter, custom, applying, applies, loaded>>

PageFails == page # NoPage /\ page' = NoPage
             /\ UNCHANGED <<serverVars, info, mounted, list, filter, custom, applying, histVars2>>

-----------------------------------------------------------------------------
(* The filter dialog, and deletions. *)

\* The dialog's edits of the custom subjects go to the store, OK or not.
EditCustom(names) ==
  /\ mounted /\ custom # names /\ custom' = names
  /\ UNCHANGED <<serverVars, info, mounted, list, filter, page, applying, histVars2>>

\* OK: the filter is set and everything is asked for again.  The backend looks at
\* the sign of the interval only when the start is a number.
FilterApply(names, interval, start, byTime) ==
  /\ mounted /\ applies < MaxApplies /\ applies' = applies + 1
  /\ filter' = [names |-> names, interval |-> interval]
  /\ applying' = applying \cup
       {[n |-> applies + 1, names |-> names \cup custom, start |-> start,
         interval |-> IF byTime /\ interval < 0 THEN -interval ELSE interval]}
  /\ UNCHANGED <<serverVars, info, mounted, list, custom, page, loaded, mixed>>

\* Its answer replaces the rows; an answer that fails leaves them.
FilterAnswer(a, ok) ==
  /\ applying' = applying \ {a}
  /\ IF ok THEN /\ list' = [set |-> TRUE, rows |-> Answer(a.start, a.names, a.interval)]
                /\ loaded' = a.names
                /\ mixed' = FALSE
                /\ page' = {[p EXCEPT !.old = TRUE] : p \in page}   \* history
     ELSE UNCHANGED <<list, loaded, mixed, page>>
  /\ UNCHANGED <<serverVars, info, mounted, filter, custom, applies>>

\* The confirmed deletion of a row: the backend first, then the list.
DeleteMessage(s) ==
  /\ mounted /\ s \in ToSet(list.rows) /\ s \in alive
  /\ alive' = alive \ {s}
  /\ list' = [list EXCEPT !.rows = Without(@, s)]
  /\ UNCHANGED <<last, info, mounted, filter, custom, page, applying, histVars2>>

StreamNext ==
  \/ StreamGrows \/ \E s \in alive : Expire(s)
  \/ Mount \/ Unmount \/ FetchPrev \/ FetchNext \/ ServePage \/ AddPage \/ PageFails
  \/ \E names \in SUBSET StreamSubjects : EditCustom(names)
  \/ \E names \in SUBSET StreamSubjects, i \in Intervals, start \in Seqs, byTime \in BOOLEAN :
       FilterApply(names, i, start, byTime)
  \/ \E a \in applying, ok \in BOOLEAN : FilterAnswer(a, ok)
  \/ \E s \in Seqs : DeleteMessage(s)

StreamSpec == StreamInit /\ [][StreamNext]_streamVars

-----------------------------------------------------------------------------
(* Properties. *)

Rows == ToSet(list.rows)

\* Browsing skips nothing: between the smallest and the largest row, every message
\* of the stream with the subjects asked for is in the list, whatever the order of
\* pages, deletions and publications, unless pages of two filters were mixed or a
\* page was asked for with a negative size, which swaps fetchPrev and fetchNext.
Complete ==
  ~mixed /\ Rows # {} =>
    \A s \in Match(loaded) : Min(Rows) <= s /\ s <= Max(Rows) => s \in Rows

NoGaps == alive = info.first..last

\* Over a stream without gaps and without a filter the pages fit: the rows are
\* consecutive numbers, each of them once.
Contiguous ==
  ~mixed /\ loaded = {} /\ NoGaps =>
    \A i \in 1..Len(list.rows) - 1 : list.rows[i + 1] = list.rows[i] + 1

\* The pages a card has put together are a part of the stream with nothing left out
\* (streams/messages.ts:147-215).
PagesSound == StreamTypeOK /\ Complete /\ Contiguous
=============================================================================

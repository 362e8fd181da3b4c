---------------------------- MODULE StreamBrowse ----------------------------
(***************************************************************************)
(* One request for a page of a stream's messages, as streams.go serves it: *)
(* it reads the stream one message at a time and keeps no consumer, while  *)
(* the stream goes on growing and losing messages between two reads.       *)
(* Messages are their sequence numbers; 0 is no message.                   *)
(***************************************************************************)
EXTENDS Integers, Sequences

CONSTANTS LastSeq,     \* bound: sequence numbers
          MsgNames,    \* subjects of the stream
          SubjectOf,   \* the subject of each message
          TimeOf,      \* its time, which grows with the number or stays
          PageRequests \* the requests: [by, start, filters, limit]

ASSUME BrowseAssumption ==
  /\ LastSeq \in Nat
  /\ SubjectOf \in [1..LastSeq -> MsgNames]
  /\ TimeOf \in [1..LastSeq -> Nat]
  /\ \A s, t \in 1..LastSeq : s <= t => TimeOf[s] <= TimeOf[t]
  /\ PageRequests \subseteq [by: {"forward", "backward", "time"}, start: Nat,
                             filters: Seq(SUBSET MsgNames), limit: Nat \ {0}]

VARIABLES
  inStream, lastSeq,  \* the stream: its messages, and the last number it gave
  steady,   \* history: the messages it has had since the request came
  query,    \* the request; a start of 0 is none, a time is a start of its own
  phase,    \* "info", "search", "scan", "ended", "done" or "failed"
  firstSeq, \* the first number, as the stream said it at the start
  lo, hi,   \* the search's interval; lo is also where a window starts
  found,    \* the search's result
  window,   \* the width collectBackward looks back
  cursor, upTo, cand, exhausted, turn, best,  \* collectForward
  msgs      \* what it has collected, and in the end the answer

scanVars == <<cursor, upTo, cand, exhausted, turn, best, msgs>>
browseVars == <<inStream, lastSeq, steady, query, phase, firstSeq, lo, hi, found, window, scanVars>>

Filters == 1..Len(query.filters)
Matches(s, names) == SubjectOf[s] \in names

\* getNextMsg: the first message from a number on with a subject, or none.
NextMsg(from, names, m) ==
  LET later == {s \in inStream : s >= from /\ Matches(s, names)}
  IN  IF later = {} THEN m = 0 ELSE m \in later /\ \A s \in later : m <= s

BrowseInit ==
  /\ lastSeq \in 0..LastSeq /\ inStream \in SUBSET (1..lastSeq) /\ steady = inStream
  /\ query \in PageRequests /\ phase = "info"
  /\ firstSeq = 1 /\ lo = 1 /\ hi = 0 /\ found = 0 /\ window = 0
  /\ cursor = 1 /\ upTo = 0 /\ cand = <<>> /\ exhausted = {} /\ turn = 1 /\ best = 0
  /\ msgs = <<>>

-----------------------------------------------------------------------------
(* The stream goes on meanwhile. *)

GrowStream ==
  /\ lastSeq < LastSeq /\ lastSeq' = lastSeq + 1 /\ inStream' = inStream \cup {lastSeq + 1}
  /\ UNCHANGED <<steady, query, phase, firstSeq, lo, hi, found, window, scanVars>>

\* A limit of the stream, or a client, deletes a message.
DeleteMsg(s) ==
  /\ s \in inStream /\ inStream' = inStream \ {s} /\ steady' = steady \ {s}
  /\ UNCHANGED <<lastSeq, query, phase, firstSeq, lo, hi, found, window, scanVars>>

-----------------------------------------------------------------------------
(* HandleIndexStreamMessages. *)

StartScan(from, to) ==
  /\ phase' = "scan" /\ cursor' = from /\ upTo' = to /\ turn' = 1 /\ best' = 0
  /\ cand' = [j \in Filters |-> 0] /\ exhausted' = {} /\ msgs' = <<>>

\* Where collectBackward's window starts.
WindowStart(upper, width, first) ==
  IF upper + 1 - width > first THEN upper + 1 - width ELSE first

AskByTime(first) ==
  /\ query.by = "time" /\ phase' = "search" /\ lo' = first /\ hi' = lastSeq
  /\ UNCHANGED <<window, scanVars>>
AskForward(first) ==
  /\ query.by = "forward" /\ StartScan(IF query.start = 0 THEN first ELSE query.start, 0)
  /\ UNCHANGED <<lo, hi, window>>
AskBackward(first) ==
  LET start == IF query.start = 0 THEN lastSeq ELSE query.start
      upper == IF start > lastSeq THEN lastSeq ELSE start
  IN  /\ query.by = "backward" /\ UNCHANGED hi
      /\ IF start < first THEN phase' = "done" /\ UNCHANGED <<lo, window, scanVars>>
         ELSE /\ window' = query.limit /\ lo' = WindowStart(upper, query.limit, first)
              /\ StartScan(lo', upper)

ReadInfo ==
  /\ phase = "info"
  /\ IF inStream = {} THEN phase' = "done" /\ UNCHANGED <<firstSeq, lo, hi, window, scanVars>>
     ELSE \E first \in inStream :
            /\ \A s \in inStream : first <= s
            /\ firstSeq' = first
            /\ AskByTime(first) \/ AskForward(first) \/ AskBackward(first)
  /\ UNCHANGED <<inStream, lastSeq, steady, query, found>>

\* findSeqByTime: one turn of its binary search.
Search ==
  /\ phase = "search" /\ lo <= hi
  /\ LET mid == lo + (hi - lo) \div 2
     IN  \E m \in inStream \cup {0} :
           /\ NextMsg(mid, MsgNames, m)
           /\ \/ m = 0 /\ hi' = mid - 1 /\ UNCHANGED <<lo, found>>
              \/ m # 0 /\ TimeOf[m] < query.start /\ lo' = m + 1 /\ UNCHANGED <<hi, found>>
              \/ m # 0 /\ TimeOf[m] >= query.start /\ found' = m /\ hi' = mid - 1 /\ UNCHANGED lo
  /\ UNCHANGED <<inStream, lastSeq, steady, query, phase, firstSeq, window, scanVars>>
SearchEnds ==
  /\ phase = "search" /\ lo > hi
  /\ IF found = 0 THEN phase' = "done" /\ UNCHANGED scanVars ELSE StartScan(found, 0)
  /\ UNCHANGED <<inStream, lastSeq, steady, query, firstSeq, lo, hi, found, window>>

-----------------------------------------------------------------------------
(* collectForward: in turn, each subject's next message; then the first of them. *)

Lesser(m) == IF best = 0 \/ m < best THEN m ELSE best

\* Mutant: a candidate that was taken stays one.
Fresh_Once(j) == cand[j] # 0

Fresh(j) == cand[j] # 0 /\ cand[j] >= cursor

ConsiderKept == /\ Fresh(turn) /\ best' = Lesser(cand[turn]) /\ UNCHANGED <<cand, exhausted>>
ConsiderNext ==
  /\ ~Fresh(turn)
  /\ \E m \in inStream \cup {0} :
       /\ NextMsg(cursor, query.filters[turn], m)
       /\ cand' = [cand EXCEPT ![turn] = m]
       /\ IF m = 0 THEN exhausted' = exhausted \cup {turn} /\ UNCHANGED best
          ELSE best' = Lesser(m) /\ UNCHANGED exhausted
Consider ==
  /\ phase = "scan" /\ turn \in Filters /\ turn' = turn + 1
  /\ IF turn \in exhausted THEN UNCHANGED <<cand, exhausted, best>>
     ELSE ConsiderKept \/ ConsiderNext
  /\ UNCHANGED <<inStream, lastSeq, steady, query, phase, firstSeq, lo, hi, found, window, cursor, upTo, msgs>>

\* collectBackward has no limit on what it scans.
Full(n) == query.by # "backward" /\ n >= query.limit
Take ==
  /\ phase = "scan" /\ turn \notin Filters
  /\ IF best = 0 \/ (upTo > 0 /\ best > upTo)
     THEN phase' = "ended" /\ UNCHANGED scanVars
     ELSE /\ msgs' = Append(msgs, best) /\ cursor' = best + 1 /\ turn' = 1 /\ best' = 0
          /\ phase' = IF Full(Len(msgs')) THEN "ended" ELSE phase
          /\ UNCHANGED <<upTo, cand, exhausted>>
  /\ UNCHANGED <<inStream, lastSeq, steady, query, firstSeq, lo, hi, found, window>>

\* collectBackward keeps the last ones, or looks back twice as far.
Answered == query.by # "backward" \/ Len(msgs) >= query.limit \/ lo = firstSeq
LastOnes ==
  IF query.by = "backward" /\ Len(msgs) >= query.limit
  THEN SubSeq(msgs, Len(msgs) - query.limit + 1, Len(msgs)) ELSE msgs
Finish ==
  /\ phase = "ended" /\ Answered /\ phase' = "done" /\ msgs' = LastOnes
  /\ UNCHANGED <<inStream, lastSeq, steady, query, firstSeq, lo, hi, found, window,
                 cursor, upTo, cand, exhausted, turn, best>>
Widen ==
  /\ phase = "ended" /\ ~Answered
  /\ window' = 2 * window /\ lo' = WindowStart(upTo, window', firstSeq)
  /\ StartScan(lo', upTo)
  /\ UNCHANGED <<inStream, lastSeq, steady, query, firstSeq, hi, found>>

\* Any read may fail.
ReadFails == /\ phase \in {"info", "search", "scan"} /\ phase' = "failed"
             /\ UNCHANGED <<inStream, lastSeq, steady, query, firstSeq, lo, hi, found, window, scanVars>>

ServePageRequest == ReadInfo \/ Search \/ SearchEnds \/ Consider \/ Take \/ Finish \/ Widen \/ ReadFails
BrowseNext == ServePageRequest \/ GrowStream \/ \E s \in inStream : DeleteMsg(s)
BrowseSpec == BrowseInit /\ [][BrowseNext]_browseVars

-----------------------------------------------------------------------------
(* Properties. *)

Asked(s) == /\ \E j \in Filters : Matches(s, query.filters[j])
            /\ CASE query.by = "forward" -> s >= query.start
                 [] query.by = "backward" -> query.start = 0 \/ s <= query.start
                 [] query.by = "time" -> TimeOf[s] >= query.start

\* The answer has what was asked for, in ascending order, each message once, and no
\* more than the limit of them.
AnswerAsked ==
  phase = "done" => /\ Len(msgs) <= query.limit
                    /\ \A i \in 1..Len(msgs) : Asked(msgs[i]) /\ \A j \in 1..(i - 1) : msgs[j] < msgs[i]

\* No message that was there all the time is skipped: those the answer does not have
\* lie beyond the last, or before the first, of as many as were asked for.
NothingSkipped ==
  phase = "done" => \A s \in steady : Asked(s) =>
    \/ \E i \in 1..Len(msgs) : msgs[i] = s
    \/ /\ Len(msgs) = query.limit
       /\ IF query.by = "backward" THEN s < msgs[1] ELSE s > msgs[Len(msgs)]

\* A page of a stream that changes while it is read.
BrowseSound == AnswerAsked /\ NothingSkipped
=============================================================================

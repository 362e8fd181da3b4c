------------------------ MODULE MessageCards_proofs ------------------------
(***************************************************************************)
(* Proofs about the cards of messages and the pages of a stream, for any   *)
(* subjects, schemas, page sizes, times and limits of the history: that a  *)
(* page served is of what was asked for and skips no message that was      *)
(* there all the time, that a live card's markers tell what the hub        *)
(* streams, that a stream card's pages leave nothing out, and that the     *)
(* rows of lists and the card of a protobuf message show the same type.    *)
(***************************************************************************)
EXTENDS LiveMessages, StreamMessages, StreamBrowse, ProtoCards, Subsequences_proofs

-----------------------------------------------------------------------------
(* One page of a stream. *)

Names(j) == query.filters[j]
MatchesOne(s) == \E j \in Filters : Matches(s, Names(j))
Scanning == phase \in {"scan", "ended"}

\* The number at which the scan began.
ScanFrom == CASE query.by = "backward" -> lo
              [] query.by = "time" -> found
              [] query.by = "forward" -> IF query.start = 0 THEN firstSeq ELSE query.start

BrowseTypeOK ==
  /\ lastSeq \in 0..LastSeq /\ inStream \in SUBSET (1..lastSeq) /\ steady \in SUBSET inStream
  /\ query \in PageRequests
  /\ phase \in {"info", "search", "scan", "ended", "done", "failed"}
  /\ firstSeq \in Nat \ {0} /\ lo \in Nat \ {0} /\ hi \in Nat /\ found \in 0..LastSeq
  /\ window \in Nat /\ cursor \in Nat \ {0} /\ upTo \in Nat /\ turn \in Nat \ {0}
  /\ best \in 0..LastSeq /\ msgs \in Seq(1..LastSeq)
  /\ Scanning => /\ cand \in [Filters -> 0..LastSeq] /\ exhausted \in SUBSET Filters
                 /\ turn <= Len(query.filters) + 1

\* The search leaves behind it only what is too early, and ahead only what it has found.
SearchInv ==
  /\ found # 0 => query.by = "time" /\ TimeOf[found] >= query.start
  /\ phase = "search" =>
       /\ query.by = "time"
       /\ \A s \in steady : s < lo => TimeOf[s] < query.start
       /\ \A s \in steady : s > hi /\ TimeOf[s] >= query.start => found # 0 /\ found <= s

\* What a scan will read covers what was asked for.
RangeInv ==
  /\ phase = "info" => firstSeq = 1
  /\ phase # "info" => \A s \in steady : firstSeq <= s
  /\ Scanning /\ query.by = "time" =>
       found # 0 /\ \A s \in steady : TimeOf[s] >= query.start => found <= s
  /\ Scanning /\ query.by = "backward" =>
       /\ lo >= firstSeq /\ upTo > 0
       /\ query.start # 0 => upTo <= query.start
       /\ \A s \in steady : query.start = 0 \/ s <= query.start => s <= upTo
  /\ Scanning /\ query.by # "backward" => upTo = 0

\* The messages collected: in order, each asked for, and none before the cursor left out.
CollectedInv ==
  Scanning =>
    /\ ScanFrom <= cursor
    /\ \A i \in 1..Len(msgs) : /\ ScanFrom <= msgs[i] /\ msgs[i] < cursor /\ MatchesOne(msgs[i])
                               /\ upTo > 0 => msgs[i] <= upTo
                               /\ \A j \in 1..(i - 1) : msgs[j] < msgs[i]
    /\ \A s \in steady : ScanFrom <= s /\ s < cursor /\ MatchesOne(s) =>
         \E i \in 1..Len(msgs) : msgs[i] = s

\* Nothing lies between the cursor and a candidate, nor ahead of an exhausted subject,
\* nor between the cursor and the best of the candidates considered.
CandidatesInv ==
  phase = "scan" =>
    /\ \A j \in Filters : cand[j] # 0 => Matches(cand[j], Names(j))
    /\ \A j \in Filters : Fresh(j) =>
         \A s \in steady : cursor <= s /\ Matches(s, Names(j)) => cand[j] <= s
    /\ \A j \in exhausted : \A s \in steady : Matches(s, Names(j)) => s < cursor
    /\ best # 0 => cursor <= best /\ MatchesOne(best)
    /\ \A j \in 1..(turn - 1) : \A s \in steady :
         cursor <= s /\ Matches(s, Names(j)) => best # 0 /\ best <= s

\* A scan ends when it has as many as were asked for, or when there are no more.
EndInv ==
  /\ phase \in {"info", "search"} => msgs = <<>>
  /\ phase = "scan" /\ query.by # "backward" => Len(msgs) < query.limit
  /\ phase = "ended" =>
       \/ query.by # "backward" /\ Len(msgs) = query.limit
       \/ /\ query.by # "backward" => Len(msgs) < query.limit
          /\ \A s \in steady : cursor <= s /\ MatchesOne(s) => upTo > 0 /\ upTo < s

BrowseInv ==
  BrowseTypeOK /\ SearchInv /\ RangeInv /\ CollectedInv /\ CandidatesInv /\ EndInv /\ BrowseSound

-----------------------------------------------------------------------------
(* Facts about requests, messages and reads. *)

LEMMA QueryFacts ==
  ASSUME query \in PageRequests
  PROVE  /\ query.by \in {"forward", "backward", "time"} /\ query.start \in Nat
         /\ query.filters \in Seq(SUBSET MsgNames) /\ query.limit \in Nat \ {0}
         /\ Len(query.filters) \in Nat
  <1>1. query \in [by: {"forward", "backward", "time"}, start: Nat,
                   filters: Seq(SUBSET MsgNames), limit: Nat \ {0}]
    BY BrowseAssumption
  <1> QED BY <1>1, LenProperties

LEMMA NumberFacts ==
  ASSUME BrowseTypeOK
  PROVE  /\ LastSeq \in Nat /\ lastSeq \in Nat /\ lastSeq <= LastSeq
         /\ \A s \in inStream : s \in 1..lastSeq /\ s \in 1..LastSeq /\ s \in Nat
         /\ \A s \in steady : s \in inStream /\ s \in 1..lastSeq /\ s \in 1..LastSeq /\ s \in Nat
         /\ \A s \in 1..LastSeq : TimeOf[s] \in Nat
         /\ \A s, t \in 1..LastSeq : s <= t => TimeOf[s] <= TimeOf[t]
         /\ Len(msgs) \in Nat /\ \A i \in 1..Len(msgs) : msgs[i] \in 1..LastSeq
         /\ ScanFrom \in Nat
  <1>1. LastSeq \in Nat /\ lastSeq \in Nat /\ lastSeq <= LastSeq
    BY BrowseAssumption DEF BrowseTypeOK
  <1>2. /\ \A s \in inStream : s \in 1..lastSeq /\ s \in 1..LastSeq /\ s \in Nat
        /\ \A s \in steady : s \in inStream /\ s \in 1..lastSeq /\ s \in 1..LastSeq /\ s \in Nat
    BY <1>1 DEF BrowseTypeOK
  <1>3. Len(msgs) \in Nat /\ \A i \in 1..Len(msgs) : msgs[i] \in 1..LastSeq
    BY ElementOfSeq, LenProperties DEF BrowseTypeOK
  <1>4. ScanFrom \in Nat
    BY <1>1, QueryFacts DEF BrowseTypeOK, ScanFrom
  <1> QED BY <1>1, <1>2, <1>3, <1>4, BrowseAssumption

\* A read returns the first message of a subject, of those that stayed the first too.
LEMMA ReadFacts ==
  ASSUME BrowseTypeOK, NEW from \in Nat, NEW names, NEW m \in inStream \cup {0},
         NextMsg(from, names, m)
  PROVE  /\ m \in 0..LastSeq
         /\ m = 0 => \A s \in steady : Matches(s, names) => s < from
         /\ m # 0 => /\ from <= m /\ Matches(m, names)
                     /\ \A s \in steady : from <= s /\ Matches(s, names) => m <= s
  <1>1. m \in 0..LastSeq
    BY NumberFacts
  <1>2. \A s \in steady : from <= s /\ Matches(s, names) =>
          s \in {t \in inStream : t >= from /\ Matches(t, names)}
    BY NumberFacts
  <1>3. CASE {t \in inStream : t >= from /\ Matches(t, names)} = {}
    <2>1. m = 0
      BY <1>3 DEF NextMsg
    <2> QED BY <1>1, <1>2, <1>3, <2>1, NumberFacts
  <1>4. CASE {t \in inStream : t >= from /\ Matches(t, names)} # {}
    <2>1. m \in {t \in inStream : t >= from /\ Matches(t, names)}
      BY <1>4 DEF NextMsg
    <2>2. \A s \in {t \in inStream : t >= from /\ Matches(t, names)} : m <= s
      BY <1>4 DEF NextMsg
    <2> QED BY <1>1, <1>2, <2>1, <2>2, NumberFacts
  <1> QED BY <1>3, <1>4

LEMMA BrowseStarts == BrowseInit => BrowseInv
  <1> SUFFICES ASSUME BrowseInit PROVE BrowseInv
    OBVIOUS
  <1>1. BrowseTypeOK
    BY BrowseAssumption DEF BrowseInit, BrowseTypeOK, Scanning
  <1>2. SearchInv /\ RangeInv /\ CollectedInv /\ CandidatesInv /\ EndInv
    BY DEF BrowseInit, SearchInv, RangeInv, CollectedInv, CandidatesInv, EndInv, Scanning
  <1>3. BrowseSound
    BY DEF BrowseInit, BrowseSound, AnswerAsked, NothingSkipped
  <1> QED BY <1>1, <1>2, <1>3 DEF BrowseInv

-----------------------------------------------------------------------------
(* The stream grows and loses messages. *)

LEMMA StreamChanges ==
  ASSUME BrowseInv, steady' \in SUBSET steady, BrowseTypeOK',
         UNCHANGED <<query, phase, firstSeq, lo, hi, found, window, scanVars>>
  PROVE  BrowseInv'
  <1> USE DEF scanVars
  <1>1. SearchInv'
    BY DEF BrowseInv, SearchInv
  <1>2. RangeInv'
    BY DEF BrowseInv, RangeInv, Scanning
  <1>3. CollectedInv'
    BY DEF BrowseInv, CollectedInv, Scanning, ScanFrom, MatchesOne, Names, Filters, Matches
  <1>4. CandidatesInv'
    BY DEF BrowseInv, CandidatesInv, MatchesOne, Names, Filters, Matches, Fresh
  <1>5. EndInv'
    BY DEF BrowseInv, EndInv, MatchesOne, Names, Filters, Matches
  <1>6. BrowseSound'
    BY DEF BrowseInv, BrowseSound, AnswerAsked, NothingSkipped, Asked, Filters, Matches
  <1> QED BY <1>1, <1>2, <1>3, <1>4, <1>5, <1>6 DEF BrowseInv

LEMMA GrowKeeps == BrowseInv /\ GrowStream => BrowseInv'
  <1> SUFFICES ASSUME BrowseInv, GrowStream PROVE BrowseInv'
    OBVIOUS
  <1>1. lastSeq' \in 0..LastSeq /\ inStream' \in SUBSET (1..lastSeq') /\ steady' \in SUBSET inStream'
    BY NumberFacts DEF BrowseInv, BrowseTypeOK, GrowStream
  <1>2. BrowseTypeOK'
    BY <1>1 DEF BrowseInv, BrowseTypeOK, GrowStream, scanVars, Scanning, Filters
  <1> QED BY <1>2, StreamChanges DEF GrowStream

LEMMA DeleteKeeps == \A s \in inStream : BrowseInv /\ DeleteMsg(s) => BrowseInv'
  <1> SUFFICES ASSUME NEW s \in inStream, BrowseInv, DeleteMsg(s) PROVE BrowseInv'
    OBVIOUS
  <1>1. BrowseTypeOK'
    BY DEF BrowseInv, BrowseTypeOK, DeleteMsg, scanVars, Scanning, Filters
  <1> QED BY <1>1, StreamChanges DEF DeleteMsg

-----------------------------------------------------------------------------
(* The request is read, and the search by time. *)

LEMMA ScanStarts ==
  ASSUME BrowseTypeOK, NEW from \in Nat \ {0}, NEW to \in Nat, StartScan(from, to),
         UNCHANGED <<inStream, lastSeq, steady, query>>,
         firstSeq' \in Nat \ {0}, lo' \in Nat \ {0}, hi' = hi, found' = found, window' \in Nat,
         SearchInv, ScanFrom' = from, RangeInv'
  PROVE  BrowseInv'
  <1>1. phase' = "scan" /\ cursor' = from /\ turn' = 1 /\ best' = 0 /\ msgs' = <<>>
        /\ cand' = [j \in Filters |-> 0] /\ exhausted' = {} /\ upTo' = to
    BY DEF StartScan
  <1>2. query.limit \in Nat \ {0} /\ Len(query.filters) \in Nat
    BY QueryFacts DEF BrowseTypeOK
  <1>3. BrowseTypeOK'
    BY <1>1, <1>2, BrowseAssumption DEF BrowseTypeOK, Scanning, Filters
  <1>4. SearchInv'
    BY <1>1 DEF SearchInv
  <1>5. CollectedInv'
    BY <1>1, <1>3, NumberFacts DEF CollectedInv, BrowseTypeOK
  <1>6. CandidatesInv'
    BY <1>1, <1>2 DEF CandidatesInv, Fresh, Filters
  <1>7. EndInv'
    BY <1>1, <1>2 DEF EndInv
  <1>8. BrowseSound'
    BY <1>1 DEF BrowseSound, AnswerAsked, NothingSkipped
  <1> QED BY <1>3, <1>4, <1>5, <1>6, <1>7, <1>8 DEF BrowseInv

LEMMA WindowFacts ==
  ASSUME NEW upper \in Nat, NEW width \in Nat, NEW first \in Nat \ {0}
  PROVE  WindowStart(upper, width, first) \in Nat \ {0} /\ first <= WindowStart(upper, width, first)
  BY DEF WindowStart

\* An answer without a message, when there is none to give.
LEMMA EmptyAnswer ==
  ASSUME BrowseTypeOK, query' = query, msgs' = <<>>, \A s \in steady' : ~Asked(s)'
  PROVE  BrowseSound'
  <1>1. query'.limit \in Nat /\ Len(msgs') = 0
    BY QueryFacts DEF BrowseTypeOK
  <1> QED BY <1>1 DEF BrowseSound, AnswerAsked, NothingSkipped

LEMMA ReadInfoKeeps == BrowseInv /\ ReadInfo => BrowseInv'
  <1> SUFFICES ASSUME BrowseInv, ReadInfo PROVE BrowseInv'
    OBVIOUS
  <1>1. phase = "info" /\ UNCHANGED <<inStream, lastSeq, steady, query, found>>
    BY DEF ReadInfo
  <1>2. /\ BrowseTypeOK /\ SearchInv /\ EndInv /\ msgs = <<>>
        /\ query.start \in Nat /\ query.limit \in Nat \ {0} /\ lastSeq \in Nat
    BY <1>1, QueryFacts, NumberFacts DEF BrowseInv, BrowseTypeOK, EndInv
  <1>3. CASE inStream = {}
    <2>1. phase' = "done" /\ UNCHANGED <<firstSeq, lo, hi, window, scanVars>>
      BY <1>3 DEF ReadInfo
    <2>2. steady' = {}
      BY <1>1, <1>2, <1>3 DEF BrowseTypeOK
    <2>3. BrowseTypeOK'
      BY <1>1, <1>2, <2>1 DEF BrowseTypeOK, Scanning, scanVars
    <2>4. SearchInv' /\ RangeInv' /\ CollectedInv' /\ CandidatesInv' /\ EndInv'
      BY <1>1, <1>2, <2>1, <2>2
         DEF SearchInv, RangeInv, CollectedInv, CandidatesInv, EndInv, Scanning, scanVars
    <2>5. BrowseSound'
      BY <1>1, <1>2, <2>1, <2>2, EmptyAnswer DEF scanVars
    <2> QED BY <2>3, <2>4, <2>5 DEF BrowseInv
  <1>4. CASE inStream # {}
    <2>1. PICK first \in inStream :
            /\ \A s \in inStream : first <= s
            /\ firstSeq' = first
            /\ AskByTime(first) \/ AskForward(first) \/ AskBackward(first)
      BY <1>4 DEF ReadInfo
    <2>2. first \in Nat \ {0} /\ first <= lastSeq /\ \A s \in steady : first <= s /\ s <= lastSeq
      BY <1>2, <2>1, NumberFacts
    <2>3. CASE AskByTime(first)
      <3>1. BrowseTypeOK'
        BY <1>1, <1>2, <2>1, <2>2, <2>3 DEF AskByTime, BrowseTypeOK, Scanning, scanVars
      <3>2. SearchInv'
        BY <1>1, <1>2, <2>2, <2>3, NumberFacts DEF AskByTime, SearchInv
      <3>3. RangeInv' /\ CollectedInv' /\ CandidatesInv' /\ EndInv' /\ BrowseSound'
        BY <1>1, <1>2, <2>1, <2>2, <2>3
           DEF AskByTime, RangeInv, CollectedInv, CandidatesInv, EndInv, BrowseSound, AnswerAsked,
               NothingSkipped, Scanning, scanVars
      <3> QED BY <3>1, <3>2, <3>3 DEF BrowseInv
    <2>4. CASE AskForward(first)
      <3> DEFINE from == IF query.start = 0 THEN first ELSE query.start
      <3>1. /\ query.by = "forward" /\ StartScan(from, 0) /\ UNCHANGED <<lo, hi, window>>
            /\ phase' = "scan" /\ upTo' = 0
        BY <2>4 DEF AskForward, StartScan
      <3>2. from \in Nat \ {0} /\ ScanFrom' = from
        BY <1>1, <1>2, <2>1, <2>2, <3>1 DEF ScanFrom
      <3>3. RangeInv'
        BY <1>1, <2>1, <2>2, <3>1 DEF RangeInv
      <3> QED BY <1>1, <1>2, <2>1, <2>2, <3>1, <3>2, <3>3, ScanStarts DEF BrowseTypeOK
    <2>5. CASE AskBackward(first)
      <3> DEFINE start == IF query.start = 0 THEN lastSeq ELSE query.start
                 upper == IF start > lastSeq THEN lastSeq ELSE start
      <3>1. query.by = "backward" /\ UNCHANGED hi
        BY <2>5 DEF AskBackward
      <3>2. CASE start < first
        <4>1. phase' = "done" /\ UNCHANGED <<lo, window, scanVars>>
          BY <2>5, <3>2 DEF AskBackward
        <4>2. BrowseTypeOK'
          BY <1>1, <1>2, <2>1, <2>2, <3>1, <4>1 DEF BrowseTypeOK, Scanning, scanVars
        <4>3. SearchInv' /\ RangeInv' /\ CollectedInv' /\ CandidatesInv' /\ EndInv'
          BY <1>1, <1>2, <2>1, <2>2, <3>1, <4>1
             DEF SearchInv, RangeInv, CollectedInv, CandidatesInv, EndInv, Scanning, scanVars
        <4>4. \A s \in steady' : ~Asked(s)'
          BY <1>1, <1>2, <2>2, <3>1, <3>2, NumberFacts DEF Asked
        <4> QED BY <1>1, <1>2, <4>1, <4>2, <4>3, <4>4, EmptyAnswer DEF BrowseInv, scanVars
      <3>3. CASE ~(start < first)
        <4>1. /\ window' = query.limit /\ lo' = WindowStart(upper, query.limit, first)
              /\ StartScan(lo', upper) /\ phase' = "scan" /\ upTo' = upper
          BY <2>5, <3>3 DEF AskBackward, StartScan
        <4>2. upper \in Nat \ {0} /\ upper <= lastSeq /\ (query.start # 0 => upper <= query.start)
          BY <1>2, <2>2, <3>3
        <4>3. lo' \in Nat \ {0} /\ first <= lo'
          BY <1>2, <2>2, <4>1, <4>2, WindowFacts
        <4>4. \A s \in steady : query.start = 0 \/ s <= query.start => s <= upper
          BY <1>2, <2>2, NumberFacts
        <4>5. RangeInv'
          BY <1>1, <2>1, <2>2, <3>1, <4>1, <4>2, <4>3, <4>4 DEF RangeInv, Scanning
        <4>6. ScanFrom' = lo'
          BY <1>1, <3>1 DEF ScanFrom
        <4> HIDE DEF upper, start
        <4> QED BY <1>1, <1>2, <2>1, <2>2, <3>1, <4>1, <4>2, <4>3, <4>5, <4>6, ScanStarts
      <3> QED BY <3>2, <3>3
    <2> QED BY <2>1, <2>3, <2>4, <2>5
  <1> QED BY <1>3, <1>4

LEMMA SearchKeeps == BrowseInv /\ Search => BrowseInv'
  <1> SUFFICES ASSUME BrowseInv, Search PROVE BrowseInv'
    OBVIOUS
  <1> DEFINE mid == lo + (hi - lo) \div 2
  <1>1. /\ phase = "search" /\ lo <= hi
        /\ UNCHANGED <<inStream, lastSeq, steady, query, phase, firstSeq, window, scanVars>>
    BY DEF Search
  <1>2. /\ BrowseTypeOK /\ SearchInv /\ query.start \in Nat
        /\ lo \in Nat \ {0} /\ hi \in Nat /\ lastSeq \in Nat
    BY QueryFacts, NumberFacts DEF BrowseInv, BrowseTypeOK
  <1>3. mid \in Nat \ {0} /\ mid - 1 \in Nat
    BY <1>1, <1>2
  <1>4. PICK m \in inStream \cup {0} :
           /\ NextMsg(mid, MsgNames, m)
           /\ \/ m = 0 /\ hi' = mid - 1 /\ UNCHANGED <<lo, found>>
              \/ m # 0 /\ TimeOf[m] < query.start /\ lo' = m + 1 /\ UNCHANGED <<hi, found>>
              \/ m # 0 /\ TimeOf[m] >= query.start /\ found' = m /\ hi' = mid - 1 /\ UNCHANGED lo
    BY DEF Search
  <1> HIDE DEF mid
  <1>5. \A s \in steady : Matches(s, MsgNames)
    BY <1>2, NumberFacts, BrowseAssumption DEF Matches
  <1>6. /\ m \in 0..LastSeq
        /\ m = 0 => \A s \in steady : s < mid
        /\ m # 0 => \A s \in steady : mid <= s => m <= s
    BY <1>2, <1>3, <1>4, <1>5, ReadFacts
  <1>7. BrowseTypeOK'
    BY <1>1, <1>2, <1>3, <1>4, <1>6, BrowseAssumption, SMTT(30) DEF BrowseTypeOK, Scanning,
       scanVars
  <1>8. SearchInv'
    <2>1. CASE m = 0 /\ hi' = mid - 1 /\ UNCHANGED <<lo, found>>
      BY <1>1, <1>2, <1>3, <1>6, <2>1, NumberFacts DEF SearchInv
    <2>2. CASE m # 0 /\ TimeOf[m] < query.start /\ lo' = m + 1 /\ UNCHANGED <<hi, found>>
      <3>1. \A s \in steady : s < m + 1 => TimeOf[s] < query.start
        BY <1>2, <1>6, <2>2, NumberFacts
      <3> QED BY <1>1, <1>2, <2>2, <3>1 DEF SearchInv
    <2>3. CASE m # 0 /\ TimeOf[m] >= query.start /\ found' = m /\ hi' = mid - 1 /\ UNCHANGED lo
      BY <1>1, <1>2, <1>3, <1>6, <2>3, NumberFacts DEF SearchInv
    <2> QED BY <1>4, <2>1, <2>2, <2>3
  <1>9. RangeInv' /\ CollectedInv' /\ CandidatesInv' /\ EndInv' /\ BrowseSound'
    BY <1>1 DEF BrowseInv, RangeInv, CollectedInv, CandidatesInv, EndInv, BrowseSound,
       AnswerAsked,
                NothingSkipped, Scanning, scanVars
  <1> QED BY <1>7, <1>8, <1>9 DEF BrowseInv

LEMMA SearchEndsKeeps == BrowseInv /\ SearchEnds => BrowseInv'
  <1> SUFFICES ASSUME BrowseInv, SearchEnds PROVE BrowseInv'
    OBVIOUS
  <1>1. /\ phase = "search" /\ lo > hi
        /\ UNCHANGED <<inStream, lastSeq, steady, query, firstSeq, lo, hi, found, window>>
    BY DEF SearchEnds
  <1>2. /\ BrowseTypeOK /\ SearchInv /\ RangeInv /\ msgs = <<>> /\ query.by = "time"
        /\ lo \in Nat \ {0} /\ hi \in Nat /\ found \in 0..LastSeq /\ query.start \in Nat
    BY <1>1, QueryFacts DEF BrowseInv, BrowseTypeOK, EndInv, SearchInv
  <1>3. \A s \in steady : TimeOf[s] >= query.start => found # 0 /\ found <= s
    BY <1>1, <1>2, NumberFacts DEF SearchInv
  <1>4. CASE found = 0
    <2>1. phase' = "done" /\ UNCHANGED scanVars
      BY <1>4 DEF SearchEnds
    <2>2. BrowseTypeOK'
      BY <1>1, <1>2, <2>1 DEF BrowseTypeOK, Scanning, scanVars
    <2>3. SearchInv' /\ RangeInv' /\ CollectedInv' /\ CandidatesInv' /\ EndInv'
      BY <1>1, <1>2, <2>1
         DEF SearchInv, RangeInv, CollectedInv, CandidatesInv, EndInv, Scanning, scanVars
    <2>4. \A s \in steady' : ~Asked(s)'
      BY <1>1, <1>2, <1>3, <1>4 DEF Asked
    <2> QED BY <1>1, <1>2, <2>1, <2>2, <2>3, <2>4, EmptyAnswer DEF BrowseInv, scanVars
  <1>5. CASE found # 0
    <2>1. StartScan(found, 0) /\ phase' = "scan" /\ upTo' = 0
      BY <1>5 DEF SearchEnds, StartScan
    <2>2. RangeInv'
      BY <1>1, <1>2, <1>3, <1>5, <2>1 DEF RangeInv
    <2>3. found \in Nat \ {0} /\ ScanFrom' = found
      BY <1>1, <1>2, <1>5, BrowseAssumption DEF ScanFrom
    <2> QED BY <1>1, <1>2, <2>1, <2>2, <2>3, ScanStarts DEF BrowseTypeOK
  <1> QED BY <1>4, <1>5

-----------------------------------------------------------------------------
(* The scan. *)

LEMMA ConsiderKeeps == BrowseInv /\ Consider => BrowseInv'
  <1> SUFFICES ASSUME BrowseInv, Consider PROVE BrowseInv'
    OBVIOUS
  <1>1. /\ phase = "scan" /\ turn \in Filters /\ turn' = turn + 1
        /\ UNCHANGED <<inStream, lastSeq, steady, query, phase, firstSeq, lo, hi, found, window,
                       cursor, upTo, msgs>>
    BY DEF Consider
  <1>2. /\ BrowseTypeOK /\ CandidatesInv /\ Len(query.filters) \in Nat
        /\ turn \in 1..Len(query.filters) /\ cursor \in Nat \ {0} /\ best \in Nat
        /\ cand \in [Filters -> 0..LastSeq] /\ exhausted \in SUBSET Filters /\ LastSeq \in Nat
    BY <1>1, QueryFacts, NumberFacts, SMTT(30) DEF BrowseInv, BrowseTypeOK, Scanning, Filters
  <1>7. \A s \in steady : s \in Nat
    BY <1>2, NumberFacts
  \* What each way of considering a subject gives.
  <1>3. /\ cand' \in [Filters -> 0..LastSeq] /\ exhausted' \in SUBSET Filters
        /\ best' \in 0..LastSeq
        /\ \A j \in Filters : j # turn => cand'[j] = cand[j]
        /\ cand'[turn] # 0 => Matches(cand'[turn], Names(turn))
        /\ cand'[turn] # 0 /\ cand'[turn] >= cursor =>
             \A s \in steady : cursor <= s /\ Matches(s, Names(turn)) => cand'[turn] <= s
        /\ exhausted' \subseteq exhausted \cup {turn}
        /\ turn \in exhausted' => \A s \in steady : Matches(s, Names(turn)) => s < cursor
        /\ best # 0 => best' # 0 /\ best' <= best
        /\ best' # 0 /\ best' # best => cursor <= best' /\ Matches(best', Names(turn))
        /\ \A s \in steady : cursor <= s /\ Matches(s, Names(turn)) => best' # 0 /\ best' <= s
    <2>1. CASE turn \in exhausted
      <3>1. UNCHANGED <<cand, exhausted, best>>
        BY <2>1 DEF Consider
      <3>2. \A s \in steady : Matches(s, Names(turn)) => s < cursor
        BY <1>1, <1>2, <2>1 DEF CandidatesInv
      <3> QED BY <1>1, <1>2, <3>1, <3>2, NumberFacts DEF BrowseTypeOK, CandidatesInv, Fresh
    <2>2. CASE turn \notin exhausted /\ ConsiderKept
      <3>1. /\ cand[turn] # 0 /\ cand[turn] >= cursor /\ best' = Lesser(cand[turn])
            /\ UNCHANGED <<cand, exhausted>> /\ cand[turn] \in 1..LastSeq
        BY <1>1, <1>2, <2>2 DEF ConsiderKept, Fresh
      <3>2. \A s \in steady : cursor <= s /\ Matches(s, Names(turn)) => cand[turn] <= s
        BY <1>1, <1>2, <3>1 DEF CandidatesInv, Fresh
      <3>3. Matches(cand[turn], Names(turn))
        BY <1>1, <1>2, <3>1 DEF CandidatesInv
      <3>4. /\ best' \in 1..LastSeq /\ best' \in {best, cand[turn]} /\ best' <= cand[turn]
            /\ best # 0 => best' <= best
        BY <1>2, <3>1 DEF Lesser, BrowseTypeOK
      <3> QED BY <1>1, <1>2, <2>2, <3>1, <3>2, <3>3, <3>4, NumberFacts
    <2>3. CASE turn \notin exhausted /\ ConsiderNext
      <3>1. PICK m \in inStream \cup {0} :
              /\ NextMsg(cursor, Names(turn), m)
              /\ cand' = [cand EXCEPT ![turn] = m]
              /\ IF m = 0 THEN exhausted' = exhausted \cup {turn} /\ UNCHANGED best
                 ELSE best' = Lesser(m) /\ UNCHANGED exhausted
        BY <2>3 DEF ConsiderNext, Names
      <3>2. /\ m \in 0..LastSeq
            /\ m = 0 => \A s \in steady : Matches(s, Names(turn)) => s < cursor
            /\ m # 0 => /\ cursor <= m /\ Matches(m, Names(turn))
                        /\ \A s \in steady : cursor <= s /\ Matches(s, Names(turn)) => m <= s
        BY <1>2, <3>1, ReadFacts
      <3>3. /\ cand' \in [Filters -> 0..LastSeq] /\ cand'[turn] = m
            /\ \A j \in Filters : j # turn => cand'[j] = cand[j]
        BY <1>1, <1>2, <3>1, <3>2
      <3> HIDE DEF Names
      <3>4. CASE m = 0
        <4>1. exhausted' = exhausted \cup {turn} /\ best' = best /\ best \in 0..LastSeq
          BY <1>2, <3>1, <3>4 DEF BrowseTypeOK
        <4>2. \A s \in steady : Matches(s, Names(turn)) => s < cursor
          BY <3>2, <3>4
        <4>3. \A s \in steady : s < cursor => ~(cursor <= s)
          BY <1>2, <1>7
        <4> QED BY <1>1, <1>2, <3>3, <3>4, <4>1, <4>2, <4>3
      <3>5. CASE m # 0
        <4>1. /\ best' \in 1..LastSeq /\ best' \in {best, m} /\ best' <= m
              /\ best # 0 => best' <= best
          BY <1>2, <3>1, <3>2, <3>5 DEF Lesser, BrowseTypeOK
        <4>2. /\ exhausted' = exhausted /\ turn \notin exhausted /\ best' # 0
              /\ cursor <= m /\ Matches(m, Names(turn))
              /\ \A s \in steady : cursor <= s /\ Matches(s, Names(turn)) => m <= s
          BY <2>3, <3>1, <3>2, <3>5, <4>1
        <4>3. \A s \in steady : m <= s => best' <= s
          BY <1>7, <3>2, <4>1, <1>2
        <4> QED BY <1>1, <1>2, <3>3, <4>1, <4>2, <4>3
      <3> QED BY <3>4, <3>5
    <2> QED BY <2>1, <2>2, <2>3 DEF Consider
  <1>4. BrowseTypeOK'
    BY <1>1, <1>2, <1>3 DEF BrowseTypeOK, Scanning, Filters
  <1>5. SearchInv' /\ RangeInv' /\ CollectedInv' /\ EndInv' /\ BrowseSound'
    BY <1>1 DEF BrowseInv, SearchInv, RangeInv, CollectedInv, EndInv, BrowseSound, AnswerAsked,
                NothingSkipped, Scanning, ScanFrom, MatchesOne, Names, Filters, Matches
  <1>6. CandidatesInv'
    <2> USE <1>1 DEF CandidatesInv
    <2>1. \A j \in Filters : cand'[j] # 0 => Matches(cand'[j], Names(j))
      BY <1>2, <1>3
    <2>2. \A j \in Filters : cand'[j] # 0 /\ cand'[j] >= cursor =>
            \A s \in steady : cursor <= s /\ Matches(s, Names(j)) => cand'[j] <= s
      BY <1>2, <1>3 DEF Fresh
    <2>3. \A j \in exhausted' : \A s \in steady : Matches(s, Names(j)) => s < cursor
      BY <1>2, <1>3
    <2>4. best' # 0 => cursor <= best' /\ MatchesOne(best')
      BY <1>2, <1>3 DEF MatchesOne
    <2>5. \A j \in 1..turn : \A s \in steady :
            cursor <= s /\ Matches(s, Names(j)) => best' # 0 /\ best' <= s
      <3> SUFFICES ASSUME NEW j \in 1..turn, NEW s \in steady, cursor <= s, Matches(s, Names(j))
                   PROVE  best' # 0 /\ best' <= s
        OBVIOUS
      <3>1. CASE j = turn
        BY <1>3, <3>1
      <3>2. CASE j # turn
        <4>1. best # 0 /\ best <= s
          BY <1>2, <3>2
        <4> QED BY <1>2, <1>3, <4>1, NumberFacts
      <3> QED BY <3>1, <3>2
    <2>6. turn' - 1 = turn
      BY <1>2
    <2> QED BY <2>1, <2>2, <2>3, <2>4, <2>5, <2>6
            DEF Fresh, MatchesOne, Names, Filters, Matches
  <1> QED BY <1>4, <1>5, <1>6 DEF BrowseInv

\* When every subject was considered, the best comes before all that stayed.
LEMMA BestIsNext ==
  ASSUME BrowseInv, phase = "scan", turn \notin Filters
  PROVE  \A s \in steady : cursor <= s /\ MatchesOne(s) => best # 0 /\ best <= s
  <1>1. /\ Len(query.filters) \in Nat /\ turn \in Nat \ {0} /\ turn <= Len(query.filters) + 1
    BY QueryFacts DEF BrowseInv, BrowseTypeOK, Scanning
  <1>2. turn - 1 = Len(query.filters)
    BY <1>1 DEF Filters
  <1> QED BY <1>2 DEF BrowseInv, CandidatesInv, MatchesOne, Filters

LEMMA TakeKeeps == BrowseInv /\ Take => BrowseInv'
  <1> SUFFICES ASSUME BrowseInv, Take PROVE BrowseInv'
    OBVIOUS
  <1>1. /\ phase = "scan" /\ turn \notin Filters
        /\ UNCHANGED <<inStream, lastSeq, steady, query, firstSeq, lo, hi, found, window>>
    BY DEF Take
  <1>2. /\ BrowseTypeOK /\ CollectedInv /\ CandidatesInv /\ EndInv /\ RangeInv
        /\ query.limit \in Nat \ {0} /\ Len(query.filters) \in Nat
        /\ best \in Nat /\ upTo \in Nat /\ cursor \in Nat \ {0} /\ Len(msgs) \in Nat
        /\ msgs \in Seq(1..LastSeq) /\ ScanFrom \in Nat /\ best \in 0..LastSeq /\ LastSeq \in Nat
    BY QueryFacts, NumberFacts DEF BrowseInv, BrowseTypeOK
  <1>3. \A s \in steady : cursor <= s /\ MatchesOne(s) => best # 0 /\ best <= s
    BY <1>1, BestIsNext
  <1>4. CASE best = 0 \/ (upTo > 0 /\ best > upTo)
    <2>1. phase' = "ended" /\ UNCHANGED scanVars
      BY <1>4 DEF Take
    <2>2. BrowseTypeOK' /\ SearchInv' /\ RangeInv' /\ CandidatesInv'
      BY <1>1, <2>1 DEF BrowseInv, BrowseTypeOK, SearchInv, RangeInv, CandidatesInv, Scanning,
                        Filters, scanVars
    <2>3. CollectedInv' /\ BrowseSound'
      BY <1>1, <2>1 DEF BrowseInv, CollectedInv, BrowseSound, AnswerAsked, NothingSkipped,
         Scanning,
                        ScanFrom, MatchesOne, Names, Filters, Matches, scanVars
    <2>4. \A s \in steady : cursor <= s /\ MatchesOne(s) => upTo > 0 /\ upTo < s
      BY <1>2, <1>3, <1>4, NumberFacts
    <2>5. EndInv'
      BY <1>1, <1>2, <2>1, <2>4 DEF EndInv, MatchesOne, Names, Filters, Matches, scanVars
    <2> QED BY <2>2, <2>3, <2>5 DEF BrowseInv
  <1>5. CASE best # 0 /\ (upTo > 0 => best <= upTo)
    <2>1. /\ msgs' = Append(msgs, best) /\ cursor' = best + 1 /\ turn' = 1 /\ best' = 0
          /\ phase' = IF Full(Len(msgs')) THEN "ended" ELSE phase
          /\ UNCHANGED <<upTo, cand, exhausted>>
      BY <1>2, <1>5 DEF Take
    <2>2. /\ msgs' \in Seq(1..LastSeq) /\ Len(msgs') = Len(msgs) + 1
          /\ msgs'[Len(msgs) + 1] = best
          /\ \A i \in 1..Len(msgs) : msgs'[i] = msgs[i]
      BY <1>2, <1>5, <2>1
    <2>3. cursor <= best /\ MatchesOne(best) /\ best \in 1..LastSeq
      BY <1>1, <1>2, <1>5 DEF CandidatesInv
    <2>4. BrowseTypeOK'
      <3>1. turn' \in Nat \ {0} /\ turn' <= Len(query.filters) + 1 /\ phase' \in {"scan", "ended"}
        BY <1>1, <1>2, <2>1
      <3> QED BY <1>1, <1>2, <2>1, <2>2, <2>3, <3>1 DEF BrowseTypeOK, Scanning, Filters
    <2>5. SearchInv' /\ RangeInv'
      BY <1>1, <2>1 DEF BrowseInv, SearchInv, RangeInv, Scanning
    <2>6. CollectedInv'
      <3>1. ScanFrom' = ScanFrom /\ ScanFrom <= cursor
        BY <1>1, <1>2 DEF ScanFrom, CollectedInv, Scanning
      <3>2. \A i \in 1..Len(msgs) : msgs[i] \in Nat
        BY <1>2, NumberFacts
      <3>3. \A i \in 1..Len(msgs') : /\ ScanFrom <= msgs'[i] /\ msgs'[i] < best + 1
                                     /\ MatchesOne(msgs'[i])
                                     /\ upTo > 0 => msgs'[i] <= upTo
                                     /\ \A j \in 1..(i - 1) : msgs'[j] < msgs'[i]
        <4> SUFFICES ASSUME NEW i \in 1..Len(msgs')
                     PROVE  /\ ScanFrom <= msgs'[i] /\ msgs'[i] < best + 1 /\ MatchesOne(msgs'[i])
                            /\ upTo > 0 => msgs'[i] <= upTo
                            /\ \A j \in 1..(i - 1) : msgs'[j] < msgs'[i]
          OBVIOUS
        <4>3. \A j \in 1..Len(msgs) : /\ ScanFrom <= msgs[j] /\ msgs[j] < cursor
                                      /\ MatchesOne(msgs[j])
                                      /\ upTo > 0 => msgs[j] <= upTo
                                      /\ \A h \in 1..(j - 1) : msgs[h] < msgs[j]
          BY <1>1, <1>2 DEF CollectedInv, Scanning
        <4>1. CASE i = Len(msgs) + 1
          <5>1. msgs'[i] = best /\ 1..(i - 1) = 1..Len(msgs)
            BY <1>2, <2>2, <4>1
          <5>2. \A j \in 1..(i - 1) : msgs'[j] < msgs'[i]
            <6>1. \A j \in 1..Len(msgs) : msgs'[j] = msgs[j] /\ msgs[j] < cursor /\ msgs[j] \in Nat
              BY <2>2, <3>2, <4>3
            <6>2. \A n \in Nat : n < cursor => n < best
              BY <1>2, <2>3
            <6> QED BY <5>1, <6>1, <6>2
          <5> QED BY <1>2, <1>5, <2>3, <3>1, <5>1, <5>2
        <4>2. CASE i \in 1..Len(msgs)
          <5>1. msgs'[i] = msgs[i] /\ \A j \in 1..(i - 1) : j \in 1..Len(msgs) /\ msgs'[j] = msgs[j]
            BY <1>2, <2>2, <4>2
          <5> QED BY <1>2, <2>3, <3>2, <4>2, <4>3, <5>1
        <4> QED BY <1>2, <2>2, <4>1, <4>2
      <3>4. \A s \in steady : ScanFrom <= s /\ s < best + 1 /\ MatchesOne(s) =>
              \E i \in 1..Len(msgs') : msgs'[i] = s
        <4> SUFFICES ASSUME NEW s \in steady, ScanFrom <= s, s < best + 1, MatchesOne(s)
                     PROVE  \E i \in 1..Len(msgs') : msgs'[i] = s
          OBVIOUS
        <4>1. CASE s < cursor
          <5>1. PICK i \in 1..Len(msgs) : msgs[i] = s
            BY <1>1, <1>2, <4>1 DEF CollectedInv, Scanning
          <5> QED BY <1>2, <2>2, <5>1
        <4>2. CASE cursor <= s
          <5>1. s = best
            BY <1>2, <1>3, <4>2, NumberFacts
          <5> QED BY <1>2, <2>2, <5>1
        <4> QED BY <1>2, <4>1, <4>2, NumberFacts
      <3>5. \A s : MatchesOne(s)' <=> MatchesOne(s)
        BY <1>1 DEF MatchesOne, Names, Filters, Matches
      <3>6. ScanFrom <= best + 1 /\ upTo' = upTo /\ cursor' = best + 1
        BY <1>2, <2>1, <2>3, <3>1
      <3> QED BY <1>1, <3>1, <3>3, <3>4, <3>5, <3>6 DEF CollectedInv
    <2>7. CandidatesInv'
      <3>1. \A j \in Filters : cand[j] >= best + 1 => cand[j] >= cursor
        BY <1>1, <1>2, <2>3 DEF BrowseTypeOK, Scanning
      <3>2. \A s \in steady : /\ s < cursor => s < best + 1
                              /\ best + 1 <= s => cursor <= s
        BY <1>2, <2>3, NumberFacts
      <3> QED BY <1>1, <1>2, <2>1, <3>1, <3>2
              DEF CandidatesInv, Fresh, MatchesOne, Names, Filters, Matches
    <2>8. EndInv'
      <3>1. CASE query.by # "backward" /\ Len(msgs') >= query.limit
        BY <1>1, <1>2, <2>1, <2>2, <3>1 DEF EndInv, Full
      <3>2. CASE query.by = "backward" \/ Len(msgs') < query.limit
        BY <1>1, <1>2, <2>1, <2>2, <3>2 DEF EndInv, Full
      <3> QED BY <1>2, <2>2, <3>1, <3>2
    <2>9. BrowseSound'
      BY <1>1, <2>1 DEF BrowseSound, AnswerAsked, NothingSkipped
    <2> QED BY <2>4, <2>5, <2>6, <2>7, <2>8, <2>9 DEF BrowseInv
  <1> QED BY <1>2, <1>4, <1>5

-----------------------------------------------------------------------------
(* The answer, or a wider window. *)

\* A message of those asked for lies in the scan's range, and what the scan takes is asked for.
LEMMA RangeIsAsked ==
  ASSUME BrowseInv, phase = "ended"
  PROVE  /\ \A s \in steady : Asked(s) => /\ MatchesOne(s)
                                          /\ query.by # "backward" => ScanFrom <= s
                                          /\ query.by = "backward" => s <= upTo
         /\ \A i \in 1..Len(msgs) : Asked(msgs[i])
  <1>1. /\ query.by \in {"forward", "backward", "time"} /\ query.start \in Nat /\ BrowseTypeOK
        /\ upTo \in Nat /\ Scanning
    BY QueryFacts DEF BrowseInv, BrowseTypeOK, Scanning
  <1>2. CASE query.by = "forward"
    <2>1. /\ ScanFrom = IF query.start = 0 THEN firstSeq ELSE query.start
          /\ \A s \in steady : firstSeq <= s
      BY <1>1, <1>2 DEF BrowseInv, RangeInv, Scanning, ScanFrom
    <2>2. \A s \in 1..LastSeq : ScanFrom <= s => s >= query.start
      BY <1>1, <2>1 DEF BrowseTypeOK
    <2>3. \A i \in 1..Len(msgs) : msgs[i] \in 1..LastSeq /\ ScanFrom <= msgs[i] /\ MatchesOne(msgs[i])
      BY <1>1, NumberFacts DEF BrowseInv, CollectedInv
    <2> QED BY <1>1, <1>2, <2>1, <2>2, <2>3 DEF Asked, MatchesOne, Names
  <1>3. CASE query.by = "time"
    <2>1. /\ ScanFrom = found /\ found \in 1..LastSeq /\ TimeOf[found] >= query.start
          /\ \A s \in steady : TimeOf[s] >= query.start => found <= s
      BY <1>1, <1>3, BrowseAssumption
         DEF BrowseInv, BrowseTypeOK, RangeInv, SearchInv, Scanning, ScanFrom
    <2>2. \A s \in 1..LastSeq : ScanFrom <= s => TimeOf[s] >= query.start
      BY <1>1, <2>1, NumberFacts
    <2>3. \A i \in 1..Len(msgs) : msgs[i] \in 1..LastSeq /\ ScanFrom <= msgs[i] /\ MatchesOne(msgs[i])
      BY <1>1, NumberFacts DEF BrowseInv, CollectedInv
    <2> QED BY <1>1, <1>3, <2>1, <2>2, <2>3 DEF Asked, MatchesOne, Names
  <1>4. CASE query.by = "backward"
    <2>1. /\ upTo > 0 /\ (query.start # 0 => upTo <= query.start)
          /\ \A s \in steady : query.start = 0 \/ s <= query.start => s <= upTo
      BY <1>1, <1>4 DEF BrowseInv, RangeInv, Scanning
    <2>2. \A i \in 1..Len(msgs) : msgs[i] \in 1..LastSeq /\ msgs[i] <= upTo /\ MatchesOne(msgs[i])
      BY <1>1, <2>1, NumberFacts DEF BrowseInv, CollectedInv
    <2>3. \A s \in 1..LastSeq : s <= upTo => query.start = 0 \/ s <= query.start
      BY <1>1, <2>1
    <2> QED BY <1>1, <1>4, <2>1, <2>2, <2>3 DEF Asked, MatchesOne, Names
  <1> QED BY <1>1, <1>2, <1>3, <1>4

\* t is what msgs has from a place on: size messages after the first skip.
LastFrom(t, skip, size) ==
  /\ skip + size = Len(msgs) /\ t \in Seq(1..LastSeq) /\ Len(t) = size
  /\ \A i \in 1..size : t[i] = msgs[i + skip]
  /\ IF query.by = "backward" /\ Len(msgs) >= query.limit THEN size = query.limit ELSE skip = 0

LEMMA LastOnesFacts ==
  ASSUME BrowseTypeOK
  PROVE  \E skip, size \in Nat : LastFrom(LastOnes, skip, size)
  <1>1. query.limit \in Nat \ {0} /\ Len(msgs) \in Nat /\ msgs \in Seq(1..LastSeq)
    BY QueryFacts, NumberFacts DEF BrowseTypeOK
  <1>2. CASE query.by = "backward" /\ Len(msgs) >= query.limit
    <2>1. PICK skip \in Nat : skip = Len(msgs) - query.limit
      BY <1>1, <1>2
    <2>2. /\ LastOnes = SubSeq(msgs, skip + 1, Len(msgs)) /\ skip + 1 \in Int /\ Len(msgs) \in Int
          /\ skip + 1 <= Len(msgs) /\ Len(msgs) - (skip + 1) + 1 = query.limit
      <3>1. LastOnes = SubSeq(msgs, Len(msgs) - query.limit + 1, Len(msgs))
        BY <1>2 DEF LastOnes
      <3>2. /\ skip + 1 \in Int /\ Len(msgs) \in Int /\ skip + 1 <= Len(msgs)
            /\ Len(msgs) - (skip + 1) + 1 = query.limit
        BY <1>1, <2>1
      <3> QED BY <2>1, <3>1, <3>2
    <2>3. \A i \in (skip + 1)..Len(msgs) : msgs[i] \in 1..LastSeq
      BY <1>1, <2>1, NumberFacts
    <2>4. /\ LastOnes \in Seq(1..LastSeq) /\ Len(LastOnes) = query.limit
          /\ \A i \in 1..query.limit : LastOnes[i] = msgs[(skip + 1) + i - 1]
      BY <2>2, <2>3, SubSeqProperties
    <2>5. \A i \in 1..query.limit : (skip + 1) + i - 1 = i + skip
      BY <1>1, <2>1
    <2>6. LastFrom(LastOnes, skip, query.limit)
      BY <1>1, <1>2, <2>1, <2>4, <2>5 DEF LastFrom
    <2> QED BY <1>1, <2>1, <2>6
  <1>3. CASE ~(query.by = "backward" /\ Len(msgs) >= query.limit)
    <2>1. LastFrom(LastOnes, 0, Len(msgs))
      BY <1>1, <1>3 DEF LastOnes, LastFrom
    <2> QED BY <1>1, <2>1
  <1> QED BY <1>2, <1>3

LEMMA FinishKeeps == BrowseInv /\ Finish => BrowseInv'
  <1> SUFFICES ASSUME BrowseInv, Finish PROVE BrowseInv'
    OBVIOUS
  <1>1. /\ phase = "ended" /\ Answered /\ phase' = "done" /\ msgs' = LastOnes
        /\ UNCHANGED <<inStream, lastSeq, steady, query, firstSeq, lo, hi, found, window,
                       cursor, upTo, cand, exhausted, turn, best>>
    BY DEF Finish
  <1>2. /\ BrowseTypeOK /\ CollectedInv /\ EndInv /\ RangeInv
        /\ query.limit \in Nat \ {0} /\ upTo \in Nat /\ cursor \in Nat \ {0} /\ Len(msgs) \in Nat
        /\ msgs \in Seq(1..LastSeq) /\ ScanFrom \in Nat /\ Scanning
    BY <1>1, QueryFacts, NumberFacts DEF BrowseInv, BrowseTypeOK, Scanning
  <1>3. PICK skip, size \in Nat : LastFrom(msgs', skip, size)
    BY <1>1, <1>2, LastOnesFacts
  <1>4. BrowseTypeOK' /\ SearchInv' /\ RangeInv' /\ CollectedInv' /\ CandidatesInv' /\ EndInv'
    BY <1>1, <1>3 DEF LastFrom, BrowseInv, BrowseTypeOK, SearchInv, RangeInv, CollectedInv,
                      CandidatesInv, EndInv, Scanning
  <1>5. /\ size \in Nat /\ size <= query.limit /\ skip + size = Len(msgs) /\ size = Len(msgs')
        /\ \A i \in 1..size : msgs'[i] = msgs[i + skip]
        /\ query.by # "backward" => skip = 0
        /\ skip > 0 => size = query.limit
        /\ query.by = "backward" /\ size < query.limit => lo = firstSeq /\ skip = 0
    BY <1>1, <1>2, <1>3 DEF EndInv, Answered, LastFrom
  <1>6. /\ \A s \in steady : Asked(s) => /\ MatchesOne(s)
                                         /\ query.by # "backward" => ScanFrom <= s
                                         /\ query.by = "backward" => s <= upTo
        /\ \A i \in 1..Len(msgs) : Asked(msgs[i])
    BY <1>1, RangeIsAsked
  <1>7. /\ \A i \in 1..Len(msgs) : /\ ScanFrom <= msgs[i] /\ msgs[i] < cursor /\ msgs[i] \in Nat
                                    /\ \A j \in 1..(i - 1) : msgs[j] < msgs[i]
        /\ \A s \in steady : ScanFrom <= s /\ s < cursor /\ MatchesOne(s) =>
             \E i \in 1..Len(msgs) : msgs[i] = s
        /\ \A s \in steady : s \in Nat
    BY <1>2, NumberFacts DEF CollectedInv
  <1>8. AnswerAsked'
    <2>1. \A i \in 1..size : Asked(msgs'[i])
      BY <1>5, <1>6
    <2>2. \A i \in 1..size : \A j \in 1..(i - 1) : msgs'[j] < msgs'[i]
      BY <1>2, <1>5, <1>7, SMTT(30)
    <2>3. \A s : Asked(s)' <=> Asked(s)
      BY <1>1 DEF Asked, Filters, Matches
    <2> QED BY <1>1, <1>5, <2>1, <2>2, <2>3 DEF AnswerAsked, Asked, Filters, Matches
  <1>9. NothingSkipped'
    <2> SUFFICES ASSUME NEW s \in steady, Asked(s)
                 PROVE  \/ \E i \in 1..size : msgs'[i] = s
                        \/ /\ size = query.limit
                           /\ IF query.by = "backward" THEN s < msgs'[1] ELSE s > msgs'[size]
      <3>1. \A t : Asked(t)' <=> Asked(t)
        BY <1>1 DEF Asked, Filters, Matches
      <3> QED BY <1>1, <1>5, <3>1 DEF NothingSkipped
    <2>1. MatchesOne(s) /\ s \in Nat
      BY <1>6, <1>7
    <2>2. CASE query.by # "backward"
      <3>1. ScanFrom <= s /\ upTo = 0 /\ skip = 0 /\ size = Len(msgs)
        BY <1>2, <1>5, <1>6, <2>2 DEF RangeInv
      <3>2. CASE s < cursor
        BY <1>5, <1>7, <2>1, <3>1, <3>2
      <3>3. CASE cursor <= s
        <4>1. Len(msgs) = query.limit
          BY <1>1, <1>2, <2>1, <2>2, <3>1, <3>3 DEF EndInv
        <4>2. msgs[Len(msgs)] < s
          BY <1>2, <1>7, <2>1, <3>3, <4>1
        <4> QED BY <1>2, <1>5, <2>2, <3>1, <4>1, <4>2
      <3> QED BY <1>2, <2>1, <3>2, <3>3
    <2>3. CASE query.by = "backward"
      <3>1. s <= upTo /\ ScanFrom = lo /\ lo \in Nat
        BY <1>2, <1>6, <2>3 DEF ScanFrom, BrowseTypeOK
      <3>2. s < cursor
        BY <1>1, <1>2, <2>1, <2>3, <3>1 DEF EndInv
      <3>3. CASE s < lo
        <4>1. size = query.limit
          BY <1>1, <1>2, <1>5, <2>1, <2>3, <3>1, <3>3 DEF RangeInv, BrowseTypeOK
        <4>2. msgs'[1] = msgs[1 + skip] /\ 1 + skip \in 1..Len(msgs)
          BY <1>2, <1>5, <4>1
        <4> QED BY <1>7, <2>1, <2>3, <3>1, <3>3, <4>1, <4>2
      <3>4. CASE lo <= s
        <4>1. PICK i \in 1..Len(msgs) : msgs[i] = s
          BY <1>7, <2>1, <3>1, <3>2, <3>4
        <4>2. CASE i > skip
          <5>1. i - skip \in 1..size /\ (i - skip) + skip = i
            BY <1>2, <1>5, <4>2
          <5> QED BY <1>5, <4>1, <5>1
        <4>3. CASE i <= skip
          <5>1. size = query.limit /\ 1 + skip \in 1..Len(msgs) /\ i \in 1..((1 + skip) - 1)
            BY <1>2, <1>5, <4>3
          <5>2. msgs[i] < msgs[1 + skip] /\ msgs'[1] = msgs[1 + skip]
            BY <1>2, <1>5, <1>7, <5>1
          <5> QED BY <2>3, <4>1, <5>1, <5>2
        <4> QED BY <1>2, <1>5, <4>2, <4>3
      <3> QED BY <2>1, <3>1, <3>3, <3>4
    <2> QED BY <2>2, <2>3
  <1> QED BY <1>4, <1>8, <1>9 DEF BrowseInv, BrowseSound

LEMMA WidenKeeps == BrowseInv /\ Widen => BrowseInv'
  <1> SUFFICES ASSUME BrowseInv, Widen PROVE BrowseInv'
    OBVIOUS
  <1>1. /\ phase = "ended" /\ ~Answered
        /\ window' = 2 * window /\ lo' = WindowStart(upTo, window', firstSeq)
        /\ StartScan(lo', upTo) /\ phase' = "scan" /\ upTo' = upTo
        /\ UNCHANGED <<inStream, lastSeq, steady, query, firstSeq, hi, found>>
    BY DEF Widen, StartScan
  <1>2. /\ query.by = "backward" /\ BrowseTypeOK /\ SearchInv /\ RangeInv
        /\ upTo \in Nat /\ firstSeq \in Nat \ {0} /\ window' \in Nat
    BY <1>1 DEF BrowseInv, BrowseTypeOK, Answered
  <1>3. lo' \in Nat \ {0} /\ firstSeq <= lo' /\ ScanFrom' = lo'
    BY <1>1, <1>2, WindowFacts DEF ScanFrom
  <1>4. RangeInv'
    BY <1>1, <1>2, <1>3 DEF RangeInv, Scanning
  <1> QED BY <1>1, <1>2, <1>3, <1>4, ScanStarts

LEMMA FailKeeps == BrowseInv /\ ReadFails => BrowseInv'
  <1> SUFFICES ASSUME BrowseInv, ReadFails PROVE BrowseInv'
    OBVIOUS
  <1>1. /\ phase \in {"info", "search", "scan"} /\ phase' = "failed"
        /\ UNCHANGED <<inStream, lastSeq, steady, query, firstSeq, lo, hi, found, window, scanVars>>
    BY DEF ReadFails
  <1>2. RangeInv'
    <2>1. phase = "info" => \A s \in steady : 1 <= s
      BY NumberFacts DEF BrowseInv
    <2>2. phase = "info" => firstSeq = 1
      BY DEF BrowseInv, RangeInv
    <2> QED BY <1>1, <2>1, <2>2 DEF BrowseInv, RangeInv, Scanning
  <1> QED BY <1>1, <1>2
          DEF BrowseInv, BrowseTypeOK, SearchInv, CollectedInv, CandidatesInv, EndInv, BrowseSound,
              AnswerAsked, NothingSkipped, Scanning, scanVars

-----------------------------------------------------------------------------
LEMMA BrowseStep == BrowseInv /\ [BrowseNext]_browseVars => BrowseInv'
  <1> SUFFICES ASSUME BrowseInv, [BrowseNext]_browseVars PROVE BrowseInv'
    OBVIOUS
  <1>1. CASE UNCHANGED browseVars
    <2>1. BrowseTypeOK'
      BY <1>1 DEF BrowseInv, BrowseTypeOK, browseVars, scanVars, Scanning, Filters
    <2> QED BY <1>1, <2>1, StreamChanges DEF browseVars
  <1>2. CASE BrowseNext
    BY <1>2, GrowKeeps, DeleteKeeps, ReadInfoKeeps, SearchKeeps, SearchEndsKeeps, ConsiderKeeps,
       TakeKeeps, FinishKeeps, WidenKeeps, FailKeeps DEF BrowseNext, ServePageRequest
  <1> QED BY <1>1, <1>2

\* Whatever the stream gains and loses while a page is read, the page has only what was
\* asked for, in order and within the limit, and of the messages that stayed in the stream
\* it misses only those beyond as many as were asked for (streams.go:191-428).
THEOREM PageSkipsNothing == BrowseSpec => []BrowseSound
  <1>1. BrowseInv => BrowseSound
    BY DEF BrowseInv
  <1> QED BY BrowseStarts, BrowseStep, <1>1, PTL DEF BrowseSpec

-----------------------------------------------------------------------------
(* The history of a live card. *)

HistoryRow == [kind: {"msg", "mark"}, n: 0..MaxArrivals, subjects: SUBSET Subjects]
IsMark(h, i) == i \in 1..Len(h) /\ h[i].kind = "mark"

\* The last marker of a history, if it has one, tells of a set of subjects.
Tells(h, set) ==
  \A i \in 1..Len(h) : IsMark(h, i) /\ (\A j \in 1..Len(h) : IsMark(h, j) => j <= i) =>
    h[i].subjects = set

\* Some marker is the last one, unless there is none.
HasLastMark(h) ==
  \A i \in 1..Len(h) : IsMark(h, i) =>
    \E k \in 1..Len(h) : IsMark(h, k) /\ \A j \in 1..Len(h) : IsMark(h, j) => j <= k

LiveInv == /\ history \in Seq(HistoryRow) /\ LiveTypeOK /\ HistoryBounded /\ PauseQuiet
           /\ HasLastMark(history) /\ (up => Tells(history, feed))

-----------------------------------------------------------------------------
(* The history. *)

LEMMA AddMark ==
  ASSUME NEW h \in Seq(HistoryRow), NEW set \in SUBSET Subjects
  PROVE  /\ Append(h, Mark(set)) \in Seq(HistoryRow) /\ Len(Append(h, Mark(set))) = Len(h) + 1
         /\ HasLastMark(Append(h, Mark(set))) /\ Tells(Append(h, Mark(set)), set)
  <1> DEFINE g == Append(h, Mark(set))
  <1>1. Mark(set) \in HistoryRow
    BY LiveAssumption DEF Mark, HistoryRow
  <1>2. g \in Seq(HistoryRow) /\ Len(g) = Len(h) + 1 /\ g[Len(h) + 1] = Mark(set) /\ Len(h) \in Nat
    BY <1>1, AppendProperties
  <1>3. IsMark(g, Len(h) + 1) /\ g[Len(h) + 1].subjects = set
    BY <1>2 DEF IsMark, Mark
  <1>4. HasLastMark(g)
    BY <1>2, <1>3 DEF HasLastMark
  <1>5. Tells(g, set)
    BY <1>2, <1>3 DEF Tells
  <1> QED BY <1>2, <1>4, <1>5

LEMMA AddMessage ==
  ASSUME NEW h \in Seq(HistoryRow), NEW n \in 0..MaxArrivals, NEW s \in Subjects, NEW set, HasLastMark(h)
  PROVE  /\ Append(h, Msg(n, s)) \in Seq(HistoryRow) /\ Len(Append(h, Msg(n, s))) = Len(h) + 1
         /\ HasLastMark(Append(h, Msg(n, s)))
         /\ Tells(h, set) => Tells(Append(h, Msg(n, s)), set)
  <1> DEFINE g == Append(h, Msg(n, s))
  <1>1. Msg(n, s) \in HistoryRow
    BY DEF Msg, HistoryRow
  <1>2. /\ g \in Seq(HistoryRow) /\ Len(g) = Len(h) + 1 /\ g[Len(h) + 1] = Msg(n, s) /\ Len(h) \in Nat
        /\ \A i \in 1..Len(h) : g[i] = h[i]
    BY <1>1, AppendProperties
  <1>3. \A i \in 1..Len(g) : IsMark(g, i) <=> i \in 1..Len(h) /\ IsMark(h, i)
    BY <1>2 DEF IsMark, Msg
  <1> HIDE DEF g
  <1>4. HasLastMark(g)
    BY <1>2, <1>3 DEF HasLastMark
  <1>5. Tells(h, set) => Tells(g, set)
    BY <1>2, <1>3 DEF Tells
  <1> QED BY <1>2, <1>4, <1>5 DEF g

\* The history that is trimmed keeps its last rows.
LEMMA KeptFacts ==
  ASSUME NEW h \in Seq(HistoryRow), NEW set, HasLastMark(h)
  PROVE  /\ Kept(h) \in Seq(HistoryRow) /\ HasLastMark(Kept(h))
         /\ Tells(h, set) => Tells(Kept(h), set)
         /\ Len(Kept(h)) <= MaxHistory \/ Len(Kept(h)) < Len(h)
  <1>1. Len(h) \in Nat /\ MaxHistory \in Nat /\ Trim \in Nat \ {0}
    BY LiveAssumption
  <1>2. CASE Len(h) <= MaxHistory
    BY <1>1, <1>2 DEF Kept
  <1>3. CASE Len(h) > MaxHistory
    <2> DEFINE g == SubSeq(h, Trim + 1, Len(h))
    <2>1. Kept(h) = g
      BY <1>1, <1>3 DEF Kept
    <2>2. \A i \in (Trim + 1)..Len(h) : h[i] \in HistoryRow
      BY <1>1, ElementOfSeq
    <2>3. /\ g \in Seq(HistoryRow)
          /\ Len(g) = IF Trim + 1 <= Len(h) THEN Len(h) - (Trim + 1) + 1 ELSE 0
          /\ \A i \in 1..(Len(h) - (Trim + 1) + 1) : g[i] = h[(Trim + 1) + i - 1]
      BY <1>1, <2>2, SubSeqProperties
    <2> HIDE DEF g
    <2>4. /\ Len(g) \in Nat /\ Len(g) < Len(h)
          /\ \A i \in 1..Len(g) : i + Trim \in 1..Len(h) /\ g[i] = h[i + Trim]
          /\ \A i \in 1..Len(h) : i > Trim => i - Trim \in 1..Len(g) /\ g[i - Trim] = h[i]
      <3>1. CASE Trim + 1 <= Len(h)
        <4>1. Len(g) = Len(h) - Trim
          BY <1>1, <2>3, <3>1
        <4>2. \A i \in 1..(Len(h) - Trim) : g[i] = h[i + Trim]
          <5>1. Len(h) - (Trim + 1) + 1 = Len(h) - Trim
            BY <1>1
          <5>2. \A i \in 1..(Len(h) - Trim) : (Trim + 1) + i - 1 = i + Trim
            BY <1>1
          <5> QED BY <2>3, <5>1, <5>2
        <4>3. \A i \in 1..Len(h) : i > Trim => i - Trim \in 1..(Len(h) - Trim) /\ (i - Trim) + Trim = i
          BY <1>1
        <4> QED BY <1>1, <3>1, <4>1, <4>2, <4>3
      <3>2. CASE Trim + 1 > Len(h)
        BY <1>1, <1>3, <2>3, <3>2
      <3> QED BY <1>1, <3>1, <3>2
    <2>5. /\ \A i \in 1..Len(g) : IsMark(g, i) <=> IsMark(h, i + Trim)
          /\ \A i \in 1..Len(h) : IsMark(h, i) /\ i > Trim => IsMark(g, i - Trim)
      BY <2>4 DEF IsMark
    \* What is the last marker of one is the last of the other.
    <2>6. \A i \in 1..Len(g) : \A k \in 1..Len(h) :
            /\ IsMark(h, k) /\ (\A j \in 1..Len(h) : IsMark(h, j) => j <= k)
            /\ IsMark(g, i)
            => k > Trim /\ \A j \in 1..Len(g) : IsMark(g, j) => j <= k - Trim
      BY <1>1, <2>4, <2>5
    <2>7. HasLastMark(g)
      <3> SUFFICES ASSUME NEW i \in 1..Len(g), IsMark(g, i)
                   PROVE  \E k \in 1..Len(g) : /\ IsMark(g, k)
                                               /\ \A j \in 1..Len(g) : IsMark(g, j) => j <= k
        BY DEF HasLastMark
      <3>1. i + Trim \in 1..Len(h) /\ IsMark(h, i + Trim)
        BY <2>4, <2>5
      <3>2. PICK k \in 1..Len(h) : IsMark(h, k) /\ \A j \in 1..Len(h) : IsMark(h, j) => j <= k
        BY <3>1 DEF HasLastMark
      <3>3. k > Trim /\ \A j \in 1..Len(g) : IsMark(g, j) => j <= k - Trim
        BY <2>6, <3>2
      <3> QED BY <2>4, <2>5, <3>2, <3>3
    <2>8. Tells(h, set) => Tells(g, set)
      <3> SUFFICES ASSUME Tells(h, set), NEW i \in 1..Len(g), IsMark(g, i),
                          \A j \in 1..Len(g) : IsMark(g, j) => j <= i
                   PROVE  g[i].subjects = set
        BY DEF Tells
      <3>1. i + Trim \in 1..Len(h) /\ IsMark(h, i + Trim) /\ g[i] = h[i + Trim]
        BY <2>4, <2>5
      <3>2. \A j \in 1..Len(h) : IsMark(h, j) => j <= i + Trim
        BY <1>1, <2>4, <2>5
      <3> QED BY <3>1, <3>2 DEF Tells
    <2> QED BY <2>1, <2>3, <2>4, <2>7, <2>8
  <1> QED BY <1>1, <1>2, <1>3

-----------------------------------------------------------------------------
(* The handlers of the live card. *)

\* The history's typing, from its sequence.
LEMMA RowsTyped ==
  ASSUME NEW h \in Seq(HistoryRow)
  PROVE  \A i \in DOMAIN h : h[i] \in [kind: {"msg", "mark"}, n: 0..MaxArrivals, subjects: SUBSET Subjects]
  <1>1. DOMAIN h = 1..Len(h)
    BY LenProperties
  <1>2. \A i \in 1..Len(h) : h[i] \in HistoryRow
    BY ElementOfSeq
  <1> QED BY <1>1, <1>2 DEF HistoryRow

LEMMA LiveStarts == LiveInit => LiveInv
  <1> SUFFICES ASSUME LiveInit PROVE LiveInv
    OBVIOUS
  <1>1. history = <<>> /\ history \in Seq(HistoryRow) /\ Len(history) = 0
    BY DEF LiveInit
  <1>2. LiveTypeOK
    <2>1. subs \in [Subjects -> States] /\ fetching \in Answers
      BY DEF LiveInit, NoSubs, States, Answers
    <2>2. dialog \in [open: BOOLEAN, draft: [Subjects -> States], shared: SUBSET Subjects, same: BOOLEAN]
      BY DEF LiveInit, NoSubs, Closed, States
    <2>3. arrived \in 0..MaxArrivals /\ marked \in 0..MaxMarks
      BY LiveAssumption DEF LiveInit
    <2>4. linked \in [kind: {"none", "send"}, msg: {NoMsg}, last: {FALSE}]
      BY DEF LiveInit, NoLinked
    <2> QED BY <1>1, <2>1, <2>2, <2>3, <2>4, RowsTyped DEF LiveInit, LiveTypeOK
  <1>3. HistoryBounded /\ PauseQuiet
    BY <1>1, LiveAssumption DEF LiveInit, HistoryBounded, PauseQuiet
  <1>4. HasLastMark(history) /\ Tells(history, feed)
    BY <1>1 DEF HasLastMark, Tells
  <1> QED BY <1>1, <1>2, <1>3, <1>4 DEF LiveInv

\* What neither the hub nor the history takes part in.
LEMMA ApartKeeps ==
  ASSUME LiveInv, LiveTypeOK', UNCHANGED <<histVars, hubVars>>
  PROVE  LiveInv'
  BY DEF LiveInv, histVars, hubVars, HistoryBounded, PauseQuiet

\* A request to the hub, with the marker that tells of it.
LEMMA SendKeeps ==
  ASSUME LiveInv, NEW wanted \in [Subjects -> States], NEW on \in BOOLEAN,
         SendSubscriptions(wanted, on), up' = on, arrived' = arrived, paused' \in BOOLEAN,
         history' \in Seq(HistoryRow) /\ feed' \in SUBSET Subjects /\ marked' \in 0..MaxMarks => LiveTypeOK'
  PROVE  LiveInv'
  <1> DEFINE set == WsSubjects(wanted)
  <1>1. /\ feed' = IF on THEN set ELSE feed
        /\ marked < MaxMarks /\ marked' = marked + 1
        /\ history' = Append(history, Mark(set))
    BY DEF SendSubscriptions
  <1>2. set \in SUBSET Subjects /\ (paused' => set = {})
    BY DEF WsSubjects, Enabled
  <1> HIDE DEF set
  <1>3. /\ history' \in Seq(HistoryRow) /\ Len(history') = Len(history) + 1 /\ Len(history) \in Nat
        /\ HasLastMark(history') /\ Tells(history', set)
    BY <1>1, <1>2, AddMark DEF LiveInv
  <1>4. /\ marked \in Nat /\ marked' \in 0..MaxMarks /\ MaxHistory \in Nat
        /\ feed' \in SUBSET Subjects
    BY <1>1, <1>2, LiveAssumption DEF LiveInv, LiveTypeOK
  <1>5. HistoryBounded'
    BY <1>1, <1>3, <1>4 DEF LiveInv, HistoryBounded
  <1>6. PauseQuiet'
    BY <1>1, <1>2 DEF PauseQuiet
  <1>7. up' => Tells(history', feed')
    BY <1>1, <1>3
  <1> QED BY <1>3, <1>4, <1>5, <1>6, <1>7 DEF LiveInv

LEMMA ConnectKeeps == LiveInv /\ Connect => LiveInv'
  <1> SUFFICES ASSUME LiveInv, Connect PROVE LiveInv'
    OBVIOUS
  <1>1. /\ up' = TRUE /\ paused' = paused /\ SendSubscriptions(subs, TRUE)
        /\ UNCHANGED <<viewVars, listVars, dialog, noSys, arrived, stats>>
    BY DEF Connect
  <1>2. subs \in [Subjects -> States] /\ paused' \in BOOLEAN
    BY <1>1 DEF LiveInv, LiveTypeOK
  <1>3. history' \in Seq(HistoryRow) /\ feed' \in SUBSET Subjects /\ marked' \in 0..MaxMarks => LiveTypeOK'
    BY <1>1, <1>2, RowsTyped DEF LiveInv, LiveTypeOK, viewVars, listVars
  <1> QED BY <1>1, <1>2, <1>3, SendKeeps

LEMMA SetPauseKeeps == LiveInv /\ SetPause => LiveInv'
  <1> SUFFICES ASSUME LiveInv, SetPause PROVE LiveInv'
    OBVIOUS
  <1>1. /\ up' = up /\ paused' = ~paused /\ SendSubscriptions(subs, up)
        /\ UNCHANGED <<viewVars, listVars, dialog, noSys, arrived, stats>>
    BY DEF SetPause
  <1>2. subs \in [Subjects -> States] /\ up \in BOOLEAN
    BY <1>1 DEF LiveInv, LiveTypeOK
  <1>3. paused' \in BOOLEAN
    BY <1>1
  <1>4. history' \in Seq(HistoryRow) /\ feed' \in SUBSET Subjects /\ marked' \in 0..MaxMarks => LiveTypeOK'
    BY <1>1, <1>2, <1>3, RowsTyped DEF LiveInv, LiveTypeOK, viewVars, listVars
  <1> QED BY <1>1, <1>2, <1>3, <1>4, SendKeeps

LEMMA OpenTyped ==
  ASSUME NEW wanted \in [Subjects -> States], NEW set \in BOOLEAN
  PROVE  OpenDialog(wanted, set) \in [open: BOOLEAN, draft: [Subjects -> States],
                                    shared: SUBSET Subjects, same: BOOLEAN]
  BY DEF OpenDialog

LEMMA ClosedTyped == Closed \in [open: BOOLEAN, draft: [Subjects -> States],
                                 shared: SUBSET Subjects, same: BOOLEAN]
  BY DEF Closed, NoSubs, States

LEMMA OkKeeps == LiveInv /\ Ok => LiveInv'
  <1> SUFFICES ASSUME LiveInv, Ok PROVE LiveInv'
    OBVIOUS
  <1> DEFINE wanted == dialog.draft
  <1>1. /\ subs' = wanted /\ isSet' = TRUE
        /\ dialog' = IF AutoOpens(wanted) /\ ~dialog.same THEN OpenDialog(wanted, TRUE) ELSE Closed
        /\ paused' = paused /\ SendSubscriptions(wanted, up)
        /\ UNCHANGED <<viewVars, fetching, noSys, up, arrived, stats>>
    BY DEF Ok
  <1>2. wanted \in [Subjects -> States] /\ up \in BOOLEAN /\ paused' \in BOOLEAN
    BY <1>1 DEF LiveInv, LiveTypeOK
  <1>3. dialog' \in [open: BOOLEAN, draft: [Subjects -> States], shared: SUBSET Subjects, same: BOOLEAN]
    BY <1>1, <1>2, OpenTyped, ClosedTyped
  <1> HIDE DEF wanted
  <1>4. history' \in Seq(HistoryRow) /\ feed' \in SUBSET Subjects /\ marked' \in 0..MaxMarks => LiveTypeOK'
    BY <1>1, <1>2, <1>3, RowsTyped DEF LiveInv, LiveTypeOK, viewVars
  <1> QED BY <1>1, <1>2, <1>4, SendKeeps

LEMMA DisconnectKeeps == LiveInv /\ Disconnect => LiveInv'
  <1> SUFFICES ASSUME LiveInv, Disconnect PROVE LiveInv'
    OBVIOUS
  <1>1. /\ up' = FALSE /\ feed' = {}
        /\ UNCHANGED <<viewVars, histVars, listVars, dialog, paused, noSys, stats>>
    BY DEF Disconnect
  <1>2. LiveTypeOK'
    BY <1>1 DEF LiveInv, LiveTypeOK, viewVars, histVars, listVars
  <1> QED BY <1>1, <1>2 DEF LiveInv, HistoryBounded, PauseQuiet, histVars

LEMMA ReceiveKeeps == \A s \in Subjects : LiveInv /\ Receive(s) => LiveInv'
  <1> SUFFICES ASSUME NEW s \in Subjects, LiveInv, Receive(s) PROVE LiveInv'
    OBVIOUS
  <1>1. /\ arrived < MaxArrivals /\ arrived' = arrived + 1
        /\ UNCHANGED <<hubVars, listVars, dialog, noSys, marked>>
    BY DEF Receive
  <1>2. arrived' \in 1..MaxArrivals /\ arrived' \in 0..MaxArrivals /\ MaxHistory \in Nat /\ marked \in Nat
    BY <1>1, LiveAssumption DEF LiveInv, LiveTypeOK
  <1>3. CASE noSys /\ s \in SysSubjects
    <2>1. UNCHANGED <<history, stats, linked, busy>>
      BY <1>3 DEF Receive
    <2>2. LiveTypeOK'
      BY <1>1, <1>2, <2>1 DEF LiveInv, LiveTypeOK, hubVars, listVars
    <2> QED BY <1>1, <2>1, <2>2 DEF LiveInv, HistoryBounded, PauseQuiet, hubVars
  <1>4. CASE ~(noSys /\ s \in SysSubjects)
    <2>1. /\ history' = Append(Kept(history), Msg(arrived + 1, s))
          /\ stats' = stats \cup {s}
          /\ linked' = IF FollowsLast /\ ~busy THEN [linked EXCEPT !.msg = arrived + 1] ELSE linked
          /\ busy' = (busy \/ FollowsLast)
      BY <1>4 DEF Receive
    <2>2. /\ Kept(history) \in Seq(HistoryRow) /\ HasLastMark(Kept(history))
          /\ Tells(history, feed) => Tells(Kept(history), feed)
          /\ Len(Kept(history)) <= MaxHistory \/ Len(Kept(history)) < Len(history)
          /\ Len(history) \in Nat /\ Len(Kept(history)) \in Nat
      BY KeptFacts DEF LiveInv
    <2>3. arrived + 1 \in 0..MaxArrivals
      BY <1>1, <1>2
    <2>4. /\ history' \in Seq(HistoryRow) /\ Len(history') = Len(Kept(history)) + 1
          /\ HasLastMark(history')
          /\ Tells(Kept(history), feed) => Tells(history', feed)
      BY <2>1, <2>2, <2>3, AddMessage
    <2>5. linked' \in [kind: {"none", "send"}, msg: {NoMsg}, last: {FALSE}]
            \/ linked' \in [kind: {"detail"}, msg: 1..MaxArrivals, last: BOOLEAN]
      BY <1>1, <1>2, <2>1 DEF LiveInv, LiveTypeOK, FollowsLast
    <2>6. busy' \in BOOLEAN
      BY <2>1 DEF LiveInv, LiveTypeOK, FollowsLast
    <2>7. LiveTypeOK'
      BY <1>1, <1>2, <2>1, <2>4, <2>5, <2>6, RowsTyped DEF LiveInv, LiveTypeOK, hubVars, listVars
    <2>8. HistoryBounded'
      BY <1>1, <1>2, <2>2, <2>4 DEF LiveInv, HistoryBounded
    <2>9. PauseQuiet' /\ (up' => Tells(history', feed'))
      BY <1>1, <2>2, <2>4 DEF LiveInv, PauseQuiet, hubVars
    <2> QED BY <2>4, <2>7, <2>8, <2>9 DEF LiveInv
  <1> QED BY <1>3, <1>4

LEMMA ClearKeeps == LiveInv /\ Clear => LiveInv'
  <1> SUFFICES ASSUME LiveInv, Clear PROVE LiveInv'
    OBVIOUS
  <1>1. /\ history' = <<>> /\ history' \in Seq(HistoryRow) /\ Len(history') = 0
        /\ UNCHANGED <<viewVars, hubVars, listVars, dialog, noSys, arrived, marked, stats>>
    BY DEF Clear
  <1>2. LiveTypeOK'
    BY <1>1, RowsTyped DEF LiveInv, LiveTypeOK, viewVars, hubVars, listVars
  <1>3. HistoryBounded' /\ PauseQuiet'
    BY <1>1, LiveAssumption DEF LiveInv, LiveTypeOK, HistoryBounded, PauseQuiet, hubVars
  <1>4. HasLastMark(history') /\ Tells(history', feed')
    BY <1>1 DEF HasLastMark, Tells
  <1> QED BY <1>1, <1>2, <1>3, <1>4 DEF LiveInv

\* The favourites, the dialog, the linked card and the search box.
LEMMA EditsKeep ==
  ASSUME LiveInv,
         \/ FetchStart \/ FetchEnd \/ ClickSubs \/ CancelSubs \/ ClearStats \/ ToggleNoSys
         \/ ThrottleTimer \/ ToggleLast \/ ClickSend
         \/ \E s \in Subjects : StatsSelect(s) \/ \E st \in States : EditRow(s, st)
         \/ \E st \in States \ {"absent"} : AllDisable(st)
         \/ \E n \in 1..MaxArrivals : ClickMessage(n)
  PROVE  LiveInv'
  <1> DEFINE D == [open: BOOLEAN, draft: [Subjects -> States], shared: SUBSET Subjects, same: BOOLEAN]
             K == [kind: {"none", "send"}, msg: {NoMsg}, last: {FALSE}]
                    \cup [kind: {"detail"}, msg: 1..MaxArrivals, last: BOOLEAN]
  <1>1. /\ subs \in [Subjects -> States] /\ isSet \in BOOLEAN /\ fetching \in Answers /\ dialog \in D
        /\ noSys \in BOOLEAN /\ busy \in BOOLEAN /\ stats \in SUBSET Subjects /\ linked \in K
    BY DEF LiveInv, LiveTypeOK
  <1>2. Closed \in D /\ NoLinked \in K /\ [NoLinked EXCEPT !.kind = "send"] \in K
    BY ClosedTyped DEF NoLinked, NoMsg
  <1> DEFINE Apart == /\ subs' \in [Subjects -> States] /\ isSet' \in BOOLEAN /\ fetching' \in Answers
                      /\ dialog' \in D /\ noSys' \in BOOLEAN /\ busy' \in BOOLEAN
                      /\ stats' \in SUBSET Subjects /\ linked' \in K
                      /\ UNCHANGED <<histVars, hubVars>>
  <1>3. Apart
    <2>1. CASE FetchStart
      BY <1>1, <2>1 DEF FetchStart, Answers, viewVars
    <2>2. CASE FetchEnd
      <3> DEFINE wanted == [s \in Subjects |-> IF s \in UNION fetching THEN "disabled" ELSE "absent"]
      <3>1. wanted \in [Subjects -> States] /\ OpenDialog(wanted, TRUE) \in D
        BY OpenTyped DEF States
      <3>2. [dialog EXCEPT !.shared = {}, !.same = FALSE] \in D
        BY <1>1
      <3>3. /\ fetching' = NoAnswer /\ isSet' = TRUE /\ subs' = wanted
            /\ dialog' = IF AutoOpens(wanted) /\ ~dialog.open THEN OpenDialog(wanted, TRUE)
                         ELSE [dialog EXCEPT !.shared = {}, !.same = FALSE]
            /\ UNCHANGED <<viewVars, histVars, hubVars, noSys, stats>>
        BY <2>2 DEF FetchEnd
      <3> HIDE DEF wanted, D, K
      <3>4. dialog' \in D
        BY <3>1, <3>2, <3>3
      <3> QED BY <1>1, <3>1, <3>3, <3>4 DEF Answers, viewVars
    <2>3. CASE ClickSubs \/ CancelSubs
      <3>1. OpenDialog(subs, isSet) \in D
        BY <1>1, OpenTyped
      <3> HIDE DEF D, K
      <3> QED BY <1>1, <1>2, <2>3, <3>1 DEF ClickSubs, CancelSubs, listVars, viewVars
    <2>4. CASE ClearStats \/ ToggleNoSys
      BY <1>1, <2>4 DEF ClearStats, ToggleNoSys, listVars, viewVars
    <2>5. CASE ThrottleTimer
      BY <1>1, <2>5 DEF ThrottleTimer, listVars
    <2>6. CASE ToggleLast
      <3>1. linked' \in K
        BY <1>1, <2>6 DEF ToggleLast
      <3> HIDE DEF D, K
      <3> QED BY <1>1, <2>6, <3>1 DEF ToggleLast, listVars
    <2>7. CASE ClickSend
      <3> HIDE DEF D, K
      <3> QED BY <1>1, <1>2, <2>7 DEF ClickSend, listVars
    <2>8. ASSUME NEW s \in Subjects, StatsSelect(s)
          PROVE  Apart
      <3>1. dialog' \in D
        BY <1>1, <2>8 DEF StatsSelect, States
      <3>2. subs' \in [Subjects -> States]
        BY <1>1, <2>8 DEF StatsSelect, States
      <3> HIDE DEF D, K
      <3> QED BY <1>1, <2>8, <3>1, <3>2 DEF StatsSelect, viewVars
    <2>9. ASSUME NEW s \in Subjects, NEW st \in States, EditRow(s, st)
          PROVE  Apart
      <3>1. dialog' \in D
        BY <1>1, <2>9 DEF EditRow
      <3> HIDE DEF D, K
      <3> QED BY <1>1, <2>9, <3>1 DEF EditRow, viewVars, listVars
    <2>10. ASSUME NEW st \in States, AllDisable(st)
           PROVE  Apart
      <3>1. \A wanted \in [Subjects -> States] : \A which :
              ToggleAll(wanted, which, st) \in [Subjects -> States]
        BY DEF ToggleAll
      <3>2. dialog' \in D
        BY <1>1, <2>10, <3>1 DEF AllDisable
      <3>3. subs' \in [Subjects -> States]
        BY <1>1, <2>10, <3>1 DEF AllDisable
      <3> HIDE DEF D, K
      <3> QED BY <1>1, <2>10, <3>2, <3>3 DEF AllDisable, viewVars
    <2>11. ASSUME NEW n \in 1..MaxArrivals, ClickMessage(n)
           PROVE  Apart
      <3>1. linked' \in K
        BY <1>2, <2>11 DEF ClickMessage
      <3> HIDE DEF D, K
      <3> QED BY <1>1, <2>11, <3>1 DEF ClickMessage, listVars
    <2> HIDE DEF Apart
    <2> QED BY <2>1, <2>2, <2>3, <2>4, <2>5, <2>6, <2>7, <2>8, <2>9, <2>10, <2>11
  <1>4. LiveTypeOK'
    <2>1. UNCHANGED <<histVars, hubVars>>
      BY <1>3
    <2> QED BY <1>3, <2>1 DEF LiveInv, LiveTypeOK, histVars, hubVars
  <1>5. UNCHANGED <<histVars, hubVars>>
    BY <1>3
  <1> QED BY <1>4, <1>5, ApartKeeps

LEMMA LiveStep == LiveInv /\ [LiveNext]_liveVars => LiveInv'
  <1> SUFFICES ASSUME LiveInv, [LiveNext]_liveVars PROVE LiveInv'
    OBVIOUS
  <1>1. CASE UNCHANGED liveVars
    <2>1. LiveTypeOK' /\ UNCHANGED <<histVars, hubVars>>
      BY <1>1 DEF LiveInv, LiveTypeOK, liveVars, listVars, hubVars, histVars, viewVars
    <2> QED BY <2>1, ApartKeeps
  <1>2. CASE LiveNext
    BY <1>2, ConnectKeeps, DisconnectKeeps, SetPauseKeeps, OkKeeps, ReceiveKeeps, ClearKeeps,
       EditsKeep
       DEF LiveNext, DialogNext
  <1> QED BY <1>1, <1>2

\* Through reconnections, pauses, edits of the list and the trimming of the history, the
\* last marker on a live card tells what the hub streams to it, a paused card is streamed
\* nothing, and its history stays within its limit (messages/index.ts:102-196).
THEOREM CardAndHubAgree == LiveSpec => []LiveCardSound
  <1>1. LiveInv => LiveCardSound
    <2> SUFFICES ASSUME LiveInv PROVE LiveCardSound
      OBVIOUS
    <2> DEFINE marks == {i \in DOMAIN history : history[i].kind = "mark"}
    <2>1. DOMAIN history = 1..Len(history)
      BY LenProperties DEF LiveInv
    <2>2. \A i : i \in marks <=> i \in 1..Len(history) /\ IsMark(history, i)
      BY <2>1 DEF IsMark
    <2>3. up /\ marks # {} => \E i \in marks : /\ \A j \in marks : j <= i
                                               /\ feed = history[i].subjects
      BY <2>2 DEF LiveInv, HasLastMark, Tells
    <2> QED BY <2>3 DEF LiveInv, LiveCardSound, MarkerHonest
  <1> QED BY LiveStarts, LiveStep, <1>1, PTL DEF LiveSpec

-----------------------------------------------------------------------------
(* Sets of numbers, and the sequences that list them in ascending order. *)

Climbing(rows) == \A i, j \in 1..Len(rows) : i < j => rows[i] < rows[j]
Lists(rows, S) == /\ rows \in Seq(S) /\ Climbing(rows)
                  /\ \A s \in S : \E i \in 1..Len(rows) : rows[i] = s

\* Some sequence lists a set in ascending order.
Listed(X) == \E rows \in [1..Cardinality(X) -> X] :
               \A i, j \in 1..Cardinality(X) : i < j => rows[i] < rows[j]

LEMMA OneMoreListed ==
  ASSUME NEW m \in Nat, NEW X \in SUBSET (1..m), m \in X, Listed(X \ {m})
  PROVE  Listed(X)
  <1> DEFINE Y == X \ {m}
             c == Cardinality(Y)
  <1>1. IsFiniteSet(X) /\ Cardinality(X) \in Nat /\ \A x \in X : x \in Nat /\ x <= m
    BY NumbersAreFinite
  <1>2. IsFiniteSet(Y) /\ c = Cardinality(X) - 1
    BY <1>1, FS_RemoveElement
  <1>3. c \in Nat
    BY <1>2, FS_CardinalityType
  <1>4. Cardinality(X) = c + 1
    BY <1>1, <1>2
  <1>5. PICK f \in [1..c -> Y] : \A i, j \in 1..c : i < j => f[i] < f[j]
    BY DEF Listed
  <1> HIDE DEF c
  <1>6. \A y \in Y : y \in X /\ y < m
    BY <1>1
  <1> HIDE DEF Y
  <1>7. \A i \in 1..c : f[i] \in X /\ f[i] < m
    BY <1>5, <1>6
  <1> DEFINE g == [i \in 1..(c + 1) |-> IF i = c + 1 THEN m ELSE f[i]]
  <1>8. g[c + 1] = m /\ \A i \in 1..c : g[i] = f[i]
    BY <1>3
  <1>9. g \in [1..(c + 1) -> X]
    BY <1>3, <1>7
  <1> HIDE DEF g
  <1>10. \A i, j \in 1..(c + 1) : i < j => g[i] < g[j]
    <2> SUFFICES ASSUME NEW i \in 1..(c + 1), NEW j \in 1..(c + 1), i < j PROVE g[i] < g[j]
      OBVIOUS
    <2>1. i \in 1..c /\ g[i] = f[i] /\ f[i] < m
      BY <1>3, <1>7, <1>8
    <2>2. CASE j = c + 1
      BY <1>8, <2>1, <2>2
    <2>3. CASE j # c + 1
      BY <1>3, <1>5, <1>8, <2>1, <2>3
    <2> QED BY <2>2, <2>3
  <1> QED BY <1>4, <1>9, <1>10 DEF Listed

LEMMA EmptyListed == Listed({})
  <1>1. Cardinality({}) = 0
    BY FS_EmptySet
  <1>2. [i \in 1..0 |-> i] \in [1..0 -> {}] /\ \A i \in 1..0 : FALSE
    OBVIOUS
  <1> QED BY <1>1, <1>2 DEF Listed

\* Every finite set of numbers is listed by some sequence.
LEMMA AllListed ==
  ASSUME NEW n \in Nat, NEW S \in SUBSET (1..n)
  PROVE  Listed(S)
  <1> SUFFICES ASSUME ~Listed(S) PROVE FALSE
    OBVIOUS
  <1> DEFINE bad == {k \in Nat : \E X \in SUBSET (1..k) : ~Listed(X)}
  <1>1. bad \in SUBSET Nat /\ bad # {}
    OBVIOUS
  <1>2. PICK m \in bad : \A k \in bad : m <= k
    <2> HIDE DEF bad
    <2> QED BY <1>1, LeastNumber
  <1>3. m \in Nat
    BY <1>1
  <1>4. PICK X \in SUBSET (1..m) : ~Listed(X)
    BY <1>2
  <1>5. \A k \in Nat : k < m => k \notin bad
    <2> HIDE DEF bad
    <2> QED BY <1>2, <1>3
  <1>6. \A k \in Nat : k < m => \A Z \in SUBSET (1..k) : Listed(Z)
    BY <1>5
  <1> HIDE DEF bad
  <1>7. X # {}
    BY <1>4, EmptyListed
  <1>8. m # 0 /\ m - 1 \in Nat /\ m - 1 < m
    <2>1. PICK x : x \in X
      BY <1>7
    <2>2. x \in 1..m
      BY <2>1
    <2> QED BY <1>3, <2>2
  <1>9. X \ {m} \in SUBSET (1..(m - 1))
    BY <1>3, <1>8
  <1>10. Listed(X \ {m})
    BY <1>6, <1>8, <1>9
  <1>11. CASE m \in X
    BY <1>3, <1>4, <1>10, <1>11, OneMoreListed
  <1>12. CASE m \notin X
    <2>1. X \ {m} = X
      BY <1>12
    <2> QED BY <1>4, <1>10, <2>1
  <1> QED BY <1>11, <1>12

LEMMA AscendingLists ==
  ASSUME NEW n \in Nat, NEW S \in SUBSET (1..n)
  PROVE  Lists(Ascending(S), S) /\ Len(Ascending(S)) = Cardinality(S) /\ Cardinality(S) \in Nat
  <1> DEFINE rows == Ascending(S)
             c == Cardinality(S)
  <1>1. IsFiniteSet(S) /\ c \in Nat
    BY NumbersAreFinite
  <1>2. rows \in [1..c -> S] /\ \A i, j \in 1..c : i < j => rows[i] < rows[j]
    <2> DEFINE P(f) == \A i, j \in DOMAIN f : i < j => f[i] < f[j]
    <2>1. PICK f \in [1..c -> S] : \A i, j \in 1..c : i < j => f[i] < f[j]
      BY AllListed DEF Listed
    <2>2. P(f)
      BY <2>1
    <2>3. rows = CHOOSE g \in [1..c -> S] : P(g)
      BY DEF Ascending
    <2>4. rows \in [1..c -> S] /\ P(rows)
      <3> HIDE DEF P, rows, c
      <3> QED BY <2>1, <2>2, <2>3
    <2> QED BY <2>4
  <1> HIDE DEF rows
  <1>3. rows \in Seq(S) /\ Len(rows) = c /\ DOMAIN rows = 1..c
    BY <1>1, <1>2, SeqDef
  <1>4. \A i, j \in 1..c : rows[i] = rows[j] => i = j
    <2>1. \A s \in S : s \in Nat
      BY NumbersAreFinite
    <2> HIDE DEF c
    <2>2. \A i \in 1..c : rows[i] \in Nat
      BY <1>2, <2>1
    <2> QED BY <1>1, <1>2, <2>2
  <1>5. rows \in Injection(1..c, S)
    BY <1>2, <1>4 DEF Injection, IsInjective
  <1>6. Cardinality(1..c) = c
    BY <1>1, FS_Interval
  <1>7. rows \in Surjection(1..c, S)
    BY <1>1, <1>5, <1>6, FS_Injection
  <1>8. \A s \in S : \E i \in 1..c : rows[i] = s
    BY <1>7 DEF Surjection
  <1> QED BY <1>1, <1>2, <1>3, <1>8 DEF Lists, Climbing, rows

\* The numbers of a climbing sequence grow at least as fast as its positions.
LEMMA ClimbsFast ==
  ASSUME NEW rows \in Seq(Nat), Climbing(rows), NEW a \in Nat,
         \A i \in 1..Len(rows) : a <= rows[i]
  PROVE  \A i \in 1..Len(rows) : a + i - 1 <= rows[i]
  <1> DEFINE bad == {i \in 1..Len(rows) : rows[i] < a + i - 1}
  <1>1. Len(rows) \in Nat /\ \A i \in 1..Len(rows) : rows[i] \in Nat
    BY ElementOfSeq, LenProperties
  <1> SUFFICES ASSUME bad # {} PROVE FALSE
    BY <1>1
  <1>2. PICK m \in bad : \A k \in bad : m <= k
    <2>1. bad \in SUBSET Nat
      OBVIOUS
    <2> HIDE DEF bad
    <2> QED BY <2>1, LeastNumber
  <1>3. m \in 1..Len(rows) /\ rows[m] < a + m - 1
    BY <1>2
  <1>4. m > 1 /\ m - 1 \in 1..Len(rows)
    BY <1>1, <1>3
  <1>5. a + (m - 1) - 1 <= rows[m - 1]
    <2>1. m - 1 \notin bad
      <3>1. m \in Nat /\ m - 1 \in Nat /\ ~(m <= m - 1)
        BY <1>1, <1>3
      <3> HIDE DEF bad
      <3> QED BY <1>2, <3>1
    <2>2. rows[m - 1] \in Nat /\ m \in Nat
      BY <1>1, <1>3, <1>4
    <2> QED BY <1>4, <2>1, <2>2
  <1>6. rows[m - 1] < rows[m]
    <2>1. m \in Int /\ m - 1 < m
      BY <1>1, <1>3
    <2> HIDE DEF bad
    <2> QED BY <1>3, <1>4, <2>1 DEF Climbing
  <1> QED BY <1>1, <1>3, <1>4, <1>5, <1>6

\* At most n of the numbers of S: the smallest ones, or the largest ones.
Some(rows, S, n) == rows \in Seq(S) /\ Climbing(rows) /\ Len(rows) \in 0..n
Smallest(rows, S, n) ==
  /\ Some(rows, S, n)
  /\ \A s \in S : \/ \E i \in 1..Len(rows) : rows[i] = s
                  \/ Len(rows) = n /\ \A i \in 1..Len(rows) : rows[i] < s
Largest(rows, S, n) ==
  /\ Some(rows, S, n)
  /\ \A s \in S : \/ \E i \in 1..Len(rows) : rows[i] = s
                  \/ Len(rows) = n /\ \A i \in 1..Len(rows) : s < rows[i]

\* The first n of a list, and the last n of it.
LEMMA FirstOnes ==
  ASSUME NEW S \in SUBSET Nat, NEW rows, Lists(rows, S), NEW n \in Nat \ {0},
         NEW len, len = (IF n < Len(rows) THEN n ELSE Len(rows)),
         NEW some, some = SubSeq(rows, 1, len)
  PROVE  Smallest(some, S, n)
  <1>1. rows \in Seq(S) /\ Len(rows) \in Nat /\ \A i \in 1..Len(rows) : rows[i] \in S /\ rows[i] \in Nat
    BY ElementOfSeq, LenProperties DEF Lists
  <1>2. len \in Nat /\ len <= Len(rows) /\ len <= n /\ (len < Len(rows) => len = n)
    BY <1>1
  <1>3. \A i \in 1..len : i \in 1..Len(rows) /\ rows[i] \in S
    BY <1>1, <1>2
  <1>4. /\ some \in Seq(S) /\ Len(some) = IF 1 <= len THEN len - 1 + 1 ELSE 0
        /\ \A i \in 1..(len - 1 + 1) : some[i] = rows[1 + i - 1]
    BY <1>2, <1>3, SubSeqProperties
  <1>5. Len(some) = len /\ \A i \in 1..len : some[i] = rows[i]
    <2>1. len - 1 + 1 = len /\ \A i \in 1..len : 1 + i - 1 = i
      BY <1>2
    <2> QED BY <1>2, <1>4, <2>1
  <1>6. Climbing(some)
    BY <1>3, <1>5 DEF Lists, Climbing
  <1>7. \A s \in S : \/ \E i \in 1..len : some[i] = s
                     \/ len = n /\ \A i \in 1..len : some[i] < s
    <2> SUFFICES ASSUME NEW s \in S PROVE \/ \E i \in 1..len : some[i] = s
                                          \/ len = n /\ \A i \in 1..len : some[i] < s
      OBVIOUS
    <2>1. PICK k \in 1..Len(rows) : rows[k] = s
      BY DEF Lists
    <2>2. CASE k <= len
      BY <1>1, <1>2, <1>5, <2>1, <2>2
    <2>3. CASE k > len
      <3>1. \A i \in 1..len : rows[i] < rows[k]
        BY <1>1, <1>2, <1>3, <2>1, <2>3 DEF Lists, Climbing
      <3> QED BY <1>1, <1>2, <1>5, <2>1, <2>3, <3>1
    <2> QED BY <1>1, <1>2, <2>2, <2>3
  <1>8. Len(some) \in 0..n
    BY <1>2, <1>5
  <1> QED BY <1>4, <1>5, <1>6, <1>7, <1>8 DEF Smallest, Some

LEMMA LastOnesTaken ==
  ASSUME NEW S \in SUBSET Nat, NEW rows, Lists(rows, S), NEW n \in Nat \ {0},
         NEW from, from = (IF n < Len(rows) THEN Len(rows) - n + 1 ELSE 1),
         NEW some, some = SubSeq(rows, from, Len(rows))
  PROVE  Largest(some, S, n)
  <1>1. rows \in Seq(S) /\ Len(rows) \in Nat /\ \A i \in 1..Len(rows) : rows[i] \in S /\ rows[i] \in Nat
    BY ElementOfSeq, LenProperties DEF Lists
  <1>2. PICK skip \in Nat : /\ from = skip + 1 /\ skip <= Len(rows) /\ Len(rows) - skip <= n
                            /\ skip > 0 => Len(rows) - skip = n
    <2>1. CASE n < Len(rows)
      <3>1. Len(rows) - n \in Nat /\ from = (Len(rows) - n) + 1 /\ Len(rows) - (Len(rows) - n) = n
        BY <1>1, <2>1
      <3>2. Len(rows) - n <= Len(rows) /\ n <= n
        BY <1>1
      <3> QED BY <3>1, <3>2
    <2>2. CASE ~(n < Len(rows))
      <3>1. from = 0 + 1 /\ 0 <= Len(rows) /\ Len(rows) - 0 <= n /\ 0 \in Nat /\ ~(0 > 0)
        BY <1>1, <2>2
      <3> QED BY <3>1
    <2> QED BY <2>1, <2>2
  <1>3. PICK size \in Nat : size = Len(rows) - skip /\ size + skip = Len(rows)
    BY <1>1, <1>2
  <1>4. \A i \in from..Len(rows) : rows[i] \in S
    BY <1>1, <1>2
  <1>5. /\ some \in Seq(S) /\ Len(some) = IF from <= Len(rows) THEN Len(rows) - from + 1 ELSE 0
        /\ \A i \in 1..(Len(rows) - from + 1) : some[i] = rows[from + i - 1]
    BY <1>1, <1>2, <1>4, SubSeqProperties
  <1>6. Len(some) = size /\ \A i \in 1..size : i + skip \in 1..Len(rows) /\ some[i] = rows[i + skip]
    <2>1. Len(rows) - from + 1 = size /\ \A i \in 1..size : from + i - 1 = i + skip
      <3>1. Len(rows) - (skip + 1) + 1 = size
        BY <1>1, <1>2, <1>3
      <3>2. \A i \in 1..size : (skip + 1) + i - 1 = i + skip
        BY <1>2, <1>3
      <3> QED BY <1>2, <3>1, <3>2
    <2>2. \A i \in 1..size : i + skip \in 1..Len(rows)
      BY <1>1, <1>2, <1>3
    <2>3. Len(some) = size
      BY <1>1, <1>2, <1>3, <1>5, <2>1
    <2> QED BY <1>5, <2>1, <2>2, <2>3
  <1>7. Climbing(some)
    <2> SUFFICES ASSUME NEW i \in 1..size, NEW j \in 1..size, i < j PROVE some[i] < some[j]
      BY <1>6 DEF Climbing
    <2>1. i + skip < j + skip
      BY <1>2, <1>3
    <2> QED BY <1>6, <2>1 DEF Lists, Climbing
  <1>8. \A s \in S : \/ \E i \in 1..size : some[i] = s
                     \/ size = n /\ \A i \in 1..size : s < some[i]
    <2> SUFFICES ASSUME NEW s \in S PROVE \/ \E i \in 1..size : some[i] = s
                                          \/ size = n /\ \A i \in 1..size : s < some[i]
      OBVIOUS
    <2>1. PICK k \in 1..Len(rows) : rows[k] = s
      BY DEF Lists
    <2>2. CASE k > skip
      <3>1. k - skip \in 1..size /\ (k - skip) + skip = k
        BY <1>1, <1>2, <1>3, <2>2
      <3> QED BY <1>6, <2>1, <3>1
    <2>3. CASE k <= skip
      <3>1. \A i \in 1..size : k < i + skip
        BY <1>1, <1>2, <1>3, <2>3
      <3>2. \A i \in 1..size : rows[k] < rows[i + skip]
        BY <1>6, <2>1, <3>1 DEF Lists, Climbing
      <3>3. size = n
        <4>1. k \in Nat /\ k >= 1
          BY <1>1
        <4>2. skip > 0
          BY <1>2, <2>3, <4>1
        <4> QED BY <1>2, <1>3, <4>2
      <3> QED BY <1>6, <2>1, <3>2, <3>3
    <2>4. k \in Nat
      BY <1>1
    <2>5. k > skip \/ k <= skip
      BY <1>2, <2>4
    <2> QED BY <2>2, <2>3, <2>5
  <1>9. size \in 0..n
    BY <1>2, <1>3
  <1> QED BY <1>5, <1>6, <1>7, <1>8, <1>9 DEF Largest, Some

-----------------------------------------------------------------------------
(* What a page holds. *)

StreamHas == last \in Nat /\ alive \in SUBSET (1..last)

LEMMA MatchesAreNumbers ==
  ASSUME StreamHas, NEW names
  PROVE  Match(names) \in SUBSET (1..last) /\ Match(names) \in SUBSET Nat
  <1>1. \A s \in Match(names) : s \in alive
    BY DEF Match
  <1>2. \A s \in alive : s \in 1..last /\ s \in Nat
    BY DEF StreamHas
  <1>3. \A s \in Match(names) : s \in 1..last /\ s \in Nat
    BY <1>1, <1>2
  <1> QED BY <1>3

LEMMA ForwardFacts ==
  ASSUME StreamHas, NEW start \in Nat, NEW names, NEW n \in Nat \ {0}
  PROVE  Smallest(Forward(start, names, n), {s \in Match(names) : s >= start}, n)
  <1>1. PICK S : S = {s \in Match(names) : s >= start}
    OBVIOUS
  <1>2. PICK all : all = Ascending(S)
    OBVIOUS
  <1>3. PICK len : len = IF n < Len(all) THEN n ELSE Len(all)
    OBVIOUS
  <1>4. S \in SUBSET (1..last) /\ S \in SUBSET Nat
    BY <1>1, MatchesAreNumbers
  <1>5. Lists(all, S)
    BY <1>2, <1>4, AscendingLists DEF StreamHas
  <1>6. Forward(start, names, n) = SubSeq(all, 1, len)
    BY <1>1, <1>2, <1>3 DEF Forward
  <1>7. Smallest(Forward(start, names, n), S, n)
    BY <1>3, <1>4, <1>5, <1>6, FirstOnes
  <1> QED BY <1>1, <1>7

LEMMA BackwardFacts ==
  ASSUME StreamHas, NEW start \in Nat, NEW names, NEW n \in Nat \ {0}
  PROVE  Largest(Backward(start, names, n), {s \in Match(names) : s <= start}, n)
  <1>1. PICK S : S = {s \in Match(names) : s <= start}
    OBVIOUS
  <1>2. PICK all : all = Ascending(S)
    OBVIOUS
  <1>3. PICK from : from = IF n < Len(all) THEN Len(all) - n + 1 ELSE 1
    OBVIOUS
  <1>4. S \in SUBSET (1..last) /\ S \in SUBSET Nat
    BY <1>1, MatchesAreNumbers
  <1>5. Lists(all, S)
    BY <1>2, <1>4, AscendingLists DEF StreamHas
  <1>6. Backward(start, names, n) = SubSeq(all, from, Len(all))
    BY <1>1, <1>2, <1>3 DEF Backward
  <1>7. Largest(Backward(start, names, n), S, n)
    BY <1>3, <1>4, <1>5, <1>6, LastOnesTaken
  <1> QED BY <1>1, <1>7

-----------------------------------------------------------------------------
(* The rows as a set. *)

LEMMA RowsOf ==
  ASSUME NEW T, NEW rows \in Seq(T)
  PROVE  /\ Len(rows) \in Nat /\ DOMAIN rows = 1..Len(rows)
         /\ \A i \in 1..Len(rows) : rows[i] \in T /\ rows[i] \in ToSet(rows)
         /\ \A r \in ToSet(rows) : r \in T /\ \E i \in 1..Len(rows) : rows[i] = r
         /\ (rows = <<>>) = (Len(rows) = 0)
  <1>1. Len(rows) \in Nat /\ DOMAIN rows = 1..Len(rows)
    BY LenProperties
  <1>2. \A i \in 1..Len(rows) : rows[i] \in T
    BY ElementOfSeq
  <1>3. (rows = <<>>) = (Len(rows) = 0)
    BY EmptySeq
  <1> QED BY <1>1, <1>2, <1>3 DEF ToSet

LEMMA RowsJoined ==
  ASSUME NEW T, NEW a \in Seq(T), NEW b \in Seq(T)
  PROVE  a \o b \in Seq(T) /\ ToSet(a \o b) = ToSet(a) \cup ToSet(b)
  <1>1. a \o b \in Seq(T)
    BY ConcatProperties
  <1>2. Len(a) \in Nat /\ Len(b) \in Nat /\ Len(a \o b) = Len(a) + Len(b)
    BY ConcatProperties, LenProperties
  <1>3. \A i \in 1..Len(a) + Len(b) :
          (a \o b)[i] = IF i <= Len(a) THEN a[i] ELSE b[i - Len(a)]
    BY ConcatProperties
  <1>4. ASSUME NEW r \in ToSet(a \o b) PROVE r \in ToSet(a) \/ r \in ToSet(b)
    <2>0. PICK c : c = a \o b
      OBVIOUS
    <2>4. c \in Seq(T) /\ r \in ToSet(c) /\ Len(c) = Len(a) + Len(b)
      BY <1>1, <1>2, <2>0
    <2>5. PICK i \in 1..Len(c) : c[i] = r
      BY <2>4, RowsOf
    <2>1. i \in 1..Len(a) + Len(b) /\ (a \o b)[i] = r
      BY <2>0, <2>4, <2>5
    <2>2. CASE i <= Len(a)
      <3>1. i \in 1..Len(a) /\ a[i] = r
        BY <1>2, <1>3, <2>1, <2>2
      <3> QED BY <3>1, RowsOf
    <2>3. CASE ~(i <= Len(a))
      <3>1. i - Len(a) \in 1..Len(b) /\ b[i - Len(a)] = r
        BY <1>2, <1>3, <2>1, <2>3
      <3> QED BY <3>1, RowsOf
    <2> QED BY <2>2, <2>3
  <1>5. ASSUME NEW r \in ToSet(a) PROVE r \in ToSet(a \o b)
    <2>1. PICK i \in 1..Len(a) : a[i] = r
      BY RowsOf
    <2>2. i \in 1..Len(a) + Len(b) /\ (a \o b)[i] = r
      BY <1>2, <1>3, <2>1
    <2> QED BY <1>1, <1>2, <2>2, RowsOf
  <1>6. ASSUME NEW r \in ToSet(b) PROVE r \in ToSet(a \o b)
    <2>1. PICK i \in 1..Len(b) : b[i] = r
      BY RowsOf
    <2>2. PICK k : k = i + Len(a)
      OBVIOUS
    <2>3. k \in 1..Len(a) + Len(b) /\ ~(k <= Len(a)) /\ k - Len(a) = i
      BY <1>2, <2>1, <2>2
    <2>4. (a \o b)[k] = r
      BY <1>3, <2>1, <2>3
    <2> QED BY <1>1, <1>2, <2>3, <2>4, RowsOf
  <1> QED BY <1>1, <1>4, <1>5, <1>6

LEMMA WithoutOne ==
  ASSUME NEW T, NEW rows \in Seq(T), NEW s
  PROVE  Without(rows, s) \in Seq(T) /\ ToSet(Without(rows, s)) = ToSet(rows) \ {s}
  <1>1. PICK n : n = Len(rows)
    OBVIOUS
  <1>2. n \in Nat /\ DOMAIN rows = 1..n
    BY <1>1, RowsOf
  <1>3. PICK K : K = {i \in 1..n : rows[i] # s}
    OBVIOUS
  <1>4. PICK kept : kept = Ascending(K)
    OBVIOUS
  <1>5. K \in SUBSET (1..n)
    BY <1>3
  <1>6. Lists(kept, K)
    BY <1>2, <1>4, <1>5, AscendingLists
  <1>7. /\ kept \in Seq(K) /\ \A k \in K : \E i \in 1..Len(kept) : kept[i] = k
    BY <1>6 DEF Lists
  <1>8. Len(kept) \in Nat /\ DOMAIN kept = 1..Len(kept) /\ \A i \in 1..Len(kept) : kept[i] \in K
    BY <1>7, RowsOf
  <1>9. PICK m : m = Len(kept)
    OBVIOUS
  <1>10. Without(rows, s) = [i \in 1..m |-> rows[kept[i]]]
    BY <1>2, <1>3, <1>4, <1>8, <1>9 DEF Without
  <1>11. PICK left : left = Without(rows, s)
    OBVIOUS
  <1>12. \A k \in K : k \in 1..n /\ rows[k] \in T /\ rows[k] # s
    BY <1>1, <1>3, RowsOf
  <1>13. m \in Nat /\ left = [i \in 1..m |-> rows[kept[i]]] /\ \A i \in 1..m : rows[kept[i]] \in T
    BY <1>8, <1>9, <1>10, <1>11, <1>12
  <1>14. left \in Seq(T) /\ Len(left) = m /\ \A i \in 1..m : left[i] = rows[kept[i]]
    BY <1>13
  <1>15. ASSUME NEW r \in ToSet(left) PROVE r \in ToSet(rows) \ {s}
    <2>1. PICK i \in 1..m : left[i] = r
      BY <1>14, RowsOf
    <2>2. kept[i] \in K /\ r = rows[kept[i]]
      BY <1>8, <1>9, <1>14, <2>1
    <2> QED BY <1>1, <1>12, <2>2, RowsOf
  <1>16. ASSUME NEW r \in ToSet(rows), r # s PROVE r \in ToSet(left)
    <2>1. PICK k \in 1..n : rows[k] = r
      BY <1>1, RowsOf
    <2>2. PICK i \in 1..m : kept[i] = k
      BY <1>3, <1>7, <1>9, <1>16, <2>1
    <2> QED BY <1>14, <2>1, <2>2, RowsOf
  <1> QED BY <1>11, <1>14, <1>15, <1>16

LEMMA Extremes ==
  ASSUME NEW n \in Nat, NEW R \in SUBSET (1..n), R # {}
  PROVE  /\ Min(R) \in R /\ \A r \in R : Min(R) <= r
         /\ Max(R) \in R /\ \A r \in R : r <= Max(R)
  <1>1. R \in SUBSET Nat
    OBVIOUS
  <1>2. \E m \in R : \A r \in R : m <= r
    BY <1>1, LeastNumber
  <1>3. PICK D : D = {n - r : r \in R}
    OBVIOUS
  <1>4. D \in SUBSET Nat /\ D # {}
    <2>1. \A r \in R : n - r \in Nat
      OBVIOUS
    <2> QED BY <1>3, <2>1
  <1>5. PICK d \in D : \A e \in D : d <= e
    BY <1>4, LeastNumber
  <1>6. PICK x \in R : d = n - x
    BY <1>3, <1>5
  <1>7. \A r \in R : x >= r /\ r <= x
    <2> SUFFICES ASSUME NEW r \in R PROVE x >= r /\ r <= x
      OBVIOUS
    <2>1. d <= n - r
      BY <1>3, <1>5
    <2>2. x \in Nat /\ r \in Nat
      BY <1>1
    <2> QED BY <1>6, <2>1, <2>2
  <1>8. Min(R) \in R /\ \A r \in R : Min(R) <= r
    BY <1>2 DEF Min
  <1>9. Max(R) \in R /\ \A r \in R : Max(R) >= r
    BY <1>6, <1>7 DEF Max
  <1>10. \A r \in R : r \in Nat
    BY <1>1
  <1> QED BY <1>8, <1>9, <1>10

-----------------------------------------------------------------------------
(* A page asks for what is on one side of a cut: of the messages that are  *)
(* not among the rows R, those below the cut are below every row, and the  *)
(* others are above every row.  It holds of the rows of the page, and of   *)
(* the rows of the list while the page is on its way.                      *)

Cut(p) == IF ~p.pre THEN p.start
          ELSE IF p.interval < 0 THEN p.start + 1 ELSE p.start + p.interval

Beside(c, M, R) == \A s \in M \ R : IF s < c THEN \A r \in R : s < r ELSE \A r \in R : r < s

\* No message between two rows is left out.
Between(M, R) == \A s \in M : \A a, b \in R : a <= s /\ s <= b => s \in R

Run(rows) == \A i \in 1..Len(rows) - 1 : rows[i + 1] = rows[i] + 1

LEMMA BesideIsBetween ==
  ASSUME NEW M \in SUBSET Nat, NEW R \in SUBSET Nat, NEW c \in Nat, Beside(c, M, R)
  PROVE  Between(M, R)
  <1> SUFFICES ASSUME NEW s \in M, NEW a \in R, NEW b \in R, a <= s, s <= b, s \notin R PROVE FALSE
    BY DEF Between
  <1>1. s \in Nat /\ a \in Nat /\ b \in Nat
    OBVIOUS
  <1>2. s < b \/ a < s
    BY <1>1
  <1>3. CASE s < c
    BY <1>1, <1>3 DEF Beside
  <1>4. CASE ~(s < c)
    BY <1>1, <1>4 DEF Beside
  <1> QED BY <1>3, <1>4

LEMMA BesideBoth ==
  ASSUME NEW M, NEW R, NEW Q, NEW c, Beside(c, M, R), Beside(c, M, Q)
  PROVE  Beside(c, M, R \cup Q)
  BY DEF Beside

\* Messages that are deleted disturb neither.
LEMMA BesideFewer ==
  ASSUME NEW M, NEW R, NEW N, NEW Q, NEW c, Beside(c, M, R), N \ Q \subseteq M \ R, Q \subseteq R
  PROVE  Beside(c, N, Q)
  BY DEF Beside

LEMMA BetweenFewer ==
  ASSUME NEW M, NEW R, NEW N, NEW Q, Between(M, R), N \ Q \subseteq M \ R, Q \subseteq R
  PROVE  Between(N, Q)
  BY DEF Between

\* Nor does a message published after all others.
LEMMA BesideOneMore ==
  ASSUME NEW M, NEW N, NEW x \in Nat, NEW R \in SUBSET (1..x), NEW c \in Nat, c <= x + 1,
         Beside(c, M, R), N \subseteq M \cup {x + 1}
  PROVE  Beside(c, N, R)
  <1>1. \A r \in R : r < x + 1
    OBVIOUS
  <1>2. ~(x + 1 < c)
    OBVIOUS
  <1> QED BY <1>1, <1>2 DEF Beside

LEMMA BetweenOneMore ==
  ASSUME NEW M, NEW N, NEW x \in Nat, NEW R \in SUBSET (1..x), Between(M, R), N \subseteq M \cup {x + 1}
  PROVE  Between(N, R)
  <1>1. \A r \in R : ~(x + 1 <= r)
    OBVIOUS
  <1> QED BY <1>1 DEF Between

\* A page asked for after a row h, or before it, stands beside the list of that row.
LEMMA AskedNextTo ==
  ASSUME NEW M \in SUBSET Nat, NEW R \in SUBSET Nat, Between(M, R), NEW h \in R, NEW c \in {h, h + 1}
  PROVE  Beside(c, M, R)
  <1> SUFFICES ASSUME NEW s \in M \ R
               PROVE  IF s < c THEN \A r \in R : s < r ELSE \A r \in R : r < s
    BY DEF Beside
  <1>1. s \in Nat /\ h \in Nat /\ s # h /\ \A r \in R : r \in Nat
    OBVIOUS
  <1>2. CASE s < c
    <2>1. s <= h
      BY <1>1, <1>2
    <2>2. \A r \in R : ~(r <= s)
      BY <2>1 DEF Between
    <2> QED BY <1>1, <1>2, <2>2
  <1>3. CASE ~(s < c)
    <2>1. h <= s
      BY <1>1, <1>3
    <2>2. \A r \in R : ~(s <= r)
      BY <2>1 DEF Between
    <2> QED BY <1>1, <1>3, <2>2
  <1> QED BY <1>2, <1>3

LEMMA WiderSeq ==
  ASSUME NEW S, NEW T, S \in SUBSET T, NEW rows \in Seq(S)
  PROVE  rows \in Seq(T)
  <1>1. Len(rows) \in Nat /\ rows \in [1..Len(rows) -> S]
    BY LenProperties
  <1>2. rows \in [1..Len(rows) -> T]
    BY <1>1
  <1> QED BY <1>1, <1>2, SeqDef

LEMMA SmallestFacts ==
  ASSUME NEW S \in SUBSET Nat, NEW n \in Nat \ {0}, NEW rows, Smallest(rows, S, n)
  PROVE  /\ rows \in Seq(S) /\ rows \in Seq(Nat) /\ Climbing(rows) /\ Len(rows) \in 0..n
         /\ \A r \in ToSet(rows) : r \in S
         /\ \A s \in S : s \notin ToSet(rows) => Len(rows) = n /\ \A r \in ToSet(rows) : r < s
  <1>1. rows \in Seq(S) /\ Climbing(rows) /\ Len(rows) \in 0..n
    BY DEF Smallest, Some
  <1>2. rows \in Seq(Nat)
    BY <1>1, WiderSeq
  <1>3. ASSUME NEW s \in S, s \notin ToSet(rows)
        PROVE Len(rows) = n /\ \A r \in ToSet(rows) : r < s
    <2>1. \A i \in 1..Len(rows) : rows[i] # s
      BY <1>1, <1>3, RowsOf
    <2>2. Len(rows) = n /\ \A i \in 1..Len(rows) : rows[i] < s
      BY <2>1 DEF Smallest
    <2> QED BY <1>1, <2>2, RowsOf
  <1> QED BY <1>1, <1>2, <1>3, RowsOf

LEMMA LargestFacts ==
  ASSUME NEW S \in SUBSET Nat, NEW n \in Nat \ {0}, NEW rows, Largest(rows, S, n)
  PROVE  /\ rows \in Seq(S) /\ rows \in Seq(Nat) /\ Climbing(rows) /\ Len(rows) \in 0..n
         /\ \A r \in ToSet(rows) : r \in S
         /\ \A s \in S : s \notin ToSet(rows) => Len(rows) = n /\ \A r \in ToSet(rows) : s < r
  <1>1. rows \in Seq(S) /\ Climbing(rows) /\ Len(rows) \in 0..n
    BY DEF Largest, Some
  <1>2. rows \in Seq(Nat)
    BY <1>1, WiderSeq
  <1>3. ASSUME NEW s \in S, s \notin ToSet(rows)
        PROVE Len(rows) = n /\ \A r \in ToSet(rows) : s < r
    <2>1. \A i \in 1..Len(rows) : rows[i] # s
      BY <1>1, <1>3, RowsOf
    <2>2. Len(rows) = n /\ \A i \in 1..Len(rows) : s < rows[i]
      BY <2>1 DEF Largest
    <2> QED BY <1>1, <2>2, RowsOf
  <1> QED BY <1>1, <1>2, <1>3, RowsOf

\* The answers stand beside their cuts: a page forward, a page backward, and a page that
\* turned round at the first message.
LEMMA ForwardBeside ==
  ASSUME StreamHas, NEW start \in Nat, NEW names, NEW n \in Nat \ {0}
  PROVE  Beside(start, Match(names), ToSet(Forward(start, names, n)))
  <1>1. PICK M : M = Match(names)
    OBVIOUS
  <1>2. PICK rows : rows = Forward(start, names, n)
    OBVIOUS
  <1>3. PICK S : S = {s \in M : s >= start}
    OBVIOUS
  <1>4. M \in SUBSET Nat /\ S \in SUBSET Nat
    BY <1>1, <1>3, MatchesAreNumbers
  <1>5. Smallest(rows, S, n)
    BY <1>1, <1>2, <1>3, ForwardFacts
  <1>6. /\ \A r \in ToSet(rows) : r \in S
        /\ \A s \in S : s \notin ToSet(rows) => \A r \in ToSet(rows) : r < s
    BY <1>4, <1>5, SmallestFacts
  <1>7. \A r \in ToSet(rows) : r \in Nat /\ start <= r
    BY <1>3, <1>4, <1>6
  <1>8. ASSUME NEW s \in M \ ToSet(rows)
        PROVE  IF s < start THEN \A r \in ToSet(rows) : s < r ELSE \A r \in ToSet(rows) : r < s
    <2>1. s \in Nat
      BY <1>4
    <2>2. CASE s < start
      BY <1>7, <2>1, <2>2
    <2>3. CASE ~(s < start)
      BY <1>3, <1>6, <2>1, <2>3
    <2> QED BY <2>2, <2>3
  <1>9. Beside(start, M, ToSet(rows))
    BY <1>8 DEF Beside
  <1> QED BY <1>1, <1>2, <1>9

LEMMA BackwardBeside ==
  ASSUME StreamHas, NEW start \in Nat, NEW names, NEW n \in Nat \ {0}
  PROVE  Beside(start + 1, Match(names), ToSet(Backward(start, names, n)))
  <1>1. PICK M : M = Match(names)
    OBVIOUS
  <1>2. PICK rows : rows = Backward(start, names, n)
    OBVIOUS
  <1>3. PICK S : S = {s \in M : s <= start}
    OBVIOUS
  <1>4. M \in SUBSET Nat /\ S \in SUBSET Nat
    BY <1>1, <1>3, MatchesAreNumbers
  <1>5. Largest(rows, S, n)
    BY <1>1, <1>2, <1>3, BackwardFacts
  <1>6. /\ \A r \in ToSet(rows) : r \in S
        /\ \A s \in S : s \notin ToSet(rows) => \A r \in ToSet(rows) : s < r
    BY <1>4, <1>5, LargestFacts
  <1>7. \A r \in ToSet(rows) : r \in Nat /\ r <= start
    BY <1>3, <1>4, <1>6
  <1>8. ASSUME NEW s \in M \ ToSet(rows)
        PROVE  IF s < start + 1 THEN \A r \in ToSet(rows) : s < r ELSE \A r \in ToSet(rows) : r < s
    <2>1. s \in Nat
      BY <1>4
    <2>2. CASE s < start + 1
      BY <1>3, <1>6, <2>1, <2>2
    <2>3. CASE ~(s < start + 1)
      BY <1>7, <2>1, <2>3
    <2> QED BY <2>2, <2>3
  <1>9. Beside(start + 1, M, ToSet(rows))
    BY <1>8 DEF Beside
  <1> QED BY <1>1, <1>2, <1>9

\* Asked for n messages from the first one, a page holds all those of the first n numbers.
LEMMA TurnedBeside ==
  ASSUME StreamHas, NEW start \in Nat, NEW names, NEW n \in Nat \ {0}, \A s \in alive : start <= s
  PROVE  Beside(start + n, Match(names), ToSet(Forward(start, names, n)))
  <1>1. PICK M : M = Match(names)
    OBVIOUS
  <1>2. PICK rows : rows = Forward(start, names, n)
    OBVIOUS
  <1>3. PICK S : S = {s \in M : s >= start}
    OBVIOUS
  <1>4. M \in SUBSET Nat /\ S \in SUBSET Nat
    BY <1>1, <1>3, MatchesAreNumbers
  <1>5. Smallest(rows, S, n)
    BY <1>1, <1>2, <1>3, ForwardFacts
  <1>6. /\ rows \in Seq(Nat) /\ Climbing(rows) /\ \A r \in ToSet(rows) : r \in S
        /\ \A s \in S : s \notin ToSet(rows) => Len(rows) = n /\ \A r \in ToSet(rows) : r < s
    BY <1>4, <1>5, SmallestFacts
  <1>7. \A s \in M : s \in S
    BY <1>1, <1>3, <1>4 DEF Match
  <1>8. ASSUME NEW s \in M \ ToSet(rows)
        PROVE  IF s < start + n THEN \A r \in ToSet(rows) : s < r ELSE \A r \in ToSet(rows) : r < s
    <2>1. s \in Nat /\ Len(rows) = n /\ \A r \in ToSet(rows) : r < s
      BY <1>4, <1>6, <1>7
    <2>2. \A i \in 1..Len(rows) : start <= rows[i]
      BY <1>3, <1>6, RowsOf
    <2>3. \A i \in 1..Len(rows) : start + i - 1 <= rows[i]
      BY <1>6, <2>2, ClimbsFast
    <2>4. n \in 1..Len(rows)
      BY <2>1
    <2>5. rows[n] < s /\ start + n - 1 <= rows[n] /\ rows[n] \in Nat
      BY <1>6, <2>1, <2>3, <2>4, RowsOf
    <2>6. ~(s < start + n)
      BY <2>1, <2>5
    <2> QED BY <2>1, <2>6
  <1>9. Beside(start + n, M, ToSet(rows))
    BY <1>8 DEF Beside
  <1> QED BY <1>1, <1>2, <1>9

-----------------------------------------------------------------------------
(* Consecutive numbers. *)

LEMMA NoHoles ==
  ASSUME NEW a \in Nat, NEW b \in Nat, NEW rows \in Seq(a..b), Climbing(rows),
         Between(a..b, ToSet(rows))
  PROVE  Run(rows)
  <1> SUFFICES ASSUME NEW i \in 1..Len(rows) - 1 PROVE rows[i + 1] = rows[i] + 1
    BY DEF Run
  <1>1. Len(rows) \in Nat /\ i \in 1..Len(rows) /\ i + 1 \in 1..Len(rows) /\ i < i + 1
    BY RowsOf
  <1>2. /\ rows[i] \in a..b /\ rows[i + 1] \in a..b /\ rows[i] < rows[i + 1]
        /\ rows[i] \in ToSet(rows) /\ rows[i + 1] \in ToSet(rows)
    BY <1>1, RowsOf DEF Climbing
  <1> SUFFICES ASSUME rows[i] + 1 < rows[i + 1] PROVE FALSE
    BY <1>2
  <1>3. PICK s : s = rows[i] + 1
    OBVIOUS
  <1>4. s \in a..b /\ rows[i] <= s /\ s <= rows[i + 1] /\ rows[i] < s /\ s < rows[i + 1]
    BY <1>2, <1>3
  <1>5. s \in ToSet(rows)
    BY <1>2, <1>4 DEF Between
  <1>6. PICK k \in 1..Len(rows) : rows[k] = s
    BY <1>5, RowsOf
  <1>7. k < i \/ k = i \/ k = i + 1 \/ i + 1 < k
    BY <1>1
  <1>8. CASE k < i
    <2>1. s < rows[i]
      BY <1>1, <1>6, <1>8 DEF Climbing
    <2> QED BY <1>2, <1>4, <2>1
  <1>9. CASE i + 1 < k
    <2>1. rows[i + 1] < s
      BY <1>1, <1>6, <1>9 DEF Climbing
    <2> QED BY <1>2, <1>4, <2>1
  <1> QED BY <1>2, <1>4, <1>6, <1>7, <1>8, <1>9

LEMMA RunCounts ==
  ASSUME NEW rows \in Seq(Nat), Run(rows), NEW a \in Nat, rows[1] = a
  PROVE  \A i \in 1..Len(rows) : rows[i] = a + i - 1
  <1> DEFINE bad == {i \in 1..Len(rows) : rows[i] # a + i - 1}
  <1>1. Len(rows) \in Nat
    BY RowsOf
  <1> SUFFICES ASSUME bad # {} PROVE FALSE
    OBVIOUS
  <1>2. PICK m \in bad : \A k \in bad : m <= k
    <2>1. bad \in SUBSET Nat
      OBVIOUS
    <2> HIDE DEF bad
    <2> QED BY <2>1, LeastNumber
  <1>3. m \in 1..Len(rows) /\ rows[m] # a + m - 1
    BY <1>2
  <1>4. m - 1 \in 1..Len(rows) - 1 /\ (m - 1) + 1 = m
    BY <1>1, <1>3
  <1>5. rows[m - 1] = a + (m - 1) - 1
    BY <1>1, <1>2, <1>4
  <1>6. rows[m] = rows[m - 1] + 1
    <2> HIDE DEF bad
    <2> QED BY <1>4 DEF Run
  <1> QED BY <1>3, <1>5, <1>6

LEMMA RunJoined ==
  ASSUME NEW x \in Seq(Nat), NEW y \in Seq(Nat), Run(x), Run(y),
         x # <<>> /\ y # <<>> => Head(y) = Last(x) + 1
  PROVE  Run(x \o y)
  <1>1. /\ Len(x) \in Nat /\ Len(y) \in Nat /\ Len(x \o y) = Len(x) + Len(y)
        /\ (x = <<>>) = (Len(x) = 0) /\ (y = <<>>) = (Len(y) = 0)
    BY ConcatProperties, RowsOf
  <1>2. \A i \in 1..Len(x) + Len(y) :
          (x \o y)[i] = IF i <= Len(x) THEN x[i] ELSE y[i - Len(x)]
    BY ConcatProperties
  <1> SUFFICES ASSUME NEW i \in 1..Len(x) + Len(y) - 1 PROVE (x \o y)[i + 1] = (x \o y)[i] + 1
    BY <1>1 DEF Run
  <1>3. i \in 1..Len(x) + Len(y) /\ i + 1 \in 1..Len(x) + Len(y) /\ i \in Nat
    BY <1>1
  <1>4. CASE i < Len(x)
    <2>1. (x \o y)[i + 1] = x[i + 1] /\ (x \o y)[i] = x[i] /\ i \in 1..Len(x) - 1
      BY <1>1, <1>2, <1>3, <1>4
    <2> QED BY <2>1 DEF Run
  <1>5. CASE i = Len(x)
    <2>1. (x \o y)[i] = x[Len(x)] /\ (x \o y)[i + 1] = y[i + 1 - Len(x)] /\ i + 1 - Len(x) = 1
      BY <1>1, <1>2, <1>3, <1>5
    <2>2. x # <<>> /\ y # <<>>
      BY <1>1, <1>3, <1>5
    <2> QED BY <2>1, <2>2, HeadTailProperties DEF Last
  <1>6. CASE i > Len(x)
    <2>1. PICK k : k = i - Len(x)
      OBVIOUS
    <2>2. k \in 1..Len(y) - 1 /\ i + 1 - Len(x) = k + 1
      BY <1>1, <1>3, <1>6, <2>1
    <2>3. (x \o y)[i + 1] = y[k + 1] /\ (x \o y)[i] = y[k]
      BY <1>1, <1>2, <1>3, <1>6, <2>1, <2>2
    <2> QED BY <2>2, <2>3 DEF Run
  <1> QED BY <1>1, <1>3, <1>4, <1>5, <1>6

\* Over a stream without gaps an answer is a run that begins, or ends, at its cut.
LEMMA ForwardRuns ==
  ASSUME StreamHas, NoGaps, info.first \in Nat, NEW start \in Nat, NEW n \in Nat \ {0},
         info.first <= start, NEW rows, rows = Forward(start, {}, n)
  PROVE  Run(rows) /\ (rows # <<>> => Head(rows) = start)
  <1>1. PICK b : b = last
    OBVIOUS
  <1>2. b \in Nat
    BY <1>1 DEF StreamHas
  <1>3. {s \in Match({}) : s >= start} = start..b
    <2>1. Match({}) = info.first..last
      BY DEF Match, NoGaps
    <2> QED BY <1>1, <1>2, <2>1
  <1>4. Smallest(rows, start..b, n)
    BY <1>3, ForwardFacts
  <1>5. start..b \in SUBSET Nat
    BY <1>2
  <1>6. /\ rows \in Seq(start..b) /\ Climbing(rows)
        /\ \A s \in start..b : s \notin ToSet(rows) => \A r \in ToSet(rows) : r < s
    BY <1>4, <1>5, SmallestFacts
  <1>7. \A r \in ToSet(rows) : r \in start..b
    BY <1>6, RowsOf
  <1>8. Between(start..b, ToSet(rows))
    <2> SUFFICES ASSUME NEW s \in start..b, NEW r \in ToSet(rows), s <= r, s \notin ToSet(rows) PROVE FALSE
      BY DEF Between
    <2>1. r < s /\ r \in Nat /\ s \in Nat
      BY <1>2, <1>6, <1>7
    <2> QED BY <2>1
  <1>9. Run(rows)
    BY <1>2, <1>6, <1>8, NoHoles
  <1>10. ASSUME rows # <<>> PROVE Head(rows) = start
    <2>1. 1 \in 1..Len(rows) /\ rows[1] \in start..b /\ rows[1] \in ToSet(rows) /\ Head(rows) = rows[1]
      <3>1. Len(rows) \in Nat /\ Len(rows) # 0
        BY <1>6, <1>10, RowsOf
      <3>2. 1 \in 1..Len(rows)
        BY <3>1
      <3>3. rows[1] \in start..b /\ rows[1] \in ToSet(rows)
        BY <1>6, <3>2, RowsOf
      <3>4. Head(rows) = rows[1]
        BY <1>6, <1>10, HeadTailProperties
      <3> QED BY <3>2, <3>3, <3>4
    <2>2. start \in start..b /\ ~(rows[1] < start)
      BY <1>2, <2>1
    <2>3. start \in ToSet(rows)
      BY <1>6, <2>1, <2>2
    <2>4. PICK k \in 1..Len(rows) : rows[k] = start
      BY <1>6, <2>3, RowsOf
    <2>5. k = 1 \/ 1 < k
      OBVIOUS
    <2>6. CASE 1 < k
      BY <1>6, <2>1, <2>2, <2>4, <2>6 DEF Climbing
    <2> QED BY <2>1, <2>4, <2>5, <2>6
  <1> QED BY <1>9, <1>10

LEMMA BackwardRuns ==
  ASSUME StreamHas, NoGaps, info.first \in Nat, NEW start \in Nat, NEW n \in Nat \ {0},
         start <= last, NEW rows, rows = Backward(start, {}, n)
  PROVE  Run(rows) /\ (rows # <<>> => Last(rows) = start)
  <1>1. PICK a : a = info.first
    OBVIOUS
  <1>2. a \in Nat
    BY <1>1
  <1>3. {s \in Match({}) : s <= start} = a..start
    <2>1. Match({}) = info.first..last /\ last \in Nat
      BY DEF Match, NoGaps, StreamHas
    <2> QED BY <1>1, <1>2, <2>1
  <1>4. Largest(rows, a..start, n)
    BY <1>3, BackwardFacts
  <1>5. a..start \in SUBSET Nat
    BY <1>2
  <1>6. /\ rows \in Seq(a..start) /\ Climbing(rows)
        /\ \A s \in a..start : s \notin ToSet(rows) => \A r \in ToSet(rows) : s < r
    BY <1>4, <1>5, LargestFacts
  <1>7. \A r \in ToSet(rows) : r \in a..start
    BY <1>6, RowsOf
  <1>8. Between(a..start, ToSet(rows))
    <2> SUFFICES ASSUME NEW s \in a..start, NEW r \in ToSet(rows), r <= s, s \notin ToSet(rows) PROVE FALSE
      BY DEF Between
    <2>1. s < r /\ r \in Nat /\ s \in Nat
      BY <1>2, <1>6, <1>7
    <2> QED BY <2>1
  <1>9. Run(rows)
    BY <1>2, <1>6, <1>8, NoHoles
  <1>10. ASSUME rows # <<>> PROVE Last(rows) = start
    <2>1. PICK l : l = Len(rows)
      OBVIOUS
    <2>2. l \in 1..Len(rows) /\ rows[l] \in a..start /\ rows[l] \in ToSet(rows) /\ Last(rows) = rows[l]
      <3>1. Len(rows) \in Nat /\ Len(rows) # 0
        BY <1>6, <1>10, RowsOf
      <3>2. l \in 1..Len(rows)
        BY <2>1, <3>1
      <3>3. rows[l] \in a..start /\ rows[l] \in ToSet(rows)
        BY <1>6, <3>2, RowsOf
      <3> QED BY <2>1, <3>2, <3>3 DEF Last
    <2>3. start \in a..start /\ ~(start < rows[l])
      BY <1>2, <2>2
    <2>4. start \in ToSet(rows)
      BY <1>6, <2>2, <2>3
    <2>5. PICK k \in 1..Len(rows) : rows[k] = start
      BY <1>6, <2>4, RowsOf
    <2>6. k = l \/ k < l
      BY <2>1, <2>2
    <2>7. CASE k < l
      BY <1>6, <2>2, <2>3, <2>5, <2>7 DEF Climbing
    <2> QED BY <2>2, <2>5, <2>6, <2>7
  <1> QED BY <1>9, <1>10

LEMMA TurnedRuns ==
  ASSUME StreamHas, NoGaps, NEW start \in Nat, NEW n \in Nat \ {0},
         info.first = start, start + n <= last + 1, NEW rows, rows = Forward(start, {}, n)
  PROVE  Run(rows) /\ (rows # <<>> => Last(rows) = start + n - 1)
  <1>1. Run(rows) /\ (rows # <<>> => Head(rows) = start)
    BY ForwardRuns
  <1>2. PICK b : b = last
    OBVIOUS
  <1>3. b \in Nat /\ start + n <= b + 1
    BY <1>2 DEF StreamHas
  <1>4. {s \in Match({}) : s >= start} = start..b
    <2>1. Match({}) = info.first..last
      BY DEF Match, NoGaps
    <2> QED BY <1>2, <1>3, <2>1
  <1>5. Smallest(rows, start..b, n)
    BY <1>4, ForwardFacts
  <1>6. start..b \in SUBSET Nat
    BY <1>3
  <1>7. /\ rows \in Seq(start..b) /\ rows \in Seq(Nat) /\ Climbing(rows) /\ Len(rows) \in 0..n
        /\ \A s \in start..b : s \notin ToSet(rows) => Len(rows) = n
    <2>1. PICK S : S = start..b
      OBVIOUS
    <2>2. S \in SUBSET Nat /\ Smallest(rows, S, n)
      BY <1>5, <1>6, <2>1
    <2>3. rows \in Seq(S) /\ rows \in Seq(Nat) /\ Climbing(rows) /\ Len(rows) \in 0..n
      BY <2>2, SmallestFacts
    <2>4. \A s \in S : s \notin ToSet(rows) => Len(rows) = n
      BY <2>2, SmallestFacts
    <2> QED BY <2>1, <2>3, <2>4
  <1>8. ASSUME rows # <<>> PROVE Last(rows) = start + n - 1
    <2>1. Head(rows) = start /\ Head(rows) = rows[1]
      BY <1>1, <1>7, <1>8, HeadTailProperties
    <2>2. \A i \in 1..Len(rows) : rows[i] = start + i - 1
      BY <1>1, <1>7, <2>1, RunCounts
    <2>3. Len(rows) \in 1..n
      BY <1>7, <1>8, RowsOf
    <2>4. PICK e : e = start + n - 1
      OBVIOUS
    <2>5. e \in start..b
      BY <1>3, <2>4
    <2>6. Len(rows) = n
      <3>1. CASE e \in ToSet(rows)
        <4>1. PICK k \in 1..Len(rows) : rows[k] = e
          BY <1>7, <3>1, RowsOf
        <4>2. start + k - 1 = start + n - 1 /\ k \in Nat
          BY <2>2, <2>3, <2>4, <4>1
        <4> QED BY <2>3, <4>1, <4>2
      <3>2. CASE e \notin ToSet(rows)
        BY <1>7, <2>5, <3>2
      <3> QED BY <3>1, <3>2
    <2>7. rows[n] = start + n - 1
      BY <2>2, <2>3, <2>6
    <2> QED BY <2>6, <2>7 DEF Last
  <1> QED BY <1>1, <1>8

-----------------------------------------------------------------------------
(* The pages of a card, proved.                                            *)
(* PagesRange places everything between the first and the last message.      *)
(* CutInv is what makes the list complete: the list has every message      *)
(* between two of its rows, a page that was answered stands beside its     *)
(* cut, and so do the rows of the list while a page asked for them is on   *)
(* its way; a page of another filter, of a list since replaced, or of a    *)
(* negative size, is the exception that "mixed" records when it is added.  RunInv is the same    *)
(* for consecutive numbers while the stream has no gaps.                   *)

PageType == [pre: BOOLEAN, names: SUBSET StreamSubjects, served: BOOLEAN, rows: Seq(Seqs),
             start: Nat, interval: Int, old: BOOLEAN, turned: BOOLEAN]
FilterType == [n: Nat, names: SUBSET StreamSubjects, interval: Int \ {0}, start: Seqs]

PageTypeInv ==
  /\ last \in 0..MaxSeq /\ alive \in SUBSET (1..last)
  /\ info \in [first: 1..MaxSeq + 1, last: 0..MaxSeq]
  /\ mounted \in BOOLEAN
  /\ list \in [set: BOOLEAN, rows: Seq(Seqs)]
  /\ filter \in [names: SUBSET StreamSubjects, interval: Intervals]
  /\ custom \in SUBSET StreamSubjects
  /\ page \in SUBSET PageType /\ \A p, q \in page : p = q
  /\ applying \in SUBSET FilterType
  /\ applies \in 0..MaxApplies
  /\ loaded \in SUBSET StreamSubjects /\ mixed \in BOOLEAN

PageInRange(p) ==
  /\ p.interval # 0 /\ (~p.pre => p.interval > 0)
  /\ info.first <= p.start /\ (~p.turned => Cut(p) <= last + 1)
  /\ p.pre /\ p.interval > 0 => p.start = info.first
  /\ \A r \in ToSet(p.rows) : r <= last

PagesRange ==
  /\ \A s \in alive : info.first <= s
  /\ info.first <= last + 1 /\ info.last <= last
  /\ \A r \in Rows : r <= last
  /\ ~list.set => list.rows = <<>>
  /\ \A p \in page : PageInRange(p)

PageCut(p) == ~p.turned =>
  /\ p.served => Beside(Cut(p), Match(p.names), ToSet(p.rows))
  /\ ~p.old /\ ~mixed /\ p.names = loaded => Beside(Cut(p), Match(loaded), Rows)

CutInv ==
  /\ ~mixed => Between(Match(loaded), Rows)
  /\ \A p \in page : PageCut(p)

PageRun(p) == ~p.turned =>
  /\ p.served /\ p.names = {} /\ p.rows # <<>> =>
       Run(p.rows) /\ IF p.pre THEN Last(p.rows) = Cut(p) - 1 ELSE Head(p.rows) = Cut(p)
  /\ ~p.old /\ list.rows # <<>> =>
       IF p.pre THEN Head(list.rows) = Cut(p) ELSE Last(list.rows) = Cut(p) - 1

RunInv ==
  NoGaps => /\ ~mixed /\ loaded = {} => Run(list.rows)
            /\ \A p \in page : PageRun(p)

PagesInv == PageTypeInv /\ PagesRange /\ CutInv /\ RunInv

LEMMA PagesInvNumbers ==
  ASSUME PageTypeInv
  PROVE  /\ StreamHas /\ MaxSeq \in Nat /\ last \in Nat /\ info.first \in Nat /\ info.last \in Nat
         /\ info.first \in 1..MaxSeq + 1
         /\ alive \in SUBSET Nat /\ \A s \in alive : s \in Nat /\ s <= last
         /\ list.rows \in Seq(Seqs) /\ list.set \in BOOLEAN
         /\ Rows \in SUBSET Nat /\ Rows \in SUBSET Seqs
         /\ filter.names \in SUBSET StreamSubjects /\ filter.interval \in Intervals
         /\ filter.interval \in Int \ {0}
  <1>1. MaxSeq \in Nat /\ Intervals \in SUBSET (Int \ {0})
    BY StreamAssumption
  <1>2. last \in Nat /\ alive \in SUBSET (1..last) /\ \A s \in alive : s \in Nat /\ s <= last
    BY <1>1 DEF PageTypeInv
  <1>3. info.first \in 1..MaxSeq + 1 /\ info.first \in Nat /\ info.last \in Nat
    BY <1>1 DEF PageTypeInv
  <1>4. list.rows \in Seq(Seqs) /\ list.set \in BOOLEAN
    BY DEF PageTypeInv
  <1>5. \A r \in Rows : r \in Seqs
    BY <1>4, RowsOf DEF Rows
  <1>6. \A r \in Seqs : r \in Nat
    BY <1>1 DEF Seqs
  <1>7. filter.names \in SUBSET StreamSubjects /\ filter.interval \in Intervals
    BY DEF PageTypeInv
  <1> QED BY <1>1, <1>2, <1>3, <1>4, <1>5, <1>6, <1>7 DEF StreamHas

\* What the run checks follows.
LEMMA PagesInvSuffices == PagesInv => PagesSound
  <1> SUFFICES ASSUME PagesInv PROVE PagesSound
    OBVIOUS
  <1> USE DEF PagesInv
  <1>1. StreamTypeOK
    <2>1. Cardinality(page) <= 1
      <3>1. CASE page = {}
        BY <3>1, FS_EmptySet
      <3>2. CASE page # {}
        <4>1. PICK p \in page : TRUE
          BY <3>2
        <4>2. page = {p}
          BY <4>1 DEF PageTypeInv
        <4> QED BY <4>2, FS_Singleton
      <3> QED BY <3>1, <3>2
    <2>2. list.set \in BOOLEAN /\ list.rows \in Seq(Seqs)
      BY DEF PageTypeInv
    <2>3. \A p \in page : p.pre \in BOOLEAN /\ p.names \subseteq StreamSubjects /\ p.rows \in Seq(Seqs)
      BY DEF PageTypeInv, PageType
    <2>4. /\ alive \subseteq 1..last /\ last \in 0..MaxSeq
          /\ info \in [first: 1..MaxSeq + 1, last: 0..MaxSeq]
          /\ mounted \in BOOLEAN
          /\ filter \in [names: SUBSET StreamSubjects, interval: Intervals]
          /\ custom \subseteq StreamSubjects
          /\ applies \in 0..MaxApplies
          /\ loaded \subseteq StreamSubjects /\ mixed \in BOOLEAN
      BY DEF PageTypeInv
    <2> QED BY <2>1, <2>2, <2>3, <2>4 DEF StreamTypeOK
  <1>2. Complete
    <2> SUFFICES ASSUME ~mixed, Rows # {}, NEW s \in Match(loaded), Min(Rows) <= s, s <= Max(Rows)
                 PROVE  s \in Rows
      BY DEF Complete
    <2>1. Rows \in SUBSET (1..MaxSeq) /\ MaxSeq \in Nat
      BY PagesInvNumbers DEF Seqs
    <2>2. Min(Rows) \in Rows /\ Max(Rows) \in Rows
      BY <2>1, Extremes
    <2>3. Between(Match(loaded), Rows)
      BY DEF CutInv
    <2> QED BY <2>2, <2>3 DEF Between
  <1>3. Contiguous
    BY DEF Contiguous, RunInv, Run
  <1> QED BY <1>1, <1>2, <1>3 DEF PagesSound

-----------------------------------------------------------------------------
(* Requests. *)

\* What the list and the stream say stays when only the card's other state changes.
ListStays == UNCHANGED <<alive, last, info, list, loaded, mixed>>

LEMMA QuietKeepsPages ==
  ASSUME PagesInv, PageTypeInv', ListStays, page' \in SUBSET page
  PROVE  PagesInv'
  <1>1. alive' = alive /\ last' = last /\ info' = info /\ list' = list /\ loaded' = loaded /\ mixed' = mixed
    BY DEF ListStays
  <1>2. PagesRange'
    BY <1>1 DEF PagesInv, PagesRange, PageInRange, Rows, Cut
  <1>3. CutInv'
    BY <1>1 DEF PagesInv, CutInv, PageCut, Rows, Match, Between, Beside, Cut
  <1>4. RunInv'
    BY <1>1 DEF PagesInv, RunInv, PageRun, NoGaps, Run, Cut
  <1> QED BY <1>2, <1>3, <1>4 DEF PagesInv

LEMMA PageKeepsPages ==
  ASSUME PagesInv, PageTypeInv', ListStays, NEW q, page' = {q},
         PageInRange(q), PageCut(q), NoGaps => PageRun(q)
  PROVE  PagesInv'
  <1>1. alive' = alive /\ last' = last /\ info' = info /\ list' = list /\ loaded' = loaded /\ mixed' = mixed
    BY DEF ListStays
  <1>2. PageInRange(q)' /\ PageCut(q)' /\ (NoGaps' => PageRun(q)')
    BY <1>1 DEF PageInRange, PageCut, PageRun, Rows, Match, Between, Beside, Cut, NoGaps, Run
  <1>3. \A p \in page' : p = q
    OBVIOUS
  <1>4. PagesRange'
    BY <1>1, <1>2, <1>3 DEF PagesInv, PagesRange, Rows
  <1>5. CutInv'
    BY <1>1, <1>2, <1>3 DEF PagesInv, CutInv, Rows, Match, Between
  <1>6. RunInv'
    BY <1>1, <1>2, <1>3 DEF PagesInv, RunInv, NoGaps, Run
  <1> QED BY <1>4, <1>5, <1>6 DEF PagesInv

\* What a request asks for, turned round or not.
Asks(q, start, interval, names) ==
  /\ q \in PageType /\ ~q.served /\ ~q.old /\ q.names = names /\ q.rows = <<>>
  /\ info.first <= start /\ q.pre = (interval < 0) /\ q.turned = (filter.interval < 0)
  /\ Cut(q) = IF interval < 0 THEN start + 1 ELSE start
  /\ q.interval # 0 /\ (~q.pre => q.interval > 0) /\ info.first <= q.start
  /\ q.pre /\ q.interval > 0 => q.start = info.first

LEMMA FetchAsks ==
  ASSUME PageTypeInv, NEW start \in Int, NEW interval \in Int \ {0}, NEW names \in SUBSET StreamSubjects,
         FetchWithFilter(start, interval, names)
  PROVE  \/ page' = page
         \/ \E q : page' = {q} /\ Asks(q, start, interval, names)
  <1>1. info.first \in Nat /\ <<>> \in Seq(Seqs)
    BY PagesInvNumbers
  <1>2. CASE start < info.first
    BY <1>2 DEF FetchWithFilter
  <1>3. CASE ~(start < info.first)
    <2>1. PICK q : q = [pre |-> Clamped(start, interval).pre, names |-> names, served |-> FALSE,
                        rows |-> <<>>, start |-> Clamped(start, interval).start,
                        interval |-> Clamped(start, interval).interval, old |-> FALSE,
                        turned |-> filter.interval < 0]
      OBVIOUS
    <2>2. page' = {q}
      BY <1>3, <2>1 DEF FetchWithFilter
    <2>3. start \in Nat /\ info.first <= start
      BY <1>1, <1>3
    <2>4. CASE start + interval < info.first
      <3>1. /\ q.start = info.first /\ q.interval = start - info.first + 1 /\ q.pre = TRUE
            /\ q.names = names /\ ~q.served /\ ~q.old /\ q.rows = <<>>
            /\ q.turned = (filter.interval < 0)
        BY <2>1, <2>4 DEF Clamped
      <3>2. q \in PageType
        <4>1. start - info.first + 1 \in Int /\ (filter.interval < 0) \in BOOLEAN
          BY <1>1
        <4> QED BY <1>1, <2>1, <2>4, <4>1 DEF Clamped, PageType
      <3>3. interval < 0 /\ q.interval > 0
        BY <1>1, <2>3, <2>4, <3>1
      <3>4. Cut(q) = start + 1
        BY <1>1, <2>3, <3>1, <3>3 DEF Cut
      <3>5. q.pre = (interval < 0)
        BY <3>1, <3>3
      <3>6. Asks(q, start, interval, names)
        BY <1>1, <2>3, <3>1, <3>2, <3>3, <3>4, <3>5 DEF Asks
      <3> QED BY <2>2, <3>6
    <2>5. CASE ~(start + interval < info.first)
      <3>1. /\ q.start = start /\ q.interval = interval /\ q.pre = (interval < 0)
            /\ q.names = names /\ ~q.served /\ ~q.old /\ q.rows = <<>>
            /\ q.turned = (filter.interval < 0)
        BY <2>1, <2>5 DEF Clamped
      <3>2. q \in PageType
        <4>1. (interval < 0) \in BOOLEAN /\ (filter.interval < 0) \in BOOLEAN
          OBVIOUS
        <4> QED BY <1>1, <2>1, <2>3, <2>5, <4>1 DEF Clamped, PageType
      <3>3. Cut(q) = IF interval < 0 THEN start + 1 ELSE start
        BY <3>1 DEF Cut
      <3>4. /\ q.interval # 0 /\ (~q.pre => q.interval > 0)
            /\ (q.pre /\ q.interval > 0 => q.start = info.first)
        <4>1. CASE interval < 0
          <5>1. q.pre = TRUE
            BY <3>1, <4>1
          <5>2. ~(interval > 0) /\ interval # 0
            BY <4>1
          <5> QED BY <3>1, <5>1, <5>2
        <4>2. CASE ~(interval < 0)
          <5>1. q.pre = FALSE
            <6>1. (interval < 0) = FALSE
              BY <4>2
            <6> QED BY <3>1, <6>1, Zenon
          <5>2. interval > 0 /\ interval # 0
            BY <4>2
          <5> QED BY <3>1, <5>1, <5>2
        <4> QED BY <4>1, <4>2
      <3> QED BY <2>2, <2>3, <3>1, <3>2, <3>3, <3>4 DEF Asks
    <2> QED BY <2>4, <2>5
  <1> QED BY <1>2, <1>3

\* A page that is asked for next to the list, or of no list, keeps the invariant.
LEMMA AskKeepsPages ==
  ASSUME PagesInv, ListStays, NEW q, page' = {q},
         UNCHANGED <<filter, custom, applying, applies>>, mounted' \in BOOLEAN,
         NEW start \in Int, NEW interval \in Int \ {0}, NEW names, Asks(q, start, interval, names),
         ~q.turned => IF interval < 0 THEN start <= last ELSE start <= last + 1,
         list.rows # <<>> /\ ~q.turned =>
           IF interval < 0 THEN start = Head(list.rows) - 1 ELSE start = Last(list.rows) + 1
  PROVE  PagesInv'
  <1>1. /\ info.first \in Nat /\ last \in Nat /\ list.rows \in Seq(Seqs) /\ Rows \in SUBSET Nat
        /\ Match(loaded) \in SUBSET Nat
    BY PagesInvNumbers, MatchesAreNumbers DEF PagesInv
  <1>2. PageTypeInv'
    BY DEF PagesInv, PageTypeInv, ListStays, Asks
  <1>3. PageInRange(q)
    <2>1. ToSet(q.rows) = {}
      BY DEF Asks, ToSet
    <2>2. ~q.turned => Cut(q) <= last + 1
      BY <1>1 DEF Asks
    <2> QED BY <2>1, <2>2 DEF Asks, PageInRange
  <1>4. CASE list.rows = <<>>
    <2>1. Rows = {}
      BY <1>4 DEF Rows, ToSet
    <2>2. PageCut(q)
      BY <2>1 DEF Asks, PageCut, Beside
    <2>3. PageRun(q)
      BY <1>4 DEF Asks, PageRun
    <2> QED BY <1>2, <1>3, <2>2, <2>3, PageKeepsPages
  <1>5. CASE q.turned
    <2>1. PageCut(q) /\ PageRun(q)
      BY <1>5 DEF PageCut, PageRun
    <2> QED BY <1>2, <1>3, <2>1, PageKeepsPages
  <1>6. CASE list.rows # <<>> /\ ~q.turned
    <2>1. PICK h : h = IF interval < 0 THEN Head(list.rows) ELSE Last(list.rows)
      OBVIOUS
    <2>2. Len(list.rows) \in Nat /\ Len(list.rows) # 0
      BY <1>1, <1>6, RowsOf
    <2>3. 1 \in 1..Len(list.rows) /\ Len(list.rows) \in 1..Len(list.rows)
      BY <2>2
    <2>4. Head(list.rows) = list.rows[1] /\ Last(list.rows) = list.rows[Len(list.rows)]
      BY <1>1, <1>6, HeadTailProperties DEF Last
    <2>5. Head(list.rows) \in Rows /\ Last(list.rows) \in Rows
      BY <1>1, <2>3, <2>4, RowsOf DEF Rows
    <2>6. h \in Rows /\ h \in Nat
      BY <1>1, <2>1, <2>5
    <2>7. Cut(q) = (IF interval < 0 THEN h ELSE h + 1) /\ q.pre = (interval < 0)
      BY <1>1, <1>6, <2>1, <2>6 DEF Asks
    <2>8. PageCut(q)
      <3>1. ~mixed => Between(Match(loaded), Rows)
        BY DEF PagesInv, CutInv
      <3>2. ~mixed => Beside(Cut(q), Match(loaded), Rows)
        BY <1>1, <2>6, <2>7, <3>1, AskedNextTo
      <3> QED BY <3>2 DEF Asks, PageCut
    <2>9. PageRun(q)
      <3>1. CASE interval < 0
        <4>1. q.pre = TRUE /\ Head(list.rows) = Cut(q)
          BY <2>1, <2>7, <3>1
        <4> QED BY <4>1 DEF Asks, PageRun
      <3>2. CASE ~(interval < 0)
        <4>1. q.pre = FALSE
          <5>1. (interval < 0) = FALSE
            BY <3>2
          <5> QED BY <2>7, <5>1, Zenon
        <4>2. Last(list.rows) = Cut(q) - 1
          BY <2>1, <2>6, <2>7, <3>2
        <4> QED BY <4>1, <4>2 DEF Asks, PageRun
      <3> QED BY <3>1, <3>2
    <2> QED BY <1>2, <1>3, <2>8, <2>9, PageKeepsPages
  <1> QED BY <1>4, <1>5, <1>6

LEMMA MountKeepsPages ==
  ASSUME PagesInv, Mount
  PROVE  PagesInv'
  <1>1. PageTypeInv /\ ListStays /\ mounted' = TRUE /\ UNCHANGED <<filter, custom, applying, applies>>
    BY DEF PagesInv, Mount, ListStays, serverVars, histVars2
  <1>2. /\ filter.interval \in Int \ {0} /\ info.last \in Nat /\ last \in Nat /\ info.last <= last
        /\ {} \in SUBSET StreamSubjects
    BY <1>1, PagesInvNumbers DEF PagesInv, PagesRange
  <1>3. CASE page' = page
    <2>1. PageTypeInv'
      BY <1>1, <1>3 DEF PageTypeInv, ListStays
    <2> QED BY <1>1, <1>3, <2>1, QuietKeepsPages
  <1>4. CASE page' # page
    <2>1. ~list.set /\ FetchWithFilter(info.last, -filter.interval, {})
      BY <1>4 DEF Mount
    <2>2. list.rows = <<>>
      BY <2>1 DEF PagesInv, PagesRange
    <2>3. PICK start \in Int : start = info.last
      BY <1>2
    <2>4. PICK interval \in Int \ {0} : interval = -filter.interval
      BY <1>2
    <2>5. PICK q : page' = {q} /\ Asks(q, start, interval, {})
      BY <1>1, <1>2, <1>4, <2>1, <2>3, <2>4, FetchAsks
    <2>6. start <= last /\ start <= last + 1
      BY <1>2, <2>3
    <2> QED BY <1>1, <2>2, <2>5, <2>6, AskKeepsPages
  <1> QED BY <1>3, <1>4

LEMMA FetchKeepsPages ==
  ASSUME PagesInv, FetchPrev \/ FetchNext
  PROVE  PagesInv'
  <1>1. /\ PageTypeInv /\ ListStays /\ mounted' \in BOOLEAN /\ UNCHANGED <<filter, custom, applying, applies>>
        /\ mounted' = mounted /\ list.rows # <<>>
    BY DEF PagesInv, PageTypeInv, FetchPrev, FetchNext, ListStays, serverVars, histVars2
  <1>2. /\ filter.interval \in Int \ {0} /\ last \in Nat /\ list.rows \in Seq(Seqs)
        /\ Rows \in SUBSET Nat /\ filter.names \in SUBSET StreamSubjects
    BY <1>1, PagesInvNumbers
  <1>3. PICK names \in SUBSET StreamSubjects : names = filter.names \cup custom
    BY <1>1, <1>2 DEF PageTypeInv
  <1>4. /\ Head(list.rows) \in Nat /\ Head(list.rows) <= last
        /\ Last(list.rows) \in Nat /\ Last(list.rows) <= last
    <2>1. Len(list.rows) \in Nat /\ Len(list.rows) # 0
      BY <1>1, <1>2, RowsOf
    <2>2. 1 \in 1..Len(list.rows) /\ Len(list.rows) \in 1..Len(list.rows)
      BY <2>1
    <2>3. Head(list.rows) = list.rows[1] /\ Last(list.rows) = list.rows[Len(list.rows)]
      BY <1>1, <1>2, HeadTailProperties DEF Last
    <2>4. Head(list.rows) \in Rows /\ Last(list.rows) \in Rows
      BY <1>2, <2>2, <2>3, RowsOf DEF Rows
    <2> QED BY <1>2, <2>4 DEF PagesInv, PagesRange
  <1>5. CASE page' = page
    <2>1. PageTypeInv'
      BY <1>1, <1>5 DEF PageTypeInv, ListStays
    <2> QED BY <1>1, <1>5, <2>1, QuietKeepsPages
  <1>6. CASE page' # page /\ FetchPrev
    <2>1. PICK start \in Int : start = Head(list.rows) - 1
      BY <1>4
    <2>2. PICK interval \in Int \ {0} : interval = -filter.interval
      BY <1>2
    <2>3. FetchWithFilter(start, interval, names)
      BY <1>3, <1>6, <2>1, <2>2 DEF FetchPrev
    <2>4. PICK q : page' = {q} /\ Asks(q, start, interval, names)
      BY <1>1, <1>6, <2>3, FetchAsks
    <2>5. start <= last
      BY <1>2, <1>4, <2>1
    <2>6. ~q.turned => interval < 0
      <3>1. CASE filter.interval < 0
        BY <2>4, <3>1 DEF Asks
      <3>2. CASE ~(filter.interval < 0)
        BY <1>2, <2>2, <3>2
      <3> QED BY <3>1, <3>2
    <2> QED BY <1>1, <2>1, <2>4, <2>5, <2>6, AskKeepsPages
  <1>7. CASE page' # page /\ FetchNext
    <2>1. PICK start \in Int : start = Last(list.rows) + 1
      BY <1>4
    <2>2. PICK interval \in Int \ {0} : interval = filter.interval
      BY <1>2
    <2>3. FetchWithFilter(start, interval, names)
      BY <1>3, <1>7, <2>1, <2>2 DEF FetchNext
    <2>4. PICK q : page' = {q} /\ Asks(q, start, interval, names)
      BY <1>1, <1>7, <2>3, FetchAsks
    <2>5. start <= last + 1
      BY <1>2, <1>4, <2>1
    <2>6. ~q.turned => ~(interval < 0)
      BY <1>2, <2>2, <2>4 DEF Asks
    <2> QED BY <1>1, <2>1, <2>4, <2>5, <2>6, AskKeepsPages
  <1> QED BY <1>5, <1>6, <1>7

LEMMA QuietActionsKeepPages ==
  ASSUME PagesInv,
         \/ Unmount \/ PageFails
         \/ \E names \in SUBSET StreamSubjects : EditCustom(names)
         \/ \E names \in SUBSET StreamSubjects, i \in Intervals, start \in Seqs, byTime \in BOOLEAN :
              FilterApply(names, i, start, byTime)
         \/ UNCHANGED streamVars
  PROVE  PagesInv'
  <1>1. PageTypeInv /\ MaxApplies \in Nat
    BY StreamAssumption DEF PagesInv
  <1>2. CASE Unmount \/ PageFails \/ UNCHANGED streamVars
    <2>1. /\ ListStays /\ UNCHANGED <<filter, custom, applying, applies>>
          /\ mounted' \in BOOLEAN /\ page' \in SUBSET page
      BY <1>1, <1>2 DEF PageTypeInv, Unmount, PageFails, NoPage, ListStays, streamVars,
         serverVars,
                        cardVars, histVars2
    <2>2. PageTypeInv'
      BY <1>1, <2>1 DEF PageTypeInv, ListStays
    <2> QED BY <2>1, <2>2, QuietKeepsPages
  <1>3. CASE \E names \in SUBSET StreamSubjects : EditCustom(names)
    <2>1. /\ ListStays /\ UNCHANGED <<filter, applying, applies, mounted, page>>
          /\ custom' \in SUBSET StreamSubjects
      BY <1>3 DEF EditCustom, ListStays, serverVars, histVars2
    <2>2. PageTypeInv'
      BY <1>1, <2>1 DEF PageTypeInv, ListStays
    <2> QED BY <2>1, <2>2, QuietKeepsPages
  <1>4. CASE \E names \in SUBSET StreamSubjects, i \in Intervals, start \in Seqs, byTime \in BOOLEAN :
               FilterApply(names, i, start, byTime)
    <2>1. PICK names \in SUBSET StreamSubjects, i \in Intervals, start \in Seqs, byTime \in BOOLEAN :
            FilterApply(names, i, start, byTime)
      BY <1>4
    <2> DEFINE asked == IF byTime /\ i < 0 THEN -i ELSE i
    <2>2. /\ ListStays /\ UNCHANGED <<custom, mounted, page>>
          /\ filter' = [names |-> names, interval |-> i]
          /\ applies < MaxApplies /\ applies' = applies + 1
          /\ applying' = applying \cup
               {[n |-> applies + 1, names |-> names \cup custom, start |-> start, interval |-> asked]}
      BY <2>1 DEF FilterApply, ListStays, serverVars
    <2>3. applies \in Nat /\ applies' \in 0..MaxApplies /\ applies + 1 \in Nat
      BY <1>1, <2>2 DEF PageTypeInv
    <2>4. names \cup custom \in SUBSET StreamSubjects
      BY <1>1 DEF PageTypeInv
    <2>5. applying' \in SUBSET FilterType
      <3>0. asked \in Int \ {0}
        <4>1. i \in Int \ {0}
          BY StreamAssumption
        <4> QED BY <4>1
      <3>1. [n |-> applies + 1, names |-> names \cup custom, start |-> start, interval |-> asked] \in FilterType
        BY <2>3, <2>4, <3>0 DEF FilterType
      <3> QED BY <1>1, <2>2, <3>1 DEF PageTypeInv
    <2>6. PageTypeInv'
      BY <1>1, <2>2, <2>3, <2>5 DEF PageTypeInv, ListStays
    <2> QED BY <2>2, <2>6, QuietKeepsPages
  <1> QED BY <1>2, <1>3, <1>4

-----------------------------------------------------------------------------
(* Answers. *)

LEMMA AnswersAreMessages ==
  ASSUME PageTypeInv, NEW start \in Nat, NEW names, NEW n \in Nat \ {0}, NEW rows,
         rows = Forward(start, names, n) \/ rows = Backward(start, names, n)
  PROVE  rows \in Seq(Seqs) /\ \A r \in ToSet(rows) : r <= last
  <1>1. StreamHas /\ last \in Nat /\ last <= MaxSeq /\ MaxSeq \in Nat
    BY PagesInvNumbers DEF PageTypeInv
  <1>2. PICK M : M = Match(names) /\ M \in SUBSET (1..last) /\ M \in SUBSET Nat
    BY <1>1, MatchesAreNumbers
  <1>3. \E S \in SUBSET M : rows \in Seq(S)
    <2>1. CASE rows = Forward(start, names, n)
      <3>1. PICK S : S = {s \in M : s >= start}
        OBVIOUS
      <3>2. Smallest(rows, S, n)
        BY <1>1, <1>2, <2>1, <3>1, ForwardFacts
      <3> QED BY <3>1, <3>2 DEF Smallest, Some
    <2>2. CASE rows = Backward(start, names, n)
      <3>1. PICK S : S = {s \in M : s <= start}
        OBVIOUS
      <3>2. Largest(rows, S, n)
        BY <1>1, <1>2, <2>2, <3>1, BackwardFacts
      <3> QED BY <3>1, <3>2 DEF Largest, Some
    <2> QED BY <2>1, <2>2
  <1>4. PICK S \in SUBSET M : rows \in Seq(S)
    BY <1>3
  <1>5. \A s \in M : s \in Seqs /\ s <= last
    BY <1>1, <1>2 DEF Seqs
  <1>6. S \in SUBSET Seqs
    BY <1>5
  <1> QED BY <1>4, <1>5, <1>6, WiderSeq, RowsOf

\* The answer to a page, whatever the stream holds when it is read.
LEMMA AnswerToPage ==
  ASSUME PagesInv, NEW p \in page, NEW rows, rows = Answer(p.start, p.names, p.interval)
  PROVE  /\ rows \in Seq(Seqs) /\ \A r \in ToSet(rows) : r <= last
         /\ ~p.turned => Beside(Cut(p), Match(p.names), ToSet(rows))
         /\ ~p.turned /\ NoGaps /\ p.names = {} /\ rows # <<>> =>
              Run(rows) /\ IF p.pre THEN Last(rows) = Cut(p) - 1 ELSE Head(rows) = Cut(p)
  <1>1. /\ PageTypeInv /\ p \in PageType /\ PageInRange(p) /\ StreamHas /\ last \in Nat
        /\ info.first \in Nat /\ \A s \in alive : info.first <= s
    BY PagesInvNumbers DEF PagesInv, PageTypeInv, PagesRange
  <1>2. p.start \in Nat /\ p.interval \in Int /\ p.pre \in BOOLEAN /\ p.interval # 0
    BY <1>1 DEF PageType, PageInRange
  <1>3. CASE ~p.pre
    <2>1. p.interval \in Nat \ {0} /\ p.interval > 0 /\ Cut(p) = p.start /\ info.first <= p.start
      BY <1>1, <1>2, <1>3 DEF PageInRange, Cut
    <2>2. rows = Forward(p.start, p.names, p.interval)
      BY <2>1 DEF Answer
    <2>3. rows \in Seq(Seqs) /\ \A r \in ToSet(rows) : r <= last
      BY <1>1, <1>2, <2>1, <2>2, AnswersAreMessages
    <2>4. Beside(Cut(p), Match(p.names), ToSet(rows))
      BY <1>1, <1>2, <2>1, <2>2, ForwardBeside
    <2>5. ASSUME NoGaps, p.names = {}, rows # <<>> PROVE Run(rows) /\ Head(rows) = Cut(p)
      BY <1>1, <1>2, <2>1, <2>2, <2>5, ForwardRuns
    <2> QED BY <1>3, <2>3, <2>4, <2>5
  <1>4. CASE p.pre /\ p.interval < 0
    <2>1. PICK n \in Nat \ {0} : n = -p.interval
      BY <1>2, <1>4
    <2>2. Cut(p) = p.start + 1 /\ Cut(p) - 1 = p.start /\ (~p.turned => p.start <= last)
      BY <1>1, <1>2, <1>4 DEF PageInRange, Cut
    <2>3. rows = Backward(p.start, p.names, n)
      BY <1>2, <1>4, <2>1 DEF Answer
    <2>4. rows \in Seq(Seqs) /\ \A r \in ToSet(rows) : r <= last
      BY <1>1, <1>2, <2>3, AnswersAreMessages
    <2>5. Beside(Cut(p), Match(p.names), ToSet(rows))
      BY <1>1, <1>2, <2>2, <2>3, BackwardBeside
    <2>6. ASSUME ~p.turned, NoGaps, p.names = {}, rows # <<>> PROVE Run(rows) /\ Last(rows) = Cut(p) - 1
      BY <1>1, <1>2, <2>2, <2>3, <2>6, BackwardRuns
    <2> QED BY <1>4, <2>4, <2>5, <2>6
  <1>5. CASE p.pre /\ ~(p.interval < 0)
    <2>1. PICK n \in Nat \ {0} : n = p.interval
      BY <1>2, <1>5
    <2>2. /\ p.interval > 0 /\ p.start = info.first /\ Cut(p) = p.start + n
          /\ (~p.turned => p.start + n <= last + 1) /\ Cut(p) - 1 = p.start + n - 1
      BY <1>1, <1>2, <1>5, <2>1 DEF PageInRange, Cut
    <2>3. rows = Forward(p.start, p.names, n)
      BY <2>1, <2>2 DEF Answer
    <2>4. rows \in Seq(Seqs) /\ \A r \in ToSet(rows) : r <= last
      BY <1>1, <1>2, <2>3, AnswersAreMessages
    <2>5. Beside(Cut(p), Match(p.names), ToSet(rows))
      BY <1>1, <1>2, <2>2, <2>3, TurnedBeside
    <2>6. ASSUME ~p.turned, NoGaps, p.names = {}, rows # <<>> PROVE Run(rows) /\ Last(rows) = Cut(p) - 1
      BY <1>1, <1>2, <2>2, <2>3, <2>6, TurnedRuns
    <2> QED BY <1>5, <2>4, <2>5, <2>6
  <1> QED BY <1>3, <1>4, <1>5

LEMMA ServeKeepsPages ==
  ASSUME PagesInv, ServePage
  PROVE  PagesInv'
  <1>1. /\ PageTypeInv /\ ListStays /\ UNCHANGED <<mounted, filter, custom, applying, applies>>
    BY DEF PagesInv, ServePage, ListStays, serverVars, histVars2
  <1>2. PICK p \in page :
          /\ ~p.served
          /\ page' = {[p EXCEPT !.served = TRUE, !.rows = Answer(p.start, p.names, p.interval)]}
    BY DEF ServePage
  <1>3. PICK rows : rows = Answer(p.start, p.names, p.interval)
    OBVIOUS
  <1>4. PICK q : q = [p EXCEPT !.served = TRUE, !.rows = rows]
    OBVIOUS
  <1>5. /\ rows \in Seq(Seqs) /\ \A r \in ToSet(rows) : r <= last
        /\ ~p.turned => Beside(Cut(p), Match(p.names), ToSet(rows))
        /\ ~p.turned /\ NoGaps /\ p.names = {} /\ rows # <<>> =>
              Run(rows) /\ IF p.pre THEN Last(rows) = Cut(p) - 1 ELSE Head(rows) = Cut(p)
    BY <1>3, AnswerToPage
  <1>6. p \in PageType /\ PageInRange(p) /\ PageCut(p) /\ (NoGaps => PageRun(p))
    BY <1>1 DEF PagesInv, PageTypeInv, PagesRange, CutInv, RunInv
  <1>7. /\ q \in PageType /\ q.pre = p.pre /\ q.names = p.names /\ q.rows = rows /\ q.old = p.old
        /\ q.start = p.start /\ q.interval = p.interval /\ q.turned = p.turned
    BY <1>4, <1>5, <1>6 DEF PageType
  <1>8. Cut(q) = Cut(p)
    BY <1>7 DEF Cut
  <1>9. PageInRange(q)
    BY <1>5, <1>6, <1>7, <1>8 DEF PageInRange
  <1>10. PageCut(q)
    BY <1>5, <1>6, <1>7, <1>8 DEF PageCut
  <1>11. NoGaps => PageRun(q)
    BY <1>5, <1>6, <1>7, <1>8 DEF PageRun
  <1>12. page' = {q}
    BY <1>2, <1>3, <1>4
  <1>13. PageTypeInv'
    BY <1>1, <1>7, <1>12 DEF PageTypeInv, ListStays
  <1> QED BY <1>1, <1>9, <1>10, <1>11, <1>12, <1>13, PageKeepsPages

LEMMA AddKeepsPages ==
  ASSUME PagesInv, AddPage
  PROVE  PagesInv'
  <1>1. /\ PageTypeInv /\ UNCHANGED <<alive, last, info, mounted, filter, custom, applying, applies, loaded>>
    BY DEF PagesInv, AddPage, serverVars
  <1>2. PICK p \in page :
          /\ p.served /\ page' = NoPage
          /\ list' = [set |-> TRUE, rows |-> IF p.pre THEN p.rows \o list.rows ELSE list.rows \o p.rows]
          /\ mixed' = (mixed \/ p.names # loaded \/ p.old \/ p.turned)
    BY DEF AddPage
  <1>3. /\ p \in PageType /\ PageInRange(p) /\ PageCut(p) /\ (NoGaps => PageRun(p))
        /\ p.rows \in Seq(Seqs) /\ list.rows \in Seq(Seqs) /\ last \in Nat /\ p.pre \in BOOLEAN
    BY <1>1, PagesInvNumbers DEF PagesInv, PageTypeInv, PagesRange, CutInv, RunInv, PageType
  <1>4. PICK x \in Seq(Seqs) : x = IF p.pre THEN p.rows ELSE list.rows
    BY <1>3
  <1>5. PICK y \in Seq(Seqs) : y = IF p.pre THEN list.rows ELSE p.rows
    BY <1>3
  <1>6. list'.rows = x \o y /\ list'.set = TRUE /\ list' = [set |-> TRUE, rows |-> x \o y]
    BY <1>2, <1>4, <1>5
  <1>7. /\ x \o y \in Seq(Seqs)
        /\ ToSet(x \o y) = ToSet(x) \cup ToSet(y)
    BY RowsJoined
  <1>8. Rows' = Rows \cup ToSet(p.rows)
    BY <1>4, <1>5, <1>6, <1>7 DEF Rows
  <1>9. page' = {}
    BY <1>2 DEF NoPage
  <1>10. PageTypeInv'
    <2>1. mixed' \in BOOLEAN
      BY <1>2
    <2>2. list' \in [set: BOOLEAN, rows: Seq(Seqs)]
      BY <1>6, <1>7
    <2> QED BY <1>1, <1>9, <2>1, <2>2 DEF PageTypeInv
  <1>11. PagesRange'
    <2>1. \A r \in Rows' : r <= last'
      BY <1>1, <1>3, <1>8 DEF PagesInv, PagesRange, PageInRange
    <2> QED BY <1>1, <1>6, <1>9, <2>1 DEF PagesInv, PagesRange
  <1>12. ASSUME ~mixed' PROVE ~mixed /\ p.names = loaded /\ ~p.old /\ ~p.turned
    BY <1>2, <1>12
  <1>13. ASSUME ~mixed' PROVE Between(Match(loaded), Rows \cup ToSet(p.rows))
    <2>1. Beside(Cut(p), Match(loaded), Rows) /\ Beside(Cut(p), Match(loaded), ToSet(p.rows))
      BY <1>2, <1>3, <1>12, <1>13 DEF PageCut
    <2>2. PICK R : R = Rows \cup ToSet(p.rows)
      OBVIOUS
    <2>3. Beside(Cut(p), Match(loaded), R)
      BY <2>1, <2>2, BesideBoth
    <2>4. Cut(p) \in Nat
      BY <1>3 DEF PageType, PageInRange, Cut
    <2>5. R \in SUBSET Nat /\ Match(loaded) \in SUBSET Nat
      <3>1. \A r \in ToSet(p.rows) : r \in Seqs
        BY <1>3, RowsOf
      <3>2. \A r \in Seqs : r \in Nat
        BY DEF Seqs
      <3> QED BY <1>1, <2>2, <3>1, <3>2, PagesInvNumbers, MatchesAreNumbers
    <2> QED BY <2>2, <2>3, <2>4, <2>5, BesideIsBetween
  <1>14. CutInv'
    <2>1. Match(loaded)' = Match(loaded)
      BY <1>1 DEF Match
    <2>2. ~mixed' => Between(Match(loaded)', Rows')
      BY <1>8, <1>13, <2>1
    <2> QED BY <1>9, <2>2 DEF CutInv, Between
  <1>15. RunInv'
    <2> SUFFICES ASSUME NoGaps', ~mixed', loaded' = {} PROVE Run(x \o y)
      BY <1>6, <1>9 DEF RunInv, Run
    <2>1. NoGaps /\ loaded = {} /\ ~mixed /\ p.names = {} /\ ~p.old /\ ~p.turned
      BY <1>1, <1>12 DEF NoGaps
    <2>2. Run(list.rows) /\ PageRun(p)
      BY <1>3, <2>1 DEF PagesInv, RunInv
    <2>3. Run(p.rows)
      <3>1. CASE p.rows = <<>>
        BY <3>1 DEF Run
      <3>2. CASE p.rows # <<>>
        BY <1>2, <2>1, <2>2, <3>2 DEF PageRun
      <3> QED BY <3>1, <3>2
    <2>4. Cut(p) \in Nat
      BY <1>3 DEF PageType, PageInRange, Cut
    <2>5. x # <<>> /\ y # <<>> => Head(y) = Last(x) + 1
      BY <1>2, <1>4, <1>5, <2>1, <2>2, <2>4 DEF PageRun
    <2>6. Seqs \in SUBSET Nat /\ x \in Seq(Nat) /\ y \in Seq(Nat)
      <3>1. Seqs \in SUBSET Nat
        BY DEF Seqs
      <3> QED BY <3>1, WiderSeq
    <2>7. Run(x) /\ Run(y)
      BY <1>4, <1>5, <2>2, <2>3
    <2> QED BY <2>5, <2>6, <2>7, RunJoined
  <1> QED BY <1>10, <1>11, <1>14, <1>15 DEF PagesInv

LEMMA FilterKeepsPages ==
  ASSUME PagesInv, NEW a \in applying, NEW ok \in BOOLEAN, FilterAnswer(a, ok)
  PROVE  PagesInv'
  <1>1. /\ PageTypeInv /\ UNCHANGED <<alive, last, info, mounted, filter, custom, applies>>
        /\ applying' \in SUBSET applying /\ a \in FilterType
    BY DEF PagesInv, PageTypeInv, FilterAnswer, serverVars
  <1>2. CASE ~ok
    <2>1. ListStays /\ page' = page
      BY <1>1, <1>2 DEF FilterAnswer, ListStays
    <2>2. PageTypeInv'
      BY <1>1, <2>1 DEF PageTypeInv, ListStays
    <2> QED BY <2>1, <2>2, QuietKeepsPages
  <1>3. CASE ok
    <2>1. PICK start \in Nat, asked \in Int \ {0} : start = a.start /\ asked = a.interval
      <3>1. a.start \in Seqs /\ a.interval \in Int \ {0}
        BY <1>1 DEF FilterType
      <3>2. a.start \in Nat
        BY <3>1 DEF Seqs
      <3> QED BY <3>1, <3>2
    <2>2. PICK rows : rows = Answer(start, a.names, asked)
      OBVIOUS
    <2>13. PICK n \in Nat \ {0}, c \in Nat :
             /\ n = IF asked > 0 THEN asked ELSE -asked
             /\ c = IF asked > 0 THEN start ELSE start + 1
             /\ rows = IF asked > 0 THEN Forward(start, a.names, n) ELSE Backward(start, a.names, n)
      <3>1. CASE asked > 0
        BY <2>2, <3>1 DEF Answer
      <3>2. CASE ~(asked > 0)
        BY <2>2, <3>2 DEF Answer
      <3> QED BY <3>1, <3>2
    <2>3. /\ list' = [set |-> TRUE, rows |-> rows] /\ list'.rows = rows /\ list'.set = TRUE
          /\ loaded' = a.names /\ mixed' = FALSE /\ page' = {[p EXCEPT !.old = TRUE] : p \in page}
      BY <1>3, <2>1, <2>2 DEF FilterAnswer
    <2>4. rows \in Seq(Seqs) /\ \A r \in ToSet(rows) : r <= last
      <3>1. rows = Forward(start, a.names, n) \/ rows = Backward(start, a.names, n)
        BY <2>13
      <3> QED BY <1>1, <3>1, AnswersAreMessages
    <2>5. StreamHas /\ info.first \in Nat
      BY <1>1, PagesInvNumbers
    <2>6. /\ \A p \in page : p \in PageType /\ PageInRange(p) /\ PageCut(p) /\ (NoGaps => PageRun(p))
          /\ \A p, q \in page : p = q
      BY DEF PagesInv, PageTypeInv, PagesRange, CutInv, RunInv
    <2>7. \A q \in page' : \E p \in page :
            /\ q = [p EXCEPT !.old = TRUE] /\ q \in PageType /\ q.old = TRUE /\ q.pre = p.pre
            /\ q.names = p.names /\ q.served = p.served /\ q.rows = p.rows /\ q.start = p.start
            /\ q.interval = p.interval /\ q.turned = p.turned /\ Cut(q) = Cut(p)
      <3> SUFFICES ASSUME NEW q \in page'
                   PROVE  \E p \in page :
                     /\ q = [p EXCEPT !.old = TRUE] /\ q \in PageType /\ q.old = TRUE
                     /\ q.pre = p.pre /\ q.names = p.names /\ q.served = p.served
                     /\ q.rows = p.rows /\ q.start = p.start /\ q.interval = p.interval
                     /\ q.turned = p.turned /\ Cut(q) = Cut(p)
        OBVIOUS
      <3>1. PICK p \in page : q = [p EXCEPT !.old = TRUE]
        BY <2>3
      <3>2. p \in PageType
        BY <2>6
      <3>3. /\ q \in PageType /\ q.old = TRUE
            /\ q.pre = p.pre /\ q.names = p.names /\ q.served = p.served
            /\ q.rows = p.rows /\ q.start = p.start /\ q.interval = p.interval
            /\ q.turned = p.turned
        BY <3>1, <3>2 DEF PageType
      <3>4. Cut(q) = Cut(p)
        BY <3>3 DEF Cut
      <3> QED BY <3>1, <3>3, <3>4
    <2>8. PageTypeInv'
      <3>1. a.names \in SUBSET StreamSubjects
        BY <1>1 DEF FilterType
      <3>2. page' \in SUBSET PageType /\ \A p, q \in page' : p = q
        BY <2>6, <2>7
      <3>3. list' \in [set: BOOLEAN, rows: Seq(Seqs)]
        BY <2>3, <2>4
      <3> QED BY <1>1, <2>3, <3>1, <3>2, <3>3 DEF PageTypeInv
    <2>9. Rows' = ToSet(rows)
      BY <2>3 DEF Rows
    <2>10. PagesRange'
      <3>1. ASSUME NEW q \in page' PROVE PageInRange(q)'
        BY <1>1, <2>6, <2>7 DEF PageInRange, Cut
      <3> QED BY <1>1, <2>3, <2>4, <2>9, <3>1 DEF PagesInv, PagesRange
    <2>11. CutInv'
      <3>1. Match(a.names)' = Match(a.names) /\ \A names : Match(names)' = Match(names)
        BY <1>1 DEF Match
      <3>2. Between(Match(a.names), ToSet(rows))
        <4>1. Beside(c, Match(a.names), ToSet(rows))
          <5>1. CASE asked > 0
            BY <2>13, <2>5, <5>1, ForwardBeside
          <5>2. CASE ~(asked > 0)
            BY <2>13, <2>5, <5>2, BackwardBeside
          <5> QED BY <5>1, <5>2
        <4>2. ToSet(rows) \in SUBSET Nat
          <5>1. \A r \in ToSet(rows) : r \in Seqs
            BY <2>4, RowsOf
          <5>2. \A r \in Seqs : r \in Nat
            BY DEF Seqs
          <5> QED BY <5>1, <5>2
        <4> QED BY <2>5, <4>1, <4>2, MatchesAreNumbers, BesideIsBetween
      <3>3. ASSUME NEW q \in page' PROVE PageCut(q)'
        <4>1. PICK p \in page : /\ q.old = TRUE /\ q.names = p.names /\ q.served = p.served
                                /\ q.rows = p.rows /\ q.turned = p.turned /\ Cut(q) = Cut(p)
          BY <2>7
        <4>2. ~q.turned /\ q.served => Beside(Cut(q), Match(q.names), ToSet(q.rows))
          BY <2>6, <4>1 DEF PageCut
        <4> QED BY <1>1, <4>1, <4>2 DEF PageCut, Match, Beside, Cut
      <3>4. Between(Match(loaded)', Rows')
        <4>1. Match(loaded)' = Match(a.names)
          BY <1>1, <2>3 DEF Match
        <4> QED BY <2>9, <3>2, <4>1
      <3> QED BY <3>3, <3>4 DEF CutInv, Between
    <2>12. RunInv'
      <3> SUFFICES ASSUME NoGaps' PROVE /\ loaded' = {} => Run(rows)
                                        /\ \A q \in page' : PageRun(q)'
        BY <2>3 DEF RunInv, Run
      <3>1. NoGaps
        BY <1>1 DEF NoGaps
      <3>2. ASSUME loaded' = {} PROVE Run(rows)
        <4>1. Match({}) = info.first..last /\ last \in Nat /\ a.names = {}
          BY <2>3, <2>5, <3>1, <3>2 DEF Match, NoGaps, StreamHas
        <4>2. CASE asked > 0
          <5>1. PICK d \in Nat : d = (IF start < info.first THEN info.first ELSE start) /\ info.first <= d
            BY <2>5
          <5>2. {s \in Match({}) : s >= start} = {s \in Match({}) : s >= d}
            BY <2>5, <4>1, <5>1
          <5>3. rows = Forward(d, {}, n)
            BY <2>13, <4>1, <4>2, <5>2 DEF Forward
          <5> QED BY <2>5, <3>1, <5>1, <5>3, ForwardRuns
        <4>3. CASE ~(asked > 0)
          <5>1. PICK d \in Nat : d = (IF last < start THEN last ELSE start) /\ d <= last
            BY <4>1
          <5>2. {s \in Match({}) : s <= start} = {s \in Match({}) : s <= d}
            BY <2>5, <4>1, <5>1
          <5>3. rows = Backward(d, {}, n)
            BY <2>13, <4>1, <4>3, <5>2 DEF Backward
          <5> QED BY <2>5, <3>1, <5>1, <5>3, BackwardRuns
        <4> QED BY <4>2, <4>3
      <3>3. ASSUME NEW q \in page' PROVE PageRun(q)'
        <4>1. PICK p \in page : /\ q.old = TRUE /\ q.names = p.names /\ q.served = p.served
                                /\ q.pre = p.pre /\ q.rows = p.rows /\ q.turned = p.turned
                                /\ Cut(q) = Cut(p)
          BY <2>7
        <4>2. PageRun(p)
          BY <2>6, <3>1
        <4> QED BY <4>1, <4>2 DEF PageRun, Run, Cut
      <3> QED BY <3>2, <3>3
    <2> QED BY <2>8, <2>10, <2>11, <2>12 DEF PagesInv
  <1> QED BY <1>2, <1>3

-----------------------------------------------------------------------------
(* The stream. *)

LEMMA RemovalKeepsPages ==
  ASSUME PagesInv, NEW s \in alive, alive' = alive \ {s}, list' \in [set: BOOLEAN, rows: Seq(Seqs)],
         UNCHANGED <<last, info, mounted, filter, custom, page, applying, applies, loaded, mixed>>,
         \/ list' = list
         \/ Rows # {} /\ list'.set = list.set /\ Rows' = Rows \ {s}
  PROVE  PagesInv'
  <1>1. PageTypeInv /\ last \in Nat /\ s \in Nat /\ s <= last /\ info.first <= s /\ info.first \in Nat
    BY PagesInvNumbers DEF PagesInv, PagesRange
  <1>2. PageTypeInv'
    BY <1>1 DEF PageTypeInv
  <1>3. Rows' = Rows \/ Rows' = Rows \ {s}
    BY DEF Rows
  <1>4. \A names : Match(names)' = Match(names) \ {s}
    BY DEF Match
  <1>5. PagesRange'
    <2>1. \A x \in alive' : info'.first <= x
      BY DEF PagesInv, PagesRange
    <2>2. \A r \in Rows' : r <= last'
      BY <1>3 DEF PagesInv, PagesRange
    <2>3. ~list'.set => list'.rows = <<>>
      <3>1. ~list.set => list.rows = <<>>
        BY DEF PagesInv, PagesRange
      <3>2. list.rows = <<>> => Rows = {}
        BY DEF Rows, ToSet
      <3> QED BY <3>1, <3>2
    <2>4. \A p \in page' : PageInRange(p)'
      BY DEF PagesInv, PagesRange, PageInRange, Cut
    <2> QED BY <2>1, <2>2, <2>3, <2>4 DEF PagesInv, PagesRange
  <1>6. CutInv'
    <2>1. \A names : \A R, Q : (Q = R \/ Q = R \ {s}) =>
            Match(names)' \ Q \subseteq Match(names) \ R /\ Q \subseteq R
      BY <1>4
    <2>2. ASSUME ~mixed' PROVE Between(Match(loaded), Rows)'
      <3>1. Between(Match(loaded), Rows)
        BY <2>2 DEF PagesInv, CutInv
      <3>2. PICK N : N = Match(loaded)'
        OBVIOUS
      <3>3. PICK Q : Q = Rows'
        OBVIOUS
      <3>4. N \ Q \subseteq Match(loaded) \ Rows /\ Q \subseteq Rows
        BY <1>3, <1>4, <3>2, <3>3
      <3>5. Between(N, Q)
        BY <3>1, <3>4, BetweenFewer
      <3> QED BY <3>2, <3>3, <3>5 DEF Between
    <2>3. ASSUME NEW p \in page' PROVE PageCut(p)'
      <3>1. p \in page /\ PageCut(p)
        BY <2>3 DEF PagesInv, CutInv
      <3>2. ASSUME ~p.turned, p.served PROVE Beside(Cut(p), Match(p.names)', ToSet(p.rows))
        <4>1. Beside(Cut(p), Match(p.names), ToSet(p.rows))
          BY <3>1, <3>2 DEF PageCut
        <4>2. PICK N : N = Match(p.names)'
          OBVIOUS
        <4>3. N \ ToSet(p.rows) \subseteq Match(p.names) \ ToSet(p.rows)
          BY <1>4, <4>2
        <4> QED BY <4>1, <4>2, <4>3, BesideFewer
      <3>3. ASSUME ~p.turned, ~p.old, ~mixed, p.names = loaded PROVE Beside(Cut(p), Match(loaded)', Rows')
        <4>1. Beside(Cut(p), Match(loaded), Rows)
          BY <3>1, <3>3 DEF PageCut
        <4>2. PICK N : N = Match(loaded)'
          OBVIOUS
        <4>3. PICK Q : Q = Rows'
          OBVIOUS
        <4>4. N \ Q \subseteq Match(loaded) \ Rows /\ Q \subseteq Rows
          BY <1>3, <1>4, <4>2, <4>3
        <4> QED BY <4>1, <4>2, <4>3, <4>4, BesideFewer
      <3> QED BY <3>2, <3>3 DEF PageCut, Beside, Cut
    <2> QED BY <2>2, <2>3 DEF CutInv
  <1>7. ~NoGaps'
    <2>1. s \in info.first..last
      BY <1>1
    <2> QED BY <2>1 DEF NoGaps
  <1> QED BY <1>2, <1>5, <1>6, <1>7 DEF PagesInv, RunInv

LEMMA ExpireKeepsPages ==
  ASSUME PagesInv, NEW s \in alive, Expire(s)
  PROVE  PagesInv'
  <1>1. list \in [set: BOOLEAN, rows: Seq(Seqs)]
    BY DEF PagesInv, PageTypeInv
  <1> QED BY <1>1, RemovalKeepsPages DEF Expire, cardVars, histVars2

LEMMA DeleteKeepsPages ==
  ASSUME PagesInv, NEW s \in Seqs, DeleteMessage(s)
  PROVE  PagesInv'
  <1>1. list \in [set: BOOLEAN, rows: Seq(Seqs)] /\ list.rows \in Seq(Seqs) /\ list.set \in BOOLEAN
    BY DEF PagesInv, PageTypeInv
  <1>2. s \in alive /\ s \in Rows /\ alive' = alive \ {s} /\ list' = [list EXCEPT !.rows = Without(@, s)]
    BY DEF DeleteMessage, Rows
  <1>3. Without(list.rows, s) \in Seq(Seqs) /\ ToSet(Without(list.rows, s)) = Rows \ {s}
    BY <1>1, WithoutOne DEF Rows
  <1>4. list'.rows = Without(list.rows, s) /\ list'.set = list.set
    BY <1>1, <1>2
  <1>5. list' \in [set: BOOLEAN, rows: Seq(Seqs)]
    BY <1>1, <1>2, <1>3
  <1>6. Rows' = Rows \ {s}
    BY <1>3, <1>4 DEF Rows
  <1>7. UNCHANGED <<last, info, mounted, filter, custom, page, applying, applies, loaded, mixed>>
    BY DEF DeleteMessage, histVars2
  <1> QED BY <1>2, <1>4, <1>5, <1>6, <1>7, RemovalKeepsPages

LEMMA GrowthKeepsPages ==
  ASSUME PagesInv, StreamGrows
  PROVE  PagesInv'
  <1>1. /\ PageTypeInv /\ last < MaxSeq /\ last' = last + 1 /\ alive' = alive \cup {last + 1}
        /\ UNCHANGED <<info, mounted, list, filter, custom, page, applying, applies, loaded, mixed>>
    BY DEF PagesInv, StreamGrows, cardVars, histVars2
  <1>2. PICK x \in Nat : x = last
    BY <1>1, PagesInvNumbers
  <1>3. /\ info.first \in Nat /\ MaxSeq \in Nat /\ alive \in SUBSET (1..x) /\ info.last \in Nat
        /\ info.first <= x + 1 /\ info.last <= x /\ info.first \in 1..MaxSeq + 1
    BY <1>1, <1>2, PagesInvNumbers DEF PagesInv, PagesRange, StreamHas
  <1>4. PageTypeInv'
    <2>1. last' \in 0..MaxSeq /\ alive' \in SUBSET (1..last')
      BY <1>1, <1>2, <1>3
    <2> QED BY <1>1, <2>1 DEF PageTypeInv
  <1>5. ASSUME NEW T, NEW rows \in Seq(T), T \in SUBSET Seqs, \A r \in ToSet(rows) : r <= last
        PROVE  ToSet(rows) \in SUBSET (1..x)
    <2>1. \A r \in ToSet(rows) : r \in Seqs /\ r <= x
      BY <1>2, <1>5, RowsOf
    <2>2. \A r \in ToSet(rows) : r \in 1..x
      BY <1>3, <2>1 DEF Seqs
    <2> QED BY <2>2
  <1>6. Rows \in SUBSET (1..x) /\ Rows' = Rows
    BY <1>1, <1>5 DEF PagesInv, PageTypeInv, PagesRange, Rows
  <1>7. \A names : Match(names)' \subseteq Match(names) \cup {x + 1}
    BY <1>1, <1>2 DEF Match
  <1>8. ASSUME NEW p \in page
        PROVE  /\ p \in PageType /\ PageInRange(p) /\ PageCut(p) /\ Cut(p) \in Nat
               /\ (~p.turned => Cut(p) <= x + 1)
               /\ p.start \in Nat /\ ToSet(p.rows) \in SUBSET (1..x)
    <2>1. p \in PageType /\ PageInRange(p) /\ PageCut(p)
      BY DEF PagesInv, PageTypeInv, PagesRange, CutInv
    <2>2. Cut(p) \in Nat /\ (~p.turned => Cut(p) <= x + 1) /\ p.start \in Nat
      BY <1>2, <2>1 DEF PageType, PageInRange, Cut
    <2>3. ToSet(p.rows) \in SUBSET (1..x)
      BY <1>5, <2>1 DEF PageType, PageInRange
    <2> QED BY <2>1, <2>2, <2>3
  <1>9. PagesRange'
    <2>1. \A s \in alive' : info'.first <= s
      BY <1>1, <1>2, <1>3 DEF PagesInv, PagesRange
    <2>2. info'.first <= last' + 1 /\ info'.last <= last'
      BY <1>1, <1>2, <1>3
    <2>3. \A r \in Rows' : r <= last'
      BY <1>1, <1>2, <1>6
    <2>4. ~list'.set => list'.rows = <<>>
      BY <1>1 DEF PagesInv, PagesRange
    <2>5. ASSUME NEW p \in page' PROVE PageInRange(p)'
      <3>1. /\ p \in page /\ PageInRange(p) /\ Cut(p) \in Nat /\ (~p.turned => Cut(p) <= x + 1)
            /\ ToSet(p.rows) \in SUBSET (1..x)
        BY <1>1, <1>8
      <3>2. ~p.turned => Cut(p) <= last' + 1
        BY <1>1, <1>2, <3>1
      <3>3. \A r \in ToSet(p.rows) : r <= last'
        BY <1>1, <1>2, <3>1
      <3> QED BY <1>1, <3>1, <3>2, <3>3 DEF PageInRange, Cut
    <2> QED BY <2>1, <2>2, <2>3, <2>4, <2>5 DEF PagesRange
  <1>10. CutInv'
    <2>1. ASSUME ~mixed' PROVE Between(Match(loaded), Rows)'
      <3>1. Between(Match(loaded), Rows)
        BY <1>1, <2>1 DEF PagesInv, CutInv
      <3>2. PICK N : N = Match(loaded)'
        OBVIOUS
      <3>3. N \subseteq Match(loaded) \cup {x + 1}
        BY <1>1, <1>2, <3>2 DEF Match
      <3>4. Between(N, Rows)
        BY <1>6, <3>1, <3>3, BetweenOneMore
      <3> QED BY <1>6, <3>2, <3>4 DEF Between
    <2>2. ASSUME NEW p \in page' PROVE PageCut(p)'
      <3>1. /\ p \in page /\ PageCut(p) /\ Cut(p) \in Nat /\ (~p.turned => Cut(p) <= x + 1)
            /\ ToSet(p.rows) \in SUBSET (1..x)
        BY <1>1, <1>8
      <3>2. ASSUME ~p.turned, p.served PROVE Beside(Cut(p), Match(p.names)', ToSet(p.rows))
        <4>1. Beside(Cut(p), Match(p.names), ToSet(p.rows))
          BY <3>1, <3>2 DEF PageCut
        <4>2. PICK N : N = Match(p.names)'
          OBVIOUS
        <4>3. N \subseteq Match(p.names) \cup {x + 1}
          BY <1>7, <4>2
        <4>4. Cut(p) <= x + 1
          BY <3>1, <3>2
        <4> QED BY <3>1, <4>1, <4>2, <4>3, <4>4, BesideOneMore
      <3>3. ASSUME ~p.turned, ~p.old, ~mixed, p.names = loaded PROVE Beside(Cut(p), Match(loaded)', Rows)
        <4>1. Beside(Cut(p), Match(loaded), Rows)
          BY <3>1, <3>3 DEF PageCut
        <4>2. PICK N : N = Match(loaded)'
          OBVIOUS
        <4>3. N \subseteq Match(loaded) \cup {x + 1}
          BY <1>1, <1>2, <4>2 DEF Match
        <4>4. Cut(p) <= x + 1
          BY <3>1, <3>3
        <4> QED BY <1>6, <3>1, <4>1, <4>2, <4>3, <4>4, BesideOneMore
      <3> QED BY <1>1, <1>6, <3>2, <3>3 DEF PageCut, Beside, Cut
    <2> QED BY <2>1, <2>2 DEF CutInv
  <1>11. RunInv'
    <2> SUFFICES ASSUME NoGaps' PROVE /\ ~mixed' /\ loaded' = {} => Run(list'.rows)
                                      /\ \A p \in page' : PageRun(p)'
      BY DEF RunInv, Run
    <2>1. NoGaps
      <3>1. alive \cup {x + 1} = info.first..(x + 1)
        BY <1>1, <1>2 DEF NoGaps
      <3>2. \A y \in alive : y \in 1..x
        BY <1>3
      <3>3. alive = info.first..x
        <4>1. \A y \in alive : y \in info.first..x
          BY <1>3, <3>1, <3>2
        <4>2. \A y \in info.first..x : y \in alive
          <5> SUFFICES ASSUME NEW y \in info.first..x PROVE y \in alive
            OBVIOUS
          <5>1. y \in info.first..(x + 1) /\ y # x + 1
            BY <1>3
          <5> QED BY <3>1, <5>1
        <4> QED BY <4>1, <4>2
      <3> QED BY <1>2, <3>3 DEF NoGaps
    <2> QED BY <1>1, <2>1 DEF PagesInv, RunInv, PageRun, Run, Cut
  <1> QED BY <1>4, <1>9, <1>10, <1>11 DEF PagesInv

-----------------------------------------------------------------------------
(* Every step, and the theorem. *)

LEMMA PagesInvInit == StreamInit => PagesInv
  <1> SUFFICES ASSUME StreamInit PROVE PagesInv
    OBVIOUS
  <1>1. MaxSeq \in Nat \ {0} /\ Intervals \in SUBSET (Int \ {0}) /\ MaxApplies \in Nat
    BY StreamAssumption
  <1>2. last \in Nat /\ last \in 1..MaxSeq /\ alive \in SUBSET (1..last)
    BY <1>1 DEF StreamInit, Seqs
  <1>3. /\ First(alive) \in 1..last + 1 /\ \A s \in alive : First(alive) <= s
    <2>1. CASE alive = {}
      BY <1>2, <2>1 DEF First
    <2>2. CASE alive # {}
      <3>1. Min(alive) \in alive /\ \A s \in alive : Min(alive) <= s
        BY <1>2, <2>2, Extremes
      <3>2. \A s \in alive : s \in 1..last + 1
        BY <1>2
      <3>3. Min(alive) \in 1..last + 1
        BY <3>1, <3>2
      <3> QED BY <2>2, <3>1, <3>3 DEF First
    <2> QED BY <2>1, <2>2
  <1>4. /\ info.first = First(alive) /\ info.last = last /\ list.rows = <<>> /\ page = {}
        /\ list.set = FALSE
    BY DEF StreamInit, NoPage
  <1>5. info \in [first: 1..MaxSeq + 1, last: 0..MaxSeq]
    <2>1. First(alive) \in 1..MaxSeq + 1 /\ last \in 0..MaxSeq
      BY <1>1, <1>2, <1>3
    <2> QED BY <2>1 DEF StreamInit
  <1>6. PageTypeInv
    <2>1. list \in [set: BOOLEAN, rows: Seq(Seqs)]
      BY DEF StreamInit
    <2>2. filter \in [names: SUBSET StreamSubjects, interval: Intervals]
      BY DEF StreamInit
    <2>3. applies \in 0..MaxApplies /\ last \in 0..MaxSeq
      BY <1>1, <1>2 DEF StreamInit
    <2> QED BY <1>2, <1>4, <1>5, <2>1, <2>2, <2>3 DEF PageTypeInv, StreamInit
  <1>7. Rows = {}
    BY <1>4 DEF Rows, ToSet
  <1>8. PagesRange
    BY <1>2, <1>3, <1>4, <1>7 DEF PagesRange
  <1>9. CutInv
    BY <1>4, <1>7 DEF CutInv, Between
  <1>10. RunInv
    BY <1>4 DEF RunInv, Run
  <1> QED BY <1>6, <1>8, <1>9, <1>10 DEF PagesInv

LEMMA PagesInvStep == PagesInv /\ [StreamNext]_streamVars => PagesInv'
  <1> SUFFICES ASSUME PagesInv, [StreamNext]_streamVars PROVE PagesInv'
    OBVIOUS
  <1>1. CASE StreamGrows
    BY <1>1, GrowthKeepsPages
  <1>2. CASE \E s \in alive : Expire(s)
    BY <1>2, ExpireKeepsPages
  <1>3. CASE Mount
    BY <1>3, MountKeepsPages
  <1>4. CASE FetchPrev \/ FetchNext
    BY <1>4, FetchKeepsPages
  <1>5. CASE ServePage
    BY <1>5, ServeKeepsPages
  <1>6. CASE AddPage
    BY <1>6, AddKeepsPages
  <1>7. CASE \E a \in applying, ok \in BOOLEAN : FilterAnswer(a, ok)
    BY <1>7, FilterKeepsPages
  <1>8. CASE \E s \in Seqs : DeleteMessage(s)
    BY <1>8, DeleteKeepsPages
  <1>9. CASE \/ Unmount \/ PageFails
             \/ \E names \in SUBSET StreamSubjects : EditCustom(names)
             \/ \E names \in SUBSET StreamSubjects, i \in Intervals, start \in Seqs, byTime \in BOOLEAN :
                  FilterApply(names, i, start, byTime)
             \/ UNCHANGED streamVars
    BY <1>9, QuietActionsKeepPages
  <1> QED BY <1>1, <1>2, <1>3, <1>4, <1>5, <1>6, <1>7, <1>8, <1>9 DEF StreamNext

\* The pages a card has put together leave nothing out, in any order of pages, filters,
\* deletions and publications, and over a stream without gaps they fit one another
\* (streams/messages.ts:147-215).
THEOREM PagesLeaveNothingOut == StreamSpec => []PagesSound
  <1>1. StreamSpec => []PagesInv
    BY PagesInvInit, PagesInvStep, PTL DEF StreamSpec
  <1> QED BY <1>1, PagesInvSuffices, PTL

-----------------------------------------------------------------------------
(* What a protobuf payload is decoded as. *)

File == [id: FileIds, types: Seq(TypeNames), broken: BOOLEAN]

\* What is left of the files once the broken ones are out: sound ones, in their order.
LEMMA SoundFacts ==
  ASSUME NEW F \in Seq(File)
  PROVE  /\ SoundOf(F) \in Seq(File)
         /\ \A i \in DOMAIN SoundOf(F) : ~SoundOf(F)[i].broken
                                         /\ \E j \in DOMAIN F : F[j] = SoundOf(F)[i]
  <1> DEFINE K == {i \in DOMAIN F : ~F[i].broken}
  <1>1. K \in SUBSET (1..Len(F)) /\ \A k \in K : k \in DOMAIN F /\ ~F[k].broken
    BY LenProperties
  <1>2. SoundOf(F) = Part(F, K)
    BY DEF SoundOf
  <1> HIDE DEF K
  <1>3. /\ SoundOf(F) \in Seq(File) /\ Len(SoundOf(F)) = Cardinality(K)
        /\ \E place \in [1..Cardinality(K) -> K] :
             \A i \in 1..Cardinality(K) : SoundOf(F)[i] = F[place[i]]
    BY <1>1, <1>2, PartFacts
  <1>4. PICK place \in [1..Cardinality(K) -> K] :
          \A i \in 1..Cardinality(K) : SoundOf(F)[i] = F[place[i]]
    BY <1>3
  <1>5. DOMAIN SoundOf(F) = 1..Cardinality(K)
    BY <1>3, LenProperties
  <1> QED BY <1>1, <1>3, <1>4, <1>5

\* What a file adds to the root: some of its types, from the first on.
LEMMA DeclaredFacts ==
  ASSUME NEW T \in Seq(TypeNames), NEW f \in File
  PROVE  Declared(T, f) \in Seq(TypeNames)
  <1> DEFINE t == f.types
             Again(i) == \E j \in DOMAIN T : T[j] = t[i]
             stops(n) == (\A i \in 1..n : ~Again(i)) /\ (n = Len(t) \/ Again(n + 1))
             ends == {n \in 0..Len(t) : n = Len(t) \/ Again(n + 1)}
  <1>1. t \in Seq(TypeNames) /\ Len(t) \in Nat
    BY LenProperties DEF File
  <1>2. \E n \in 0..Len(t) : stops(n)
    <2>1. ends \in SUBSET Nat /\ Len(t) \in ends
      BY <1>1
    <2> HIDE DEF Again
    <2>2. PICK n \in ends : \A k \in ends : n <= k
      <3> HIDE DEF ends
      <3> QED BY <2>1, LeastNumber
    <2>3. \A i \in 1..n : ~Again(i)
      <3> SUFFICES ASSUME NEW i \in 1..n, Again(i) PROVE FALSE
        OBVIOUS
      <3>1. i - 1 \in ends
        BY <1>1
      <3> QED BY <2>2, <3>1
    <2> QED BY <2>2, <2>3
  <1>3. Declared(T, f) = T \o SubSeq(t, 1, CHOOSE n \in 0..Len(t) : stops(n))
    BY DEF Declared
  <1>4. PICK n \in 0..Len(t) : Declared(T, f) = T \o SubSeq(t, 1, n)
    BY <1>2, <1>3
  <1>5. SubSeq(t, 1, n) \in Seq(TypeNames)
    BY <1>1, <1>4, SubSeqProperties
  <1> QED BY <1>4, <1>5, ConcatProperties

\* One root out of all files: the recursion over them has an answer.
LEMMA MergedFacts ==
  ASSUME NEW F \in Seq(File)
  PROVE  Merged(F) \in Seq(TypeNames)
  <1> DEFINE step(m, n) == IF n = 0 THEN <<>> ELSE Declared(m[n - 1], F[n])
             Root(m, n) == m = [k \in 0..n |-> step(m, k)]
             none == {n \in 0..Len(F) : ~\E m : Root(m, n)}
             merged == CHOOSE m : m = [n \in 0..Len(F) |-> step(m, n)]
  <1>1. Len(F) \in Nat /\ \A i \in 1..Len(F) : F[i] \in File
    BY LenProperties
  <1>2. none = {}
    <2> SUFFICES ASSUME none # {} PROVE FALSE
      OBVIOUS
    <2>1. PICK n \in none : \A k \in none : n <= k
      <3>1. none \in SUBSET Nat
        BY <1>1
      <3> HIDE DEF none
      <3> QED BY <3>1, LeastNumber
    <2>2. n # 0
      <3>1. Root([k \in 0..0 |-> <<>>], 0)
        OBVIOUS
      <3> QED BY <2>1, <3>1
    <2>3. n \in 0..Len(F) /\ n - 1 \in 0..Len(F) /\ n - 1 \notin none
      BY <1>1, <2>1, <2>2
    <2>4. PICK m : Root(m, n - 1)
      BY <2>3
    <2> DEFINE m2 == [k \in 0..n |-> IF k = n THEN Declared(m[n - 1], F[n]) ELSE m[k]]
    <2>5. Root(m2, n)
      <3>1. \A k \in 0..n : m2[k] = step(m2, k)
        <4> SUFFICES ASSUME NEW k \in 0..n PROVE m2[k] = step(m2, k)
          OBVIOUS
        <4>1. CASE k = n
          BY <2>2, <2>3, <4>1
        <4>2. CASE k # n
          <5>1. k \in 0..(n - 1) /\ m2[k] = m[k] /\ m[k] = step(m, k)
            BY <2>3, <2>4, <4>2
          <5>2. k # 0 => m2[k - 1] = m[k - 1]
            BY <2>3, <5>1
          <5> QED BY <5>1, <5>2
        <4> QED BY <4>1, <4>2
      <3> QED BY <3>1
    <2> HIDE DEF Root, m2
    <2> QED BY <2>1, <2>5
  <1>3. \E m : Root(m, Len(F))
    BY <1>1, <1>2
  <1>4. merged = [n \in 0..Len(F) |-> step(merged, n)]
    BY <1>3
  <1>5. Merged(F) = merged[Len(F)]
    BY DEF Merged
  <1> HIDE DEF merged
  <1> DEFINE odd == {n \in 0..Len(F) : merged[n] \notin Seq(TypeNames)}
  <1>6. odd = {}
    <2> SUFFICES ASSUME odd # {} PROVE FALSE
      OBVIOUS
    <2>1. PICK n \in odd : \A k \in odd : n <= k
      <3>1. odd \in SUBSET Nat
        BY <1>1
      <3> HIDE DEF odd
      <3> QED BY <3>1, LeastNumber
    <2>2. n # 0
      BY <1>4, <2>1
    <2>3. n \in 1..Len(F) /\ n - 1 \in 0..Len(F) /\ n - 1 \notin odd
      BY <1>1, <2>1, <2>2
    <2>4. merged[n] = Declared(merged[n - 1], F[n])
      BY <1>4, <2>2, <2>3
    <2>5. merged[n - 1] \in Seq(TypeNames)
      BY <2>3
    <2> QED BY <1>1, <2>1, <2>3, <2>4, <2>5, DeclaredFacts
  <1> QED BY <1>1, <1>5, <1>6

\* What a subject is remembered by, and what an answer may be.
CardAnswers == Pairs \cup {Nothing}
KeptAnswer == [msg: ProtoMessages, signature: Seq(Candidates), answer: CardAnswers]

LEMMA ConstantFacts ==
  /\ DOMAIN FilesOf = 1..Len(FilesOf) /\ Len(FilesOf) \in Nat /\ 1 \in FileContents
  /\ \A v \in FileContents : FilesOf[v] \in Seq(File)
  /\ Nothing \notin Pairs /\ NoChoice.msg \notin ProtoMessages
  /\ KeptCap \in Nat \ {0} /\ MaxPicks \in Nat
  <1>1. FilesOf \in Seq(Seq(File)) /\ FilesOf # <<>>
    BY ProtoAssumption DEF File
  <1>2. Len(FilesOf) \in Nat /\ DOMAIN FilesOf = 1..Len(FilesOf)
    BY <1>1, LenProperties
  <1>3. Len(FilesOf) # 0
    BY <1>1, EmptySeq
  <1>4. 1 \in FileContents
    BY <1>2, <1>3 DEF FileContents
  <1>5. ASSUME NEW v \in FileContents PROVE FilesOf[v] \in Seq(File)
    BY <1>1, <1>2 DEF FileContents
  <1>6. Nothing \notin Pairs
    BY ProtoAssumption DEF Nothing, Pairs
  <1>7. NoChoice.msg \notin ProtoMessages
    <2>1. \A m \in ProtoMessages : "bytes" \in DOMAIN m
      BY DEF ProtoMessages
    <2>2. "bytes" \notin DOMAIN NoChoice.msg
      BY DEF NoChoice
    <2> QED BY <2>1, <2>2
  <1>8. KeptCap \in Nat \ {0} /\ MaxPicks \in Nat
    BY ProtoAssumption
  <1> QED BY <1>2, <1>4, <1>5, <1>6, <1>7, <1>8

LEMMA FileFacts ==
  ASSUME files \in {0} \cup FileContents
  PROVE  /\ Files \in Seq(File) /\ Sound \in Seq(File)
         /\ \A f \in UNION {FindFile(Files, id) : id \in FileIds \cup {Unset}} : f \in File
         /\ \A i \in DOMAIN Files : Files[i] \in File
  <1>1. Files \in Seq(File)
    <2>1. CASE files = 0
      BY <2>1 DEF Files
    <2>2. CASE files # 0
      BY <2>2, ConstantFacts DEF Files
    <2> QED BY <2>1, <2>2
  <1>2. Sound \in Seq(File)
    BY <1>1, SoundFacts DEF Sound
  <1>3. \A i \in DOMAIN Files : Files[i] \in File
    BY <1>1, LenProperties
  <1>4. \A id : \A f \in FindFile(Files, id) : f \in File
    BY <1>3 DEF FindFile
  <1> QED BY <1>1, <1>2, <1>3, <1>4

\* What a payload has fields under is a type of a file there is.
LEMMA WorksFacts ==
  ASSUME files \in {0} \cup FileContents, NEW c, NEW b \in Bytes, NEW how, Works(c, b, how)
  PROVE  /\ c.schema \in FileIds
         /\ how = "fields" /\ c.type \in TypeNames \cup {Unset} => c.type \in TypeNames
  <1>1. PICK f \in FindFile(Sound, c.schema) : Decode(f, c.type, b) = how
    BY DEF Works
  <1>2. PICK i \in DOMAIN Sound : f = Sound[i] /\ f.id = c.schema
    BY <1>1 DEF FindFile
  <1>3. f \in File /\ ~f.broken
    BY <1>2, FileFacts, LenProperties, SoundFacts DEF Sound
  <1>4. c.schema \in FileIds
    BY <1>2, <1>3 DEF File
  <1>5. ASSUME how = "fields", c.type = Unset PROVE FALSE
    <2>1. Decoding[files][Unset][b] = "fields"
      BY <1>1, <1>3, <1>5 DEF Decode
    <2>2. files # 0
      <3> SUFFICES ASSUME files = 0 PROVE FALSE
        OBVIOUS
      <3>1. Files = <<>>
        BY DEF Files
      <3>2. \E j \in DOMAIN Files : TRUE
        BY <1>2, FileFacts, SoundFacts DEF Sound
      <3> QED BY <3>1, <3>2
    <2>3. files \in FileContents
      BY <2>2
    <2>4. Decoding[files][Unset][b] =
            (IF ~InRoot(files, Unset) THEN "error"
             ELSE IF <<files, Unset, b>> \in WithFields THEN "fields"
             ELSE IF <<files, Unset, b>> \in NoFields THEN "empty" ELSE "error")
      BY <2>3 DEF Decoding
    <2>5. InRoot(files, Unset)
      BY <2>1, <2>4
    <2>6. UnifiedRoots[files] \in Seq(TypeNames)
      BY <2>3, ConstantFacts, SoundFacts, MergedFacts DEF UnifiedRoots
    <2>7. Unset \in TypeNames
      <3>1. PICK k \in DOMAIN UnifiedRoots[files] : UnifiedRoots[files][k] = Unset
        BY <2>5 DEF InRoot
      <3>2. UnifiedRoots[files][k] \in TypeNames
        BY <2>6, <3>1, LenProperties
      <3> QED BY <3>1, <3>2
    <2> QED BY <2>7, ProtoAssumption
  <1> QED BY <1>4, <1>5

LEMMA DetectFacts ==
  ASSUME files \in {0} \cup FileContents, NEW b \in Bytes
  PROVE  Detect(b) \in CardAnswers
  <1>1. CASE files = 0
    BY <1>1 DEF Detect, CardAnswers
  <1>2. CASE files # 0
    <2> DEFINE v == files
               T == AllTypes(v)
               hits == {i \in DOMAIN T : Decoding[v][T[i]][b] = "fields"}
               Score(i) == ScoreOf[<<T[i], b>>]
               high == {i \in hits : Score(i) > 90}
               top == IF high # {} THEN high ELSE {i \in hits : \A j \in hits : Score(j) <= Score(i)}
               at == CHOOSE i \in top : \A j \in top : i <= j
    <2>1. v \in FileContents /\ FilesOf[v] \in Seq(File)
      BY <1>2, ConstantFacts
    <2>2. Detect(b) = IF QuickFiles(v) = <<>> THEN Nothing ELSE DetectIn(v, b)
      BY <1>2, <2>1 DEF Detect, Detections
    <2>3. DetectIn(v, b) = IF hits = {} THEN Nothing
                           ELSE [schema |-> QuickFiles(v)[1].id, type |-> T[at]]
      BY DEF DetectIn
    <2>4. T \in Seq(TypeNames)
      BY <2>1, SoundFacts, MergedFacts DEF AllTypes, UnifiedRoots
    <2>5. ASSUME QuickFiles(v) # <<>> PROVE QuickFiles(v)[1] \in File
      <3>1. QuickFiles(v) \in Seq(File)
        <4>1. Len(FilesOf[v]) \in Nat /\ MaxQuick \in Nat
          BY <2>1, LenProperties, ProtoAssumption
        <4> DEFINE n == IF Len(FilesOf[v]) < MaxQuick THEN Len(FilesOf[v]) ELSE MaxQuick
        <4>2. n \in 0..Len(FilesOf[v])
          BY <4>1
        <4>3. SubSeq(FilesOf[v], 1, n) \in Seq(File)
          <5> HIDE DEF n
          <5> QED BY <2>1, <4>1, <4>2, SubSeqProperties
        <4>4. QuickFiles(v) = SoundOf(SubSeq(FilesOf[v], 1, n))
          BY DEF QuickFiles
        <4> HIDE DEF n
        <4> QED BY <4>3, <4>4, SoundFacts
      <3> QED BY <2>5, <3>1, LenProperties, EmptySeq
    <2>6. ASSUME hits # {} PROVE at \in hits
      <3> DEFINE below == {100 - Score(i) : i \in hits}
      <3>1. hits \in SUBSET Nat /\ \A i \in hits : T[i] \in TypeNames
        BY <2>4, LenProperties
      <3>2. \A i \in hits : Score(i) \in 50..100
        BY <3>1, ProtoAssumption
      <3>3. top # {}
        <4> SUFFICES ASSUME high = {} PROVE top # {}
          OBVIOUS
        <4> HIDE DEF Score, hits
        <4>1. below \in SUBSET Nat /\ below # {}
          BY <2>6, <3>2
        <4>2. PICK least \in below : \A k \in below : least <= k
          <5> HIDE DEF below
          <5> QED BY <4>1, LeastNumber
        <4>3. PICK i \in hits : least = 100 - Score(i)
          BY <4>2
        <4>4. \A j \in hits : Score(j) <= Score(i)
          <5> SUFFICES ASSUME NEW j \in hits PROVE Score(j) <= Score(i)
            OBVIOUS
          <5>1. 100 - Score(j) \in below
            OBVIOUS
          <5> QED BY <3>2, <4>2, <4>3, <5>1
        <4> QED BY <4>3, <4>4
      <3>4. top \subseteq hits
        OBVIOUS
      <3> HIDE DEF top, hits
      <3>5. top \in SUBSET Nat
        BY <3>1, <3>4
      <3>6. \E i \in top : \A j \in top : i <= j
        BY <3>3, <3>5, LeastNumber
      <3> QED BY <3>4, <3>6
    <2>7. ASSUME QuickFiles(v) # <<>>, hits # {}
          PROVE  [schema |-> QuickFiles(v)[1].id, type |-> T[at]] \in Pairs
      <3>1. T[at] \in TypeNames
        BY <2>4, <2>6, <2>7, LenProperties
      <3>2. QuickFiles(v)[1].id \in FileIds
        BY <2>5, <2>7 DEF File
      <3> HIDE DEF at, T
      <3> QED BY <3>1, <3>2 DEF Pairs
    <2> HIDE DEF at, hits, T
    <2> QED BY <2>2, <2>3, <2>7 DEF CardAnswers
  <1> QED BY <1>1, <1>2

\* Of several places in a sequence the first.
LEMMA EarliestFacts ==
  ASSUME NEW S, NEW C \in Seq(S), NEW K \in SUBSET DOMAIN C, K # {}
  PROVE  /\ \E i \in K : Earliest(C, K) = C[i]
         /\ Earliest(C, K) \in S
         /\ 1 \in K => Earliest(C, K) = C[1]
  <1> DEFINE at == CHOOSE i \in K : \A j \in K : i <= j
  <1>1. DOMAIN C = 1..Len(C) /\ Len(C) \in Nat /\ K \in SUBSET Nat
    BY LenProperties
  <1>2. at \in K /\ \A j \in K : at <= j
    BY <1>1, LeastNumber
  <1>3. Earliest(C, K) = C[at]
    BY DEF Earliest
  <1> HIDE DEF at
  <1>4. 1 \in K => at = 1
    BY <1>1, <1>2
  <1> QED BY <1>1, <1>2, <1>3, <1>4, LenProperties

LEMMA WorkFacts ==
  ASSUME files \in {0} \cup FileContents, NEW C \in Seq(Candidates), NEW b \in Bytes
  PROVE  WorkOn(C, b) \in CardAnswers
  <1> DEFINE fits == {i \in DOMAIN C : Works(C[i], b, "fields")}
             fails == {i \in DOMAIN C : Works(C[i], b, "error")}
  <1>1. WorkOn(C, b) = IF fits # {} THEN Earliest(C, fits)
                       ELSE IF Detect(b) # Nothing THEN Detect(b)
                       ELSE IF fails # {} THEN Earliest(C, fails) ELSE Nothing
    BY DEF WorkOn
  <1>2. ASSUME NEW K \in SUBSET DOMAIN C, K # {}, NEW how, \A i \in K : Works(C[i], b, how)
        PROVE  Earliest(C, K) \in Pairs
    <2>1. PICK i \in K : Earliest(C, K) = C[i] /\ C[i] \in Candidates
      BY <1>2, EarliestFacts
    <2>2. C[i].schema \in FileIds
      BY <1>2, WorksFacts
    <2> QED BY <2>1, <2>2 DEF Candidates, Pairs
  <1>3. fits # {} => Earliest(C, fits) \in Pairs
    <2> SUFFICES ASSUME fits # {} PROVE Earliest(C, fits) \in Pairs
      OBVIOUS
    <2>1. fits \in SUBSET DOMAIN C /\ \A i \in fits : Works(C[i], b, "fields")
      OBVIOUS
    <2> HIDE DEF fits
    <2> QED BY <1>2, <2>1
  <1>4. fails # {} => Earliest(C, fails) \in Pairs
    <2> SUFFICES ASSUME fails # {} PROVE Earliest(C, fails) \in Pairs
      OBVIOUS
    <2>1. fails \in SUBSET DOMAIN C /\ \A i \in fails : Works(C[i], b, "error")
      OBVIOUS
    <2> HIDE DEF fails
    <2> QED BY <1>2, <2>1
  <1>5. Detect(b) \in CardAnswers
    BY DetectFacts
  <1> HIDE DEF fits, fails
  <1> QED BY <1>1, <1>3, <1>4, <1>5 DEF CardAnswers

\* As long as the files are the same, so is what a payload works as.
LEMMA SameFiles ==
  ASSUME files' = files
  PROVE  /\ \A C, b : WorkOn(C, b)' = WorkOn(C, b)
         /\ \A c, b, how : Works(c, b, how)' = Works(c, b, how)
  <1>1. Sound' = Sound
    BY DEF Sound, Files
  <1>2. \A f, t, b : Decode(f, t, b)' = Decode(f, t, b)
    BY DEF Decode
  <1>3. \A c, b, how : Works(c, b, how)' = Works(c, b, how)
    BY <1>1, <1>2 DEF Works
  <1>4. \A b : Detect(b)' = Detect(b)
    BY DEF Detect
  <1> QED BY <1>3, <1>4 DEF WorkOn

-----------------------------------------------------------------------------
(* The type a payload is shown under, proved.                              *)
(* KeptFresh makes the rows right: an answer kept for the files at hand is *)
(* what is worked out from the candidates it was kept with, so one that is *)
(* given without work, whose subject has the same candidates still, is     *)
(* what work would give.  ChoiceFirst makes the card agree with them: once *)
(* its effects have run, a choice under which the payload has fields is    *)
(* what the subject's candidates begin with.                               *)

ProtoTyped ==
  /\ ProtoTypeOK
  /\ own \in [ProtoTopics -> Seq(Candidates)] /\ pattern \in PatternsOf
  /\ resolved \in Seq(KeptAnswer)
  /\ reading # <<>> /\ reading[1] # 0 => files <= reading[1]

\* An answer kept for the files at hand is what is worked out from what its subject had.
AnswersRight(R) == \A i \in DOMAIN R : R[i].answer = WorkOn(R[i].signature, R[i].msg.bytes)
KeptFresh == StillFor => AnswersRight(resolved)

\* A choice under which the payload has fields is the first thing its subject is
\* remembered by, once the effects have run.
Choice == [schema |-> manual.schema, type |-> manual.type]
ChoiceFirst ==
  ~due /\ Chosen /\ Works(Choice, card.bytes, "fields")
    /\ CleanTopic[card.topic] = card.topic /\ CleanId[manual.schema] = manual.schema =>
    own[card.topic] # <<>> /\ own[card.topic][1] = Choice

ProtoInv == ProtoTyped /\ KeptFresh /\ ChoiceFirst

LEMMA TypedFacts ==
  ASSUME ProtoTyped
  PROVE  /\ files \in {0} \cup FileContents /\ files \in Nat /\ files <= protoDir
         /\ protoDir \in FileContents /\ protoDir \in Nat
         /\ \A s \in ProtoTopics : Lookup(s) \in Seq(Candidates)
         /\ resolved \in Seq(KeptAnswer) /\ Len(resolved) <= KeptCap
         /\ card \in ProtoMessages /\ card.topic \in ProtoTopics /\ card.bytes \in Bytes
  <1>1. files \in {0} \cup FileContents /\ files \in Nat /\ files <= protoDir
        /\ protoDir \in FileContents /\ protoDir \in Nat
    <2>1. FileContents = 1..Len(FilesOf) /\ Len(FilesOf) \in Nat
      BY ConstantFacts DEF FileContents
    <2>2. protoDir \in FileContents /\ files \in 0..protoDir
      BY DEF ProtoTyped, ProtoTypeOK
    <2> QED BY <2>1, <2>2
  <1>2. ASSUME NEW s \in ProtoTopics PROVE Lookup(s) \in Seq(Candidates)
    <2>1. CASE own[s] # <<>>
      BY <2>1 DEF Lookup, ProtoTyped
    <2>2. CASE own[s] = <<>>
      <3> DEFINE K == {i \in DOMAIN pattern[s] : pattern[s][i].trusted}
                 T == Part(pattern[s], K)
                 PC == [schema: CleanIds, type: TypeNames, trusted: BOOLEAN]
      <3>1. pattern[s] \in Seq(PC)
        BY ProtoAssumption DEF ProtoTyped
      <3>2. K \in SUBSET (1..Len(pattern[s]))
        BY <3>1, LenProperties
      <3>3. T \in Seq(PC)
        <4> HIDE DEF K
        <4> QED BY <3>1, <3>2, PartFacts
      <3>4. Lookup(s) = [i \in DOMAIN T |-> [schema |-> T[i].schema, type |-> T[i].type]]
        BY <2>2 DEF Lookup
      <3> HIDE DEF T
      <3>5. DOMAIN T = 1..Len(T) /\ Len(T) \in Nat /\ \A i \in 1..Len(T) : T[i] \in PC
        BY <3>3, LenProperties
      <3> QED BY <3>4, <3>5 DEF Candidates
    <2> QED BY <2>1, <2>2
  <1> QED BY <1>1, <1>2 DEF ProtoTyped, ProtoTypeOK, ProtoMessages

LEMMA LookupIsFirst ==
  ASSUME ProtoTyped, NEW s \in ProtoTopics, own[s] # <<>>
  PROVE  Lookup(s) = own[s]
  BY DEF Lookup

\* What is kept is right, so what a row is given is what working it out gives.
LEMMA ResolvedIsWork ==
  ASSUME ProtoTyped, KeptFresh
  PROVE  /\ AnswersCurrent
         /\ \A m \in ProtoMessages : Resolved(m) \in CardAnswers
  <1> SUFFICES ASSUME NEW m \in ProtoMessages
               PROVE  Resolved(m) = Work(m) /\ Work(m) \in CardAnswers
    BY DEF AnswersCurrent
  <1>1. Work(m) \in CardAnswers
    BY TypedFacts, WorkFacts DEF Work, ProtoMessages
  <1>2. CASE Current(m) = {}
    BY <1>1, <1>2 DEF Resolved
  <1>3. CASE Current(m) # {}
    <2> DEFINE i == CHOOSE i \in Current(m) : TRUE
    <2>1. i \in Current(m) /\ Resolved(m) = KeptYet[i].answer
      BY <1>3 DEF Resolved
    <2> HIDE DEF i
    <2>2. i \in DOMAIN KeptYet /\ KeptYet[i].msg = m /\ KeptYet[i].signature = Lookup(m.topic)
      BY <2>1 DEF Current, KeptAt
    <2>3. StillFor /\ KeptYet = resolved
      BY <2>2 DEF KeptYet
    <2>4. resolved[i].answer = WorkOn(resolved[i].signature, resolved[i].msg.bytes)
      BY <2>2, <2>3 DEF KeptFresh, AnswersRight
    <2> QED BY <1>1, <2>1, <2>2, <2>3, <2>4 DEF Work
  <1> QED BY <1>1, <1>2, <1>3

\* One answer more is kept, one of each message, and none of them wrong.
LEMMA KeepFacts ==
  ASSUME ProtoTyped, KeptFresh, NEW m \in ProtoMessages
  PROVE  LET R == Keep(m, Resolved(m))
         IN  /\ R \in Seq(KeptAnswer) /\ Len(R) <= KeptCap /\ AnswersRight(R)
             /\ \A i, j \in DOMAIN R : i # j => R[i].msg # R[j].msg
  <1> DEFINE a == Resolved(m)
             new == [msg |-> m, signature |-> Lookup(m.topic), answer |-> a]
             R == Keep(m, a)
             One(K) == \A i, j \in DOMAIN K : i # j => K[i].msg # K[j].msg
  <1> SUFFICES R \in Seq(KeptAnswer) /\ Len(R) <= KeptCap /\ AnswersRight(R) /\ One(R)
    OBVIOUS
  <1>1. a = Work(m) /\ a \in CardAnswers
    BY ResolvedIsWork DEF AnswersCurrent
  <1>2. new \in KeptAnswer /\ new.answer = WorkOn(new.signature, new.msg.bytes) /\ new.msg = m
    BY <1>1, TypedFacts DEF KeptAnswer, Work, ProtoMessages
  <1>3. PICK K : K = KeptYet
    OBVIOUS
  <1>4. K \in Seq(KeptAnswer) /\ Len(K) <= KeptCap /\ AnswersRight(K) /\ One(K)
    <2>1. CASE StillFor
      BY <1>3, <2>1, TypedFacts DEF KeptYet, KeptFresh, ProtoTyped, ProtoTypeOK
    <2>2. CASE ~StillFor
      <3>1. K = <<>> /\ DOMAIN K = {}
        BY <1>3, <2>2 DEF KeptYet
      <3>2. K \in Seq(KeptAnswer) /\ Len(K) = 0 /\ KeptCap \in Nat
        BY <3>1, EmptySeq, ProtoAssumption
      <3> QED BY <3>1, <3>2 DEF AnswersRight
    <2> QED BY <2>1, <2>2
  <1>5. DOMAIN K = 1..Len(K) /\ Len(K) \in Nat /\ \A i \in 1..Len(K) : K[i] \in KeptAnswer
    BY <1>4, LenProperties
  <1>6. KeptAt(m) = {i \in DOMAIN K : K[i].msg = m}
    BY <1>3 DEF KeptAt
  <1> HIDE DEF a, new
  <1>7. CASE KeptAt(m) # {}
    <2>1. R = [i \in DOMAIN K |-> IF i \in KeptAt(m) THEN new ELSE K[i]]
      BY <1>3, <1>7 DEF Keep, new
    <2> HIDE DEF R
    <2>2. R \in Seq(KeptAnswer) /\ Len(R) = Len(K) /\ DOMAIN R = DOMAIN K
      BY <1>2, <1>5, <2>1
    <2>3. \A i \in DOMAIN R : R[i].msg = K[i].msg
      BY <1>2, <1>6, <2>1, <2>2
    <2>4. AnswersRight(R)
      BY <1>2, <1>4, <2>1, <2>2 DEF AnswersRight
    <2>5. One(R)
      BY <1>4, <2>2, <2>3
    <2> QED BY <1>4, <2>2, <2>4, <2>5
  <1>8. CASE KeptAt(m) = {}
    <2> DEFINE B == IF Len(K) >= KeptCap THEN Tail(K) ELSE K
    <2>1. R = Append(B, new)
      BY <1>3, <1>8 DEF Keep, new
    <2>2. KeptCap \in Nat \ {0}
      BY ProtoAssumption
    <2>3. /\ B \in Seq(KeptAnswer) /\ Len(B) < KeptCap
          /\ \E d \in 0..1 : \A i \in 1..Len(B) : i + d \in 1..Len(K) /\ B[i] = K[i + d]
      <3>1. CASE Len(K) >= KeptCap
        <4>1. K # <<>> /\ Len(K) = KeptCap
          <5>1. Len(K) = KeptCap /\ Len(K) # 0
            <6>1. Len(K) <= KeptCap /\ Len(K) \in Nat
              BY <1>4, <1>5
            <6> QED BY <2>2, <3>1, <6>1
          <5> QED BY <1>4, <5>1, EmptySeq
        <4>2. /\ Tail(K) \in Seq(KeptAnswer) /\ Len(Tail(K)) = Len(K) - 1
              /\ \A i \in 1..Len(Tail(K)) : Tail(K)[i] = K[i + 1]
          BY <1>4, <4>1, HeadTailProperties
        <4>3. \A i \in 1..Len(B) : i + 1 \in 1..Len(K) /\ B[i] = K[i + 1]
          BY <1>5, <3>1, <4>2
        <4> QED BY <1>5, <2>2, <3>1, <4>1, <4>2, <4>3
      <3>2. CASE ~(Len(K) >= KeptCap)
        <4>1. \A i \in 1..Len(B) : i + 0 \in 1..Len(K) /\ B[i] = K[i + 0]
          BY <1>5, <3>2
        <4> QED BY <1>4, <1>5, <2>2, <3>2, <4>1
      <3> QED BY <3>1, <3>2
    <2> HIDE DEF B, R
    <2>4. PICK d \in 0..1 : \A i \in 1..Len(B) : i + d \in 1..Len(K) /\ B[i] = K[i + d]
      BY <2>3
    <2>5. /\ R \in Seq(KeptAnswer) /\ Len(R) = Len(B) + 1 /\ Len(B) \in Nat /\ DOMAIN R = 1..Len(R)
          /\ R[Len(R)] = new /\ \A i \in 1..Len(B) : R[i] = B[i]
      BY <1>2, <2>1, <2>3, AppendProperties, LenProperties
    <2>6. \A i \in 1..Len(B) : R[i] = K[i + d] /\ i + d \in DOMAIN K /\ R[i].msg # m
      BY <1>5, <1>6, <1>8, <2>4, <2>5
    <2>7. AnswersRight(R)
      <3> SUFFICES ASSUME NEW i \in 1..Len(R)
                   PROVE  R[i].answer = WorkOn(R[i].signature, R[i].msg.bytes)
        BY <2>5 DEF AnswersRight
      <3>1. CASE i = Len(R)
        BY <1>2, <2>5, <3>1
      <3>2. CASE i # Len(R)
        BY <1>4, <2>5, <2>6, <3>2 DEF AnswersRight
      <3> QED BY <3>1, <3>2
    <2>8. One(R)
      <3> SUFFICES ASSUME NEW i \in 1..Len(R), NEW j \in 1..Len(R), i < j
                   PROVE  R[i].msg # R[j].msg
        BY <2>5
      <3>1. i \in 1..Len(B) /\ i + d \in DOMAIN K
        BY <2>5, <2>6
      <3>2. CASE j = Len(R)
        BY <1>2, <2>5, <2>6, <3>1, <3>2
      <3>3. CASE j # Len(R)
        <4>1. j \in 1..Len(B) /\ j + d \in DOMAIN K /\ i + d # j + d
          <5>1. j \in 1..Len(B) /\ i \in Nat /\ j \in Nat /\ d \in Nat
            <6>1. j \in 1..Len(B)
              BY <2>5, <3>3
            <6>2. d \in Nat
              OBVIOUS
            <6> QED BY <2>5, <6>1, <6>2
          <5>2. i + d # j + d
            BY <5>1
          <5> QED BY <2>6, <5>1, <5>2
        <4> QED BY <1>4, <2>6, <3>1, <4>1
      <3> QED BY <3>2, <3>3
    <2>9. Len(R) <= KeptCap
      BY <2>2, <2>3, <2>5
    <2> QED BY <2>5, <2>7, <2>8, <2>9
  <1> QED BY <1>7, <1>8

Once(C) == \A i, j \in DOMAIN C : i # j => C[i] # C[j]

\* A candidate that is learned goes behind the others, one that is preferred before them.
LEMMA PreferredFacts ==
  ASSUME NEW C \in Seq(Candidates), Once(C), NEW c \in Candidates
  PROVE  /\ Preferred(C, c) \in Seq(Candidates) /\ Once(Preferred(C, c))
         /\ Preferred(C, c) # <<>> /\ Preferred(C, c)[1] = c
  <1>1. DOMAIN C = 1..Len(C) /\ Len(C) \in Nat /\ \A i \in 1..Len(C) : C[i] \in Candidates
    BY LenProperties
  <1>2. QED
    <2> DEFINE K == {i \in DOMAIN C : C[i] # c}
               P == Part(C, K)
               I == <<c>> \o P
    <2>1. K \in SUBSET (1..Len(C)) /\ \A k \in K : k \in DOMAIN C /\ C[k] # c
      BY <1>1
    <2>2. Preferred(C, c) = I
      BY DEF Preferred
    <2> HIDE DEF K
    <2>3. /\ P \in Seq(Candidates) /\ Len(P) = Cardinality(K)
          /\ \E place \in [1..Cardinality(K) -> K] :
               /\ \A i \in 1..Cardinality(K) : P[i] = C[place[i]]
               /\ \A i, j \in 1..Cardinality(K) : i # j => place[i] # place[j]
      BY <2>1, PartFacts
    <2> HIDE DEF P
    <2>4. PICK place \in [1..Len(P) -> K] :
               /\ \A i \in 1..Len(P) : P[i] = C[place[i]]
               /\ \A i, j \in 1..Len(P) : i # j => place[i] # place[j]
      BY <2>3
    <2>5. /\ \A i \in 1..Len(P) : P[i] # c
          /\ \A i, j \in 1..Len(P) : i # j => P[i] # P[j]
      <3>1. \A i \in 1..Len(P) : place[i] \in K /\ P[i] = C[place[i]]
        BY <2>4
      <3>2. \A i \in 1..Len(P) : P[i] # c
        BY <2>1, <3>1
      <3>3. ASSUME NEW i \in 1..Len(P), NEW j \in 1..Len(P), i # j PROVE P[i] # P[j]
        BY <2>1, <2>4, <3>1, <3>3 DEF Once
      <3> QED BY <3>2, <3>3
    <2>6. Len(P) \in Nat /\ <<c>> \in Seq(Candidates) /\ Len(<<c>>) = 1 /\ <<c>>[1] = c
      BY <2>3, LenProperties
    <2>7. /\ I \in Seq(Candidates) /\ Len(I) = 1 + Len(P) /\ I[1] = c
          /\ \A i \in 2..Len(I) : I[i] = P[i - 1] /\ i - 1 \in 1..Len(P)
      <3>1. I \in Seq(Candidates) /\ Len(I) = 1 + Len(P)
        BY <2>3, <2>6, ConcatProperties
      <3>2. \A i \in 1..Len(I) : I[i] = IF i <= 1 THEN <<c>>[i] ELSE P[i - 1]
        BY <2>3, <2>6, ConcatProperties
      <3> HIDE DEF I
      <3> QED BY <2>6, <3>1, <3>2
    <2> HIDE DEF I
    <2>8. DOMAIN I = 1..Len(I) /\ I # <<>>
      BY <2>6, <2>7, LenProperties, EmptySeq
    <2>9. Once(I)
      <3> SUFFICES ASSUME NEW i \in 1..Len(I), NEW j \in 1..Len(I), i < j PROVE I[i] # I[j]
        BY <2>6, <2>7, <2>8 DEF Once
      <3>1. j \in 2..Len(I) /\ I[j] = P[j - 1] /\ j - 1 \in 1..Len(P)
        BY <2>6, <2>7
      <3>2. CASE i = 1
        BY <2>5, <2>7, <3>1, <3>2
      <3>3. CASE i # 1
        <4>1. i \in 2..Len(I) /\ I[i] = P[i - 1] /\ i - 1 \in 1..Len(P) /\ i - 1 # j - 1
          BY <2>6, <2>7, <3>3
        <4> QED BY <2>5, <3>1, <4>1
      <3> QED BY <3>2, <3>3
    <2> QED BY <2>2, <2>7, <2>8, <2>9

LEMMA LearnedFacts ==
  ASSUME NEW C \in Seq(Candidates), Once(C), NEW c \in Candidates
  PROVE  /\ Learned(C, c) \in Seq(Candidates) /\ Once(Learned(C, c)) /\ Learned(C, c) # <<>>
         /\ C # <<>> => Learned(C, c)[1] = C[1]
  <1>1. DOMAIN C = 1..Len(C) /\ Len(C) \in Nat /\ \A i \in 1..Len(C) : C[i] \in Candidates
    BY LenProperties
  <1>2. CASE \E i \in DOMAIN C : C[i] = c
    <2>1. Learned(C, c) = C
      BY <1>2 DEF Learned
    <2>2. C # <<>>
      BY <1>2
    <2> QED BY <2>1, <2>2
  <1>3. CASE ~\E i \in DOMAIN C : C[i] = c
    <2> DEFINE I == Append(C, c)
    <2>1. Learned(C, c) = I
      BY <1>3 DEF Learned
    <2>2. /\ I \in Seq(Candidates) /\ Len(I) = Len(C) + 1 /\ I[Len(I)] = c
          /\ \A i \in 1..Len(C) : I[i] = C[i]
      BY <1>1, AppendProperties
    <2> HIDE DEF I
    <2>3. DOMAIN I = 1..Len(I) /\ I # <<>>
      BY <1>1, <2>2, LenProperties, EmptySeq
    <2>4. Once(I)
      <3> SUFFICES ASSUME NEW i \in 1..Len(I), NEW j \in 1..Len(I), i < j PROVE I[i] # I[j]
        BY <1>1, <2>2, <2>3 DEF Once
      <3>1. i \in 1..Len(C) /\ i \in DOMAIN C /\ I[i] = C[i]
        BY <1>1, <2>2
      <3>2. CASE j = Len(I)
        BY <1>3, <2>2, <3>1, <3>2
      <3>3. CASE j # Len(I)
        <4>1. j \in 1..Len(C) /\ j \in DOMAIN C /\ I[j] = C[j] /\ i # j
          BY <1>1, <2>2, <3>3
        <4> QED BY <3>1, <4>1 DEF Once
      <3> QED BY <3>2, <3>3
    <2>5. C # <<>> => I[1] = C[1]
      BY <1>1, <2>2, EmptySeq
    <2> QED BY <1>3, <2>1, <2>2, <2>3, <2>4, <2>5
  <1> QED BY <1>2, <1>3

LEMMA CleanFacts ==
  ASSUME NEW s \in ProtoTopics, NEW a, a.schema \in FileIds, a.type \in TypeNames
  PROVE  Clean(a) \in Candidates /\ CleanTopic[s] \in ProtoTopics
  BY ProtoAssumption DEF Candidates, CleanIds, Clean

LEMMA LearnFacts ==
  ASSUME ProtoTyped, NEW s \in ProtoTopics, NEW a, a.schema \in FileIds, a.type \in TypeNames
  PROVE  LET O == Learn(s, a)
         IN  /\ O \in [ProtoTopics -> Seq(Candidates)] /\ \A r \in ProtoTopics : Once(O[r])
             /\ \A r \in ProtoTopics : own[r] # <<>> => O[r] # <<>> /\ O[r][1] = own[r][1]
  <1> DEFINE c == Clean(a)
             t == CleanTopic[s]
             L == Learned(own[t], c)
  <1>1. c \in Candidates /\ t \in ProtoTopics
    BY CleanFacts
  <1>2. own \in [ProtoTopics -> Seq(Candidates)] /\ \A r \in ProtoTopics : Once(own[r])
    BY DEF ProtoTyped, ProtoTypeOK, Once
  <1>3. Learn(s, a) = [own EXCEPT ![t] = L]
    BY DEF Learn
  <1> HIDE DEF c, t
  <1>4. L \in Seq(Candidates) /\ Once(L) /\ L # <<>> /\ (own[t] # <<>> => L[1] = own[t][1])
    BY <1>1, <1>2, LearnedFacts
  <1> HIDE DEF L
  <1> QED BY <1>1, <1>2, <1>3, <1>4

LEMMA PreferFacts ==
  ASSUME ProtoTyped, NEW s \in ProtoTopics, NEW a, a.schema \in FileIds, a.type \in TypeNames
  PROVE  LET O == Prefer(s, a)
         IN  /\ O \in [ProtoTopics -> Seq(Candidates)] /\ \A r \in ProtoTopics : Once(O[r])
             /\ O[CleanTopic[s]] # <<>> /\ O[CleanTopic[s]][1] = Clean(a)
  <1> DEFINE c == Clean(a)
             t == CleanTopic[s]
             P == Preferred(own[t], c)
  <1>1. c \in Candidates /\ t \in ProtoTopics
    BY CleanFacts
  <1>2. own \in [ProtoTopics -> Seq(Candidates)] /\ \A r \in ProtoTopics : Once(own[r])
    BY DEF ProtoTyped, ProtoTypeOK, Once
  <1>3. Prefer(s, a) = [own EXCEPT ![t] = P]
    BY DEF Prefer
  <1> HIDE DEF c, t
  <1>4. P \in Seq(Candidates) /\ Once(P) /\ P # <<>> /\ P[1] = c
    BY <1>1, <1>2, PreferredFacts
  <1> HIDE DEF P
  <1> QED BY <1>1, <1>2, <1>3, <1>4 DEF c, t

-----------------------------------------------------------------------------
(* Every step keeps the invariant. *)

LEMMA ProtoStarts == ProtoInit => ProtoInv
  <1> SUFFICES ASSUME ProtoInit PROVE ProtoInv
    OBVIOUS
  <1>1. own \in [ProtoTopics -> Seq(Candidates)] /\ \A s \in ProtoTopics : own[s] = <<>> /\ DOMAIN own[s] = {}
    BY EmptySeq DEF ProtoInit
  <1>2. reading \in Seq(0..protoDir) /\ Len(reading) <= 1 /\ reading[1] = 0
    BY ConstantFacts DEF ProtoInit
  <1>3. resolved \in Seq(KeptAnswer) /\ Len(resolved) <= KeptCap /\ DOMAIN resolved = {}
    <2>1. resolved = <<>> /\ Len(<<>>) = 0 /\ DOMAIN <<>> = {} /\ KeptCap \in Nat
      BY EmptySeq, ConstantFacts DEF ProtoInit
    <2> QED BY <2>1, EmptySeq
  <1>4. picks \in 0..MaxPicks /\ files \in 0..protoDir /\ resolvedFor \in 0..files
    <2>1. picks = 0 /\ files = 0 /\ protoDir = 1 /\ resolvedFor = 0 /\ MaxPicks \in Nat
      BY ConstantFacts DEF ProtoInit
    <2> QED BY <2>1
  <1>5. ProtoTypeOK
    BY <1>1, <1>2, <1>3, <1>4, ConstantFacts DEF ProtoTypeOK, ProtoInit
  <1>6. ProtoTyped
    BY <1>1, <1>2, <1>3, <1>5 DEF ProtoTyped, ProtoInit
  <1>7. KeptFresh /\ ChoiceFirst
    BY <1>3 DEF KeptFresh, AnswersRight, ChoiceFirst, ProtoInit
  <1> QED BY <1>6, <1>7 DEF ProtoInv

\* The read under way and the number of choices are all that changes.
LEMMA ServerSteps ==
  ASSUME ProtoTyped, UNCHANGED <<files, KeptAnswers, Memory, commits, card, manual>>,
         protoDir' \in FileContents, protoDir <= protoDir',
         reading' \in Seq(0..protoDir'), Len(reading') <= 1,
         reading' # <<>> /\ reading'[1] # 0 => files <= reading'[1],
         controls' \in BOOLEAN, due' \in BOOLEAN, picks' \in 0..MaxPicks
  PROVE  ProtoTyped'
  <1>1. files' \in 0..protoDir'
    <2>1. protoDir \in Nat /\ files \in Nat /\ files <= protoDir
      BY TypedFacts
    <2>2. protoDir' \in Nat
      BY ConstantFacts DEF FileContents
    <2> QED BY <2>1, <2>2
  <1>2. ProtoTypeOK'
    BY <1>1 DEF ProtoTyped, ProtoTypeOK, KeptAnswers, Memory
  <1> QED BY <1>2 DEF ProtoTyped, KeptAnswers, Memory

\* What was right stays right while nothing is kept, learned or chosen.
LEMMA Rests ==
  ASSUME ProtoInv, ProtoTyped', UNCHANGED <<files, KeptAnswers, own>>,
         due' \/ UNCHANGED <<card, manual, due>>
  PROVE  ProtoInv'
  <1>1. KeptFresh'
    BY SameFiles DEF ProtoInv, KeptFresh, AnswersRight, StillFor, KeptAnswers
  <1>2. ChoiceFirst'
    <2>1. CASE due'
      BY <2>1 DEF ChoiceFirst
    <2>2. CASE UNCHANGED <<card, manual, due>>
      <3>1. Choice' = Choice /\ Chosen' = Chosen
        BY <2>2 DEF Choice, Chosen
      <3>2. Works(Choice, card.bytes, "fields")' = Works(Choice, card.bytes, "fields")
        BY <2>2, <3>1, SameFiles
      <3> QED BY <2>2, <3>1, <3>2 DEF ProtoInv, ChoiceFirst
    <2> QED BY <2>1, <2>2
  <1> QED BY <1>1, <1>2 DEF ProtoInv

LEMMA FilesKeep ==
  ASSUME ProtoInv, FilesChange \/ Refresh \/ ServerReads \/ FilesCome \/ FilesFail
  PROVE  ProtoInv'
  <1>1. /\ protoDir \in FileContents /\ protoDir \in Nat /\ files \in Nat /\ files <= protoDir
        /\ reading \in Seq(0..protoDir) /\ Len(reading) <= 1
        /\ controls \in BOOLEAN /\ due \in BOOLEAN /\ picks \in 0..MaxPicks
        /\ reading # <<>> /\ reading[1] # 0 => files <= reading[1]
    BY TypedFacts DEF ProtoInv, ProtoTyped, ProtoTypeOK
  <1>2. \A v \in Nat : <<v>> # <<>> /\ <<v>>[1] = v /\ Len(<<v>>) = 1
    OBVIOUS
  <1>3. <<>> \in Seq(0..protoDir') /\ Len(<<>>) = 0
    BY EmptySeq
  <1>4. CASE FilesChange
    <2>1. protoDir' \in Nat /\ protoDir <= protoDir' /\ reading' \in Seq(0..protoDir')
      <3>1. protoDir' = protoDir + 1 /\ reading' = reading
        BY <1>4 DEF FilesChange
      <3>2. Len(reading) \in Nat /\ DOMAIN reading = 1..Len(reading)
            /\ \A i \in 1..Len(reading) : reading[i] \in 0..protoDir
        BY <1>1, LenProperties
      <3>3. \A i \in 1..Len(reading) : reading[i] \in 0..(protoDir + 1)
        BY <1>1, <3>2
      <3>4. reading = [i \in 1..Len(reading) |-> reading[i]]
        BY <1>1, <3>2
      <3>5. reading \in Seq(0..(protoDir + 1))
        <4>1. reading \in [1..Len(reading) -> 0..(protoDir + 1)]
          BY <3>3, <3>4
        <4>2. \A S, n : n \in Nat => [1..n -> S] \subseteq Seq(S)
          OBVIOUS
        <4> QED BY <3>2, <4>1, <4>2
      <3> QED BY <1>1, <3>1, <3>5
    <2>2. ProtoTyped'
      BY <1>1, <1>4, <2>1, ServerSteps DEF FilesChange, ProtoInv, CardState
    <2> QED BY <1>4, <2>2, Rests DEF FilesChange, CardState, Memory
  <1>5. CASE Refresh
    <2>1. reading' \in Seq(0..protoDir') /\ reading' = <<0>> /\ protoDir' = protoDir
      BY <1>1, <1>5 DEF Refresh
    <2>2. ProtoTyped'
      BY <1>1, <1>2, <1>5, <2>1, ServerSteps DEF Refresh, ProtoInv, CardState
    <2> QED BY <1>5, <2>2, Rests DEF Refresh, CardState, Memory
  <1>6. CASE ServerReads
    <2>1. reading' \in Seq(0..protoDir') /\ reading' = <<protoDir>> /\ protoDir' = protoDir
      BY <1>1, <1>6 DEF ServerReads
    <2>2. ProtoTyped'
      BY <1>1, <1>2, <1>6, <2>1, ServerSteps DEF ServerReads, ProtoInv, CardState
    <2> QED BY <1>6, <2>2, Rests DEF ServerReads, CardState, Memory
  <1>7. CASE FilesFail
    <2>1. ProtoTyped'
      BY <1>1, <1>3, <1>7, ServerSteps DEF FilesFail, ProtoInv, CardState
    <2> QED BY <1>7, <2>1, Rests DEF FilesFail, CardState, Memory
  <1>8. CASE FilesCome
    <2>1. /\ files' = reading[1] /\ reading' = <<>> /\ due' = TRUE /\ reading[1] \in 0..protoDir
          /\ files <= files' /\ files' \in Nat
      <3>1. files' = reading[1] /\ reading' = <<>> /\ due' = TRUE /\ reading # <<>> /\ reading[1] # 0
        BY <1>8 DEF FilesCome
      <3>2. reading[1] \in 0..protoDir
        <4>1. Len(reading) \in Nat /\ Len(reading) # 0
              /\ \A i \in 1..Len(reading) : reading[i] \in 0..protoDir
          BY <1>1, <3>1, LenProperties, EmptySeq
        <4> QED BY <4>1
      <3> QED BY <1>1, <3>1, <3>2
    <2>2. resolvedFor \in 0..files /\ resolvedFor \in 0..files'
      <3>1. resolvedFor \in 0..files
        BY DEF ProtoInv, ProtoTyped, ProtoTypeOK
      <3> QED BY <1>1, <2>1, <3>1
    <2>3. ProtoTypeOK'
      <3>1. /\ files' \in 0..protoDir' /\ resolvedFor' \in 0..files'
            /\ reading' \in Seq(0..protoDir') /\ Len(reading') <= 1 /\ due' \in BOOLEAN
        BY <1>3, <1>8, <2>1, <2>2 DEF FilesCome, KeptAnswers
      <3> QED BY <1>8, <3>1 DEF FilesCome, ProtoInv, ProtoTyped, ProtoTypeOK, KeptAnswers, Memory
    <2>4. ProtoTyped'
      BY <1>8, <2>1, <2>3 DEF FilesCome, ProtoInv, ProtoTyped, KeptAnswers, Memory
    <2>5. KeptFresh'
      <3>1. CASE files' = files
        BY <1>8, <3>1, SameFiles DEF FilesCome, ProtoInv, KeptFresh, AnswersRight, StillFor, KeptAnswers
      <3>2. CASE files' # files
        <4>1. resolvedFor' = resolvedFor /\ resolvedFor # files'
          BY <1>1, <1>8, <2>1, <2>2, <3>2 DEF FilesCome, KeptAnswers
        <4> QED BY <4>1 DEF KeptFresh, StillFor
      <3> QED BY <3>1, <3>2
    <2>6. ChoiceFirst'
      BY <2>1 DEF ChoiceFirst
    <2> QED BY <2>4, <2>5, <2>6 DEF ProtoInv
  <1> QED BY <1>4, <1>5, <1>6, <1>7, <1>8

LEMMA PickKeeps ==
  ASSUME ProtoInv, NEW id \in FileIds \cup {Unset}, NEW t \in TypeNames \cup {Unset}, Pick(id, t)
  PROVE  ProtoInv'
  <1>1. ProtoTyped /\ ProtoTypeOK /\ picks \in 0..MaxPicks /\ MaxPicks \in Nat /\ card \in ProtoMessages
    BY ConstantFacts DEF ProtoInv, ProtoTyped, ProtoTypeOK
  <1>2. picks' \in 0..MaxPicks /\ due' = TRUE
    BY <1>1 DEF Pick
  <1>3. manual' \in [msg: ProtoMessages, schema: FileIds \cup {Unset}, type: TypeNames \cup {Unset}]
    BY <1>1 DEF Pick
  <1>4. ProtoTypeOK'
    BY <1>1, <1>2, <1>3 DEF Pick, ProtoTypeOK, Server, KeptAnswers, Memory
  <1>5. ProtoTyped'
    BY <1>1, <1>4 DEF Pick, ProtoTyped, Server, KeptAnswers, Memory
  <1> QED BY <1>2, <1>5, Rests DEF Pick, Server, Memory

LEMMA SelectedFacts ==
  ASSUME ProtoInv
  PROVE  /\ Selected.schema \in FileIds \cup {Unset} /\ Selected.type \in TypeNames \cup {Unset}
         /\ ~Chosen => Selected = Resolved(card) /\ Selected \in CardAnswers
         /\ Chosen => Selected = Choice
  <1>1. Resolved(card) \in CardAnswers
    BY TypedFacts, ResolvedIsWork DEF ProtoInv
  <1>2. Resolved(card).schema \in FileIds \cup {Unset} /\ Resolved(card).type \in TypeNames \cup {Unset}
    <2>1. \A a \in Pairs : a.schema \in FileIds /\ a.type \in TypeNames
      BY DEF Pairs
    <2>2. Nothing.schema = Unset /\ Nothing.type = Unset
      BY DEF Nothing
    <2> QED BY <1>1, <2>1, <2>2 DEF CardAnswers
  <1>3. manual.schema \in FileIds \cup {Unset} /\ manual.type \in TypeNames \cup {Unset}
    BY DEF ProtoInv, ProtoTyped, ProtoTypeOK, NoChoice
  <1> QED BY <1>1, <1>2, <1>3 DEF Selected, Choice

\* The user opens and closes the selectors, chooses, and moves to another message.
LEMMA CardKeeps ==
  ASSUME ProtoInv,
         \/ PickSchema(Selected) \/ PickType(Selected) \/ AutoDetectType(Selected, Detect(card.bytes))
         \/ OpenControls(Selected) \/ CloseControls(Selected) \/ \E m \in ProtoMessages : ShowCard(m)
  PROVE  ProtoInv'
  <1>1. ProtoTyped /\ ProtoTypeOK /\ picks \in 0..MaxPicks /\ MaxPicks \in Nat
    BY ConstantFacts DEF ProtoInv, ProtoTyped, ProtoTypeOK
  <1>2. card \in ProtoMessages /\ card.bytes \in Bytes
    BY <1>1, TypedFacts
  <1>3. Selected.schema \in FileIds \cup {Unset}
    BY SelectedFacts
  <1>5. CASE PickSchema(Selected)
    <2>1. PICK id \in {Files[i].id : i \in DOMAIN Files} \cup {Unset} : Pick(id, Unset)
      BY <1>5 DEF PickSchema
    <2>2. id \in FileIds \cup {Unset}
      BY <1>1, <2>1, TypedFacts, FileFacts DEF File
    <2> QED BY <2>1, <2>2, PickKeeps
  <1>6. CASE PickType(Selected)
    <2>1. PICK t \in TypesOffered(Selected) \cup {Unset} : Pick(Selected.schema, t)
      BY <1>6 DEF PickType
    <2>2. t \in TypeNames \cup {Unset}
      <3> SUFFICES ASSUME t \in TypesOffered(Selected) PROVE t \in TypeNames
        BY <2>1
      <3>1. PICK f \in SelectedFile(Selected) : \E i \in DOMAIN OwnTypes(f) : t = OwnTypes(f)[i]
        BY DEF TypesOffered
      <3>2. f \in File
        BY <1>1, <1>3, <3>1, TypedFacts, FileFacts DEF SelectedFile
      <3>3. OwnTypes(f) \in Seq(TypeNames)
        BY <3>2, EmptySeq DEF OwnTypes, File
      <3> QED BY <3>1, <3>3, LenProperties
    <2> QED BY <1>3, <2>1, <2>2, PickKeeps
  <1>7. CASE AutoDetectType(Selected, Detect(card.bytes))
    <2>1. Detect(card.bytes) \in Pairs
      BY <1>1, <1>2, <1>7, TypedFacts, DetectFacts DEF AutoDetectType, CardAnswers
    <2> QED BY <1>7, <2>1, PickKeeps DEF AutoDetectType, Pairs
  <1>8. CASE OpenControls(Selected) \/ CloseControls(Selected)
    <2>1. controls' \in BOOLEAN /\ UNCHANGED <<Server, KeptAnswers, Memory, commits, card, manual, due, picks>>
      BY <1>8 DEF OpenControls, CloseControls
    <2>2. ProtoTyped'
      BY <1>1, <2>1 DEF ProtoTyped, ProtoTypeOK, Server, KeptAnswers, Memory
    <2> QED BY <2>1, <2>2, Rests DEF Server, Memory
  <1>9. CASE \E m \in ProtoMessages : ShowCard(m)
    <2>1. PICK m \in ProtoMessages : ShowCard(m)
      BY <1>9
    <2>2. picks' \in 0..MaxPicks
      BY <1>1, <2>1 DEF ShowCard
    <2>3. due' = TRUE
      BY <2>1 DEF ShowCard
    <2>4. ProtoTyped'
      BY <1>1, <2>1, <2>2, <2>3 DEF ShowCard, ProtoTyped, ProtoTypeOK, Server, KeptAnswers, Memory
    <2> QED BY <2>1, <2>3, <2>4, Rests DEF ShowCard, Server, Memory
  <1> QED BY <1>5, <1>6, <1>7, <1>8, <1>9

\* An answer that is kept.
LEMMA KeepsFresh ==
  ASSUME ProtoInv, NEW m \in ProtoMessages, UNCHANGED <<Server, pattern, card, controls, picks>>,
         resolvedFor' = files, resolved' = Keep(m, Resolved(m)),
         own' \in [ProtoTopics -> Seq(Candidates)], \A s \in ProtoTopics : Once(own'[s]),
         commits' \subseteq [topic: ProtoTopics, schema: FileIds, type: TypeNames],
         manual' \in {manual, NoChoice}, due' \in BOOLEAN
  PROVE  ProtoTyped' /\ KeptFresh'
  <1>1. /\ resolved' \in Seq(KeptAnswer) /\ Len(resolved') <= KeptCap /\ AnswersRight(resolved')
        /\ \A i, j \in DOMAIN resolved' : i # j => resolved'[i].msg # resolved'[j].msg
    BY KeepFacts DEF ProtoInv
  <1>2. /\ \A i \in DOMAIN resolved' : resolved'[i].msg \in ProtoMessages
        /\ \A i \in DOMAIN resolved' : resolved'[i].answer \in Pairs \cup {Nothing}
    <2>1. \A i \in DOMAIN resolved' : resolved'[i] \in KeptAnswer
      BY <1>1, LenProperties
    <2>2. \A k \in KeptAnswer : k.msg \in ProtoMessages /\ k.answer \in Pairs \cup {Nothing}
      BY DEF KeptAnswer, CardAnswers
    <2> QED BY <2>1, <2>2
  <1>3. \A s \in ProtoTopics : \A i, j \in DOMAIN own'[s] :
          own'[s][i] \in Candidates /\ (i # j => own'[s][i] # own'[s][j])
    BY LenProperties DEF Once
  <1>4. resolvedFor' \in 0..files'
    <2>1. files \in Nat
      BY TypedFacts DEF ProtoInv
    <2> QED BY <2>1 DEF Server
  <1>5. ProtoTypeOK'
    BY <1>1, <1>2, <1>3, <1>4 DEF ProtoInv, ProtoTyped, ProtoTypeOK, Server
  <1>6. ProtoTyped'
    BY <1>1, <1>5 DEF ProtoInv, ProtoTyped, Server
  <1>7. KeptFresh'
    BY <1>1, SameFiles DEF KeptFresh, AnswersRight, Server
  <1> QED BY <1>6, <1>7

LEMMA RowKeeps ==
  ASSUME ProtoInv, NEW m \in ProtoMessages, Row(m, Resolved(m))
  PROVE  ProtoInv'
  <1>1. commits' \subseteq [topic: ProtoTopics, schema: FileIds, type: TypeNames]
    <2>1. Resolved(m) \in CardAnswers
      BY ResolvedIsWork DEF ProtoInv
    <2>2. Committed(m, Resolved(m)) \subseteq [topic: ProtoTopics, schema: FileIds, type: TypeNames]
      BY <2>1 DEF Committed, Learnable, CardAnswers, Pairs, ProtoMessages
    <2> QED BY <2>2 DEF Row, ProtoInv, ProtoTyped, ProtoTypeOK
  <1>2. /\ own' \in [ProtoTopics -> Seq(Candidates)] /\ \A s \in ProtoTopics : Once(own'[s])
        /\ manual' = manual /\ due' \in BOOLEAN
    BY DEF Row, Memory, CardState, ProtoInv, ProtoTyped, ProtoTypeOK, Once
  <1>3. ProtoTyped' /\ KeptFresh'
    BY <1>1, <1>2, KeepsFresh DEF Row, Memory, CardState
  <1>4. ChoiceFirst'
    <2>1. Choice' = Choice /\ Chosen' = Chosen /\ files' = files
      BY DEF Choice, Chosen, Row, CardState, Server
    <2>2. Works(Choice, card.bytes, "fields")' = Works(Choice, card.bytes, "fields")
      BY <2>1, SameFiles DEF Row, CardState
    <2> QED BY <2>1, <2>2 DEF ProtoInv, ChoiceFirst, Row, CardState, Memory
  <1> QED BY <1>3, <1>4 DEF ProtoInv

LEMMA RowLearnsKeeps ==
  ASSUME ProtoInv, NEW e \in commits, RowLearns(e)
  PROVE  ProtoInv'
  <1>1. e.topic \in ProtoTopics /\ e.schema \in FileIds /\ e.type \in TypeNames /\ commits' \subseteq commits
    BY DEF RowLearns, ProtoInv, ProtoTyped, ProtoTypeOK
  <1>2. /\ own' \in [ProtoTopics -> Seq(Candidates)] /\ \A r \in ProtoTopics : Once(own'[r])
        /\ \A r \in ProtoTopics : own[r] # <<>> => own'[r] # <<>> /\ own'[r][1] = own[r][1]
    <2>1. own' = Learn(e.topic, e) /\ ProtoTyped
      BY DEF RowLearns, ProtoInv
    <2> DEFINE O == Learn(e.topic, e)
    <2>2. /\ O \in [ProtoTopics -> Seq(Candidates)] /\ \A r \in ProtoTopics : Once(O[r])
          /\ \A r \in ProtoTopics : own[r] # <<>> => O[r] # <<>> /\ O[r][1] = own[r][1]
      BY <1>1, <2>1, LearnFacts
    <2> HIDE DEF O
    <2> QED BY <2>1, <2>2 DEF O
  <1>3. \A s \in ProtoTopics : \A i, j \in DOMAIN own'[s] :
          own'[s][i] \in Candidates /\ (i # j => own'[s][i] # own'[s][j])
    BY <1>2, LenProperties DEF Once
  <1>4. ProtoTypeOK'
    BY <1>1, <1>3 DEF RowLearns, ProtoInv, ProtoTyped, ProtoTypeOK, Server, KeptAnswers, CardState
  <1>5. ProtoTyped'
    BY <1>2, <1>4 DEF RowLearns, ProtoInv, ProtoTyped, Server, KeptAnswers, CardState
  <1>6. files' = files /\ Choice' = Choice /\ Chosen' = Chosen
    BY DEF Choice, Chosen, RowLearns, CardState, Server
  <1>7. KeptFresh'
    BY <1>6, SameFiles DEF RowLearns, ProtoInv, KeptFresh, AnswersRight, StillFor, KeptAnswers
  <1>8. ChoiceFirst'
    <2>1. Works(Choice, card.bytes, "fields")' = Works(Choice, card.bytes, "fields")
      BY <1>6, SameFiles DEF RowLearns, CardState
    <2>2. card.topic \in ProtoTopics
      BY TypedFacts DEF ProtoInv
    <2> QED BY <1>2, <1>6, <2>1, <2>2 DEF ProtoInv, ChoiceFirst, RowLearns, CardState
  <1> QED BY <1>5, <1>7, <1>8 DEF ProtoInv

LEMMA CommitKeeps ==
  ASSUME ProtoInv, CardCommit(Selected)
  PROVE  ProtoInv'
  <1>1. /\ ProtoTyped /\ card \in ProtoMessages /\ card.topic \in ProtoTopics /\ card.bytes \in Bytes
        /\ files \in {0} \cup FileContents
    BY TypedFacts DEF ProtoInv
  <1>2. /\ own \in [ProtoTopics -> Seq(Candidates)] /\ \A s \in ProtoTopics : Once(own[s])
        /\ commits \subseteq [topic: ProtoTopics, schema: FileIds, type: TypeNames]
        /\ manual = NoChoice \/ manual \in [msg: ProtoMessages, schema: FileIds \cup {Unset}, type: TypeNames \cup {Unset}]
    BY DEF ProtoInv, ProtoTyped, ProtoTypeOK, Once
  <1>3. due' = FALSE /\ UNCHANGED <<Server, pattern, commits, card, controls, picks>> /\ files' = files
    BY DEF CardCommit, Server
  <1>4. CASE Chosen
    <2>1. /\ manual' = manual /\ UNCHANGED KeptAnswers
          /\ own' = (IF Works(Choice, card.bytes, "fields") THEN Prefer(card.topic, Choice) ELSE own)
      BY <1>4, SelectedFacts DEF CardCommit
    <2>2. Choice.type \in TypeNames \cup {Unset} /\ Choice.schema = manual.schema
      BY <1>2 DEF Choice, NoChoice
    <2>3. Choice' = Choice /\ Works(Choice, card.bytes, "fields")' = Works(Choice, card.bytes, "fields")
      <3>1. Choice' = Choice
        BY <2>1 DEF Choice
      <3> QED BY <1>3, <3>1, SameFiles
    <2>4. /\ own' \in [ProtoTopics -> Seq(Candidates)] /\ \A s \in ProtoTopics : Once(own'[s])
          /\ Works(Choice, card.bytes, "fields") =>
               /\ own'[CleanTopic[card.topic]] # <<>>
               /\ own'[CleanTopic[card.topic]][1] = Clean(Choice)
      <3>1. CASE ~Works(Choice, card.bytes, "fields")
        BY <1>2, <2>1, <3>1
      <3>2. CASE Works(Choice, card.bytes, "fields")
        <4>1. Choice.schema \in FileIds /\ Choice.type \in TypeNames
          BY <1>1, <2>2, <3>2, WorksFacts
        <4> DEFINE O == Prefer(card.topic, Choice)
        <4>2. /\ O \in [ProtoTopics -> Seq(Candidates)] /\ \A r \in ProtoTopics : Once(O[r])
              /\ O[CleanTopic[card.topic]] # <<>>
              /\ O[CleanTopic[card.topic]][1] = Clean(Choice)
          BY <1>1, <4>1, PreferFacts
        <4>3. own' = O
          BY <2>1, <3>2
        <4>4. Choice.schema = manual.schema /\ Choice.type = manual.type
          BY DEF Choice
        <4> HIDE DEF O
        <4> QED BY <4>2, <4>3, <4>4
      <3> QED BY <3>1, <3>2
    <2>5. ProtoTyped'
      <3>1. \A s \in ProtoTopics : \A i, j \in DOMAIN own'[s] :
              own'[s][i] \in Candidates /\ (i # j => own'[s][i] # own'[s][j])
        BY <2>4, LenProperties DEF Once
      <3>2. ProtoTypeOK'
        BY <1>3, <2>1, <3>1 DEF ProtoInv, ProtoTyped, ProtoTypeOK, Server, KeptAnswers
      <3> QED BY <1>3, <2>1, <2>4, <3>2 DEF ProtoInv, ProtoTyped, Server, KeptAnswers
    <2>6. KeptFresh'
      BY <1>3, <2>1, SameFiles DEF ProtoInv, KeptFresh, AnswersRight, StillFor, KeptAnswers
    <2>7. ChoiceFirst'
      <3>1. card' = card /\ manual' = manual
        BY <1>3, <2>1
      <3>2. SUFFICES ASSUME Works(Choice, card.bytes, "fields"),
                            CleanTopic[card.topic] = card.topic, CleanId[manual.schema] = manual.schema
                     PROVE  own'[card.topic] # <<>> /\ own'[card.topic][1] = Choice
        BY <2>3, <3>1 DEF ChoiceFirst
      <3>3. Clean(Choice) = Choice
        BY <3>2 DEF Clean, Choice
      <3> QED BY <2>4, <3>2, <3>3
    <2> QED BY <2>5, <2>6, <2>7 DEF ProtoInv
  <1>5. CASE ~Chosen
    <2>1. Selected = Resolved(card) /\ Selected \in CardAnswers
      BY <1>5, SelectedFacts
    <2>2. /\ manual' = NoChoice /\ resolvedFor' = files /\ resolved' = Keep(card, Resolved(card))
          /\ own' = (IF Learnable(card, Selected) THEN Learn(card.topic, Selected) ELSE own)
      BY <1>5, <2>1 DEF CardCommit
    <2>3. own' \in [ProtoTopics -> Seq(Candidates)] /\ \A s \in ProtoTopics : Once(own'[s])
      <3>1. CASE ~Learnable(card, Selected)
        BY <1>2, <2>2, <3>1
      <3>2. CASE Learnable(card, Selected)
        <4>1. Selected.schema \in FileIds /\ Selected.type \in TypeNames
          BY <2>1, <3>2 DEF Learnable, CardAnswers, Pairs
        <4> DEFINE O == Learn(card.topic, Selected)
        <4>2. O \in [ProtoTopics -> Seq(Candidates)] /\ \A r \in ProtoTopics : Once(O[r])
          BY <1>1, <4>1, LearnFacts
        <4>3. own' = O
          BY <2>2, <3>2
        <4> HIDE DEF O
        <4> QED BY <4>2, <4>3
      <3> QED BY <3>1, <3>2
    <2>4. ProtoTyped' /\ KeptFresh'
      BY <1>1, <1>2, <1>3, <2>2, <2>3, KeepsFresh
    <2>5. ~Chosen'
      BY <1>1, <1>3, <2>2, ConstantFacts DEF Chosen
    <2>6. ChoiceFirst'
      BY <2>5 DEF ChoiceFirst
    <2> QED BY <2>4, <2>6 DEF ProtoInv
  <1> QED BY <1>4, <1>5

LEMMA ProtoStep == ProtoInv /\ [ProtoNext]_protoVars => ProtoInv'
  <1> SUFFICES ASSUME ProtoInv, [ProtoNext]_protoVars PROVE ProtoInv'
    OBVIOUS
  <1>1. CASE UNCHANGED protoVars
    <2>1. ProtoTyped'
      BY <1>1 DEF protoVars, ProtoInv, ProtoTyped, ProtoTypeOK
    <2> QED BY <1>1, <2>1, Rests DEF protoVars, KeptAnswers
  <1>2. CASE FilesChange \/ Refresh \/ ServerReads \/ FilesCome \/ FilesFail
    BY <1>2, FilesKeep
  <1>3. CASE CardStep(Selected) \/ AutoDetectType(Selected, Detect(card.bytes))
    BY <1>3, CardKeeps, CommitKeeps DEF CardStep
  <1>4. CASE \E m \in ProtoMessages : Row(m, Resolved(m)) \/ ShowCard(m)
    BY <1>4, CardKeeps, RowKeeps
  <1>5. CASE \E e \in commits : RowLearns(e)
    BY <1>5, RowLearnsKeeps
  <1> QED BY <1>1, <1>2, <1>3, <1>4, <1>5 DEF ProtoNext

\* The row of the card's message is given what the card shows.
LEMMA RowShowsCard == ProtoInv => RowFollowsCard
  <1> SUFFICES ASSUME ProtoInv, ~due,
                      Chosen => /\ Works(Selected, card.bytes, "fields")
                                /\ CleanTopic[card.topic] = card.topic
                                /\ CleanId[Selected.schema] = Selected.schema
               PROVE  RowShows(card) = CardShows
    BY DEF RowFollowsCard
  <1>1. Selected = Resolved(card)
    <2>1. CASE ~Chosen
      BY <2>1, SelectedFacts
    <2>2. CASE Chosen
      <3>1. Selected = Choice /\ Choice.schema = manual.schema /\ Choice.type = manual.type
        BY <2>2, SelectedFacts DEF Choice
      <3>2. own[card.topic] # <<>> /\ own[card.topic][1] = Choice
        BY <2>2, <3>1 DEF ProtoInv, ChoiceFirst
      <3> DEFINE C == own[card.topic]
                 fits == {i \in DOMAIN C : Works(C[i], card.bytes, "fields")}
      <3>3. card \in ProtoMessages /\ card.topic \in ProtoTopics /\ C \in Seq(Candidates) /\ ProtoTyped
        BY TypedFacts DEF ProtoInv, ProtoTyped
      <3>4. Lookup(card.topic) = C
        BY <3>2, <3>3, LookupIsFirst
      <3>5. 1 \in fits /\ fits \in SUBSET DOMAIN C
        <4>1. 1 \in DOMAIN C
          BY <3>2, <3>3, LenProperties, EmptySeq
        <4> QED BY <2>2, <3>1, <3>2, <4>1
      <3>6. WorkOn(C, card.bytes) = Earliest(C, fits)
        BY <3>5 DEF WorkOn
      <3> HIDE DEF C, fits
      <3>7. Earliest(C, fits) = C[1]
        BY <3>3, <3>5, EarliestFacts
      <3>8. Resolved(card) = Work(card)
        BY <3>3, ResolvedIsWork DEF ProtoInv, AnswersCurrent
      <3> QED BY <3>1, <3>2, <3>4, <3>6, <3>7, <3>8 DEF Work, C
    <2> QED BY <2>1, <2>2
  <1> QED BY <1>1 DEF RowShows, CardShows

\* Rows and cards agree on the type of a payload, for any schemas, subjects and caps
\* (protobuf/resolve.ts:101-131, useProtobufSchema.ts:40-48).
THEOREM RowsFollowCards == ProtoSpec => []ProtoSound
  <1>1. ProtoInit => ProtoInv
    BY ProtoStarts
  <1>2. ProtoInv /\ [ProtoNext]_protoVars => ProtoInv'
    BY ProtoStep
  <1>3. ProtoInv => ProtoSound
    BY ResolvedIsWork, RowShowsCard DEF ProtoInv, ProtoTyped, ProtoSound
  <1> QED BY <1>1, <1>2, <1>3, PTL DEF ProtoSpec
=============================================================================

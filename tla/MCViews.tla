------------------------------ MODULE MCViews ------------------------------
(* The cards of messages, one kind per behaviour: live messages of one      *)
(* subject, the messages of a stream of two subjects, the cards that send a *)
(* request and wait for its answer, a card of one protobuf message with the *)
(* rows that show the same messages, and the server's side of a page.       *)
EXTENDS LiveMessages, StreamMessages, StreamBrowse, Requests, ProtoCards

VARIABLE view

\* Page sizes of one and two messages, and one that asks backwards.
MCIntervals == {1, 2, -2}
MCNameOf == [s \in 1..MaxSeq |-> IF s % 2 = 0 THEN "a" ELSE "b"]

\* The schemas directory before and after it changes: a type moves to a second file, a file
\* breaks, and one has a space in its name.
MCFile(id, types) == [id |-> id, types |-> types, broken |-> types = <<>>]
MCFilesOf == << <<MCFile("f", <<"T", "U">>)>>,
                <<MCFile("g", <<>>), MCFile("f", <<"U">>), MCFile("h h", <<"V", "U", "T">>)>> >>
MCWithFields == {<<1, "T", "p">>, <<1, "U", "p">>, <<1, "U", "q">>,
                 <<2, "U", "q">>, <<2, "U", "p">>, <<2, "V", "p">>}
MCNoFields == {<<1, "T", "q">>}
MCScoreOf == [e \in TypeNames \X Bytes |-> IF e[1] = "U" THEN 60 ELSE 95]
MCCleanTopic == [s \in ProtoTopics |-> "a"]
MCCleanId == [i \in FileIds |-> IF i = "h h" THEN "hh" ELSE i]
MCPatternsOf == {[s \in ProtoTopics |-> <<[schema |-> "f", type |-> "U", trusted |-> s # "a"]>>]}

\* Two messages in each second; filters that overlap, and one that meets every other message.
MCSubjectOf == [s \in 1..LastSeq |-> IF s % 2 = 0 THEN "a" ELSE "b"]
MCTimeOf == [s \in 1..LastSeq |-> (s + 1) \div 2]
MCPageRequests ==
  [by: {"forward", "backward"}, start: {0, 3}, limit: {1, 2},
   filters: {<<{"a", "b"}>>, <<{"a"}>>, <<{"b", "a"}, {"a"}>>}]
    \cup [by: {"time"}, start: {1, 2, 3}, limit: {2}, filters: {<<{"a"}, {"b"}>>}]

\* The views that are not the one at hand keep one of their initial states.
\* A stream that starts with fewer than two numbers meets what an emptied one meets, and a
\* card that starts with a negative page size what one meets whose dialog has set it.
OneStream == /\ last = 1 /\ alive = {1}
             /\ filter.interval = CHOOSE i \in Intervals : TRUE
MCInit == /\ view \in {"live", "stream", "browse", "requests", "proto"}
          /\ card = [bytes |-> "q", topic |-> "$a"]
          /\ IF view = "browse" THEN lastSeq \in 0..LastSeq /\ query \in PageRequests
             ELSE lastSeq = 0 /\ query = CHOOSE q \in PageRequests : TRUE
          /\ LiveInit /\ RequestInit /\ ProtoInit /\ BrowseInit /\ StreamInit
          /\ IF view = "stream" THEN last >= 2 /\ filter.interval > 0 ELSE OneStream
MCNext ==
  \/ view = "live" /\ LiveNext
     /\ UNCHANGED <<view, streamVars, browseVars, requestVars, protoVars>>
  \/ view = "stream" /\ StreamNext
     /\ UNCHANGED <<view, liveVars, browseVars, requestVars, protoVars>>
  \/ view = "browse" /\ BrowseNext
     /\ UNCHANGED <<view, liveVars, streamVars, requestVars, protoVars>>
  \/ view = "requests" /\ RequestNext
     /\ UNCHANGED <<view, liveVars, streamVars, browseVars, protoVars>>
  \/ view = "proto" /\ ProtoNext
     /\ UNCHANGED <<view, liveVars, streamVars, browseVars, requestVars>>

\* Bound: one subject is typed into the filter dialog, the other only picked.
OneTyped == custom \subseteq {"a"} /\ filter.names \subseteq {"b"}

\* Bound: a mixed list, of which nothing is promised, is followed only while a filter that
\* replaces it may still be applied or is on its way.
StillSaid == mixed => applies < MaxApplies \/ applying # {}

MCSpec == MCInit /\ [][MCNext]_<<view, liveVars, streamVars, browseVars, requestVars, protoVars>>
=============================================================================

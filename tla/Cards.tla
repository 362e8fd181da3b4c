------------------------------- MODULE Cards -------------------------------
(***************************************************************************)
(* The stores behind the cards: how each is built, which cards open below  *)
(* it, what it writes of itself into the session and what it reads back.   *)
(* A field is "void" while it is null or undefined, and "set" otherwise;   *)
(* editState has values of its own.                                        *)
(***************************************************************************)
EXTENDS Naturals, Sequences, FiniteSets, SequencesExt, Subsequences

Same(fields) == [x \in fields |-> x]
Nothing == Same({})

-----------------------------------------------------------------------------
(* getSerialization: key of the stored object |-> field of the store.       *)

CnnWrites == Same({"connection"})   \* its id only
MetricsWrites == Same({"connectionId"})
ClientsWrites == Same({"connectionId"})
MessagesWrites == Same({"connectionId", "subscriptions", "textSearch", "format"})
MessageWrites == Same({"message", "format"})
SendWrites == Same({"connectionId", "text", "subject", "subjects", "headers"})
SyncWrites == Same({"connectionId", "messageReceived", "messageSend", "subject", "headers"})
StreamsWrites == Same({"connectionId", "select"})
StreamWrites == [k \in {"connectionId", "stream", "allStream", "editState"} |->
                   IF k = "allStream" THEN "allStreams" ELSE k]
StreamMessagesWrites == Same({"connectionId", "stream", "format", "textSearch", "filter"})
ConsumersWrites == Same({"connectionId", "streamName", "select"})
ConsumerWrites == Same({"connectionId", "streamName", "consumer"})
BucketsWrites == Same({"connectionId", "select"})
BucketWrites == Same({"connectionId", "bucket", "editState"})
EntriesWrites == Same({"connectionId", "bucket", "select"})
EntryWrites == Same({"connectionId", "bucket", "kventry", "editState"})
JsonWrites == [k \in {"json"} |-> "value"]
LogsWrites == Nothing
AboutWrites == Nothing
ShortcutWrites == Nothing

Writes(t) ==
  CASE t = "connection" -> CnnWrites [] t = "cnn_metrics" -> MetricsWrites
    [] t = "client_metrics" -> ClientsWrites [] t = "messages" -> MessagesWrites
    [] t = "message" -> MessageWrites [] t = "message_send" -> SendWrites
    [] t = "sync" -> SyncWrites [] t = "streams" -> StreamsWrites [] t = "stream" -> StreamWrites
    [] t = "stream_messages" -> StreamMessagesWrites [] t = "consumers" -> ConsumersWrites
    [] t = "consumer" -> ConsumerWrites [] t = "buckets" -> BucketsWrites
    [] t = "bucket" -> BucketWrites [] t = "kventries" -> EntriesWrites
    [] t = "kventry" -> EntryWrites [] t = "json_config" -> JsonWrites [] t = "logs" -> LogsWrites
    [] t = "about" -> AboutWrites [] t = "shortcut" -> ShortcutWrites [] OTHER -> Nothing

(* setSerialization: field of the store |-> key of the stored object.       *)

CnnReads == Same({"connection"})
MetricsReads == Same({"connectionId"})
ClientsReads == Same({"connectionId"})
MessagesReads == Same({"connectionId", "subscriptions", "textSearch", "format"})
MessageReads == Same({"message", "format"})
SendReads == Same({"connectionId", "text", "subject", "subjects", "headers"})
SyncReads == Same({"connectionId", "messageReceived", "messageSend", "subject", "headers"})
StreamsReads == Same({"connectionId", "select"})
StreamReads == Same({"connectionId", "stream", "allStreams", "editState"})
\* The format comes from a cache in the browser, which setFormat keeps up to date.
StreamMessagesReads == Same({"connectionId", "stream", "format", "textSearch", "filter"})
ConsumersReads == Same({"connectionId", "streamName"})
ConsumerReads == Same({"connectionId", "streamName", "consumer"})
BucketsReads == Same({"connectionId", "select"})
BucketReads == Same({"connectionId", "bucket", "editState"})
EntriesReads == Same({"connectionId", "bucket", "select"})
EntryReads == Same({"connectionId", "bucket", "kventry", "editState"})
JsonReads == [x \in {"value"} |-> "json"]
LogsReads == Nothing
AboutReads == Nothing

Reads(t) ==
  CASE t = "connection" -> CnnReads [] t = "cnn_metrics" -> MetricsReads
    [] t = "client_metrics" -> ClientsReads [] t = "messages" -> MessagesReads
    [] t = "message" -> MessageReads [] t = "message_send" -> SendReads [] t = "sync" -> SyncReads
    [] t = "streams" -> StreamsReads [] t = "stream" -> StreamReads
    [] t = "stream_messages" -> StreamMessagesReads [] t = "consumers" -> ConsumersReads
    [] t = "consumer" -> ConsumerReads [] t = "buckets" -> BucketsReads
    [] t = "bucket" -> BucketReads [] t = "kventries" -> EntriesReads
    [] t = "kventry" -> EntryReads [] t = "json_config" -> JsonReads [] t = "logs" -> LogsReads
    [] t = "about" -> AboutReads [] OTHER -> Nothing

\* Fields a store neither writes nor reads.
Unsaved(t) ==
  CASE t \in {"connection", "consumer"} -> {"editState"} [] t = "kventry" -> {"editorText"}
    [] t = "json_config" -> {"onClose"} [] t \in {"message_send", "sync"} -> {"format"}
    [] OTHER -> {}
Fields(t) == DOMAIN Reads(t) \cup {Writes(t)[k] : k \in DOMAIN Writes(t)}
             \cup Unsaved(t)

-----------------------------------------------------------------------------
(* Building. *)

Buildable ==
  {"connections", "connection", "cnn_loader", "cnn_metrics", "client_metrics", "messages",
   "message", "message_send", "streams", "stream", "stream_messages", "buckets", "bucket",
   "kventries", "kventry", "consumers", "consumer", "logs", "about", "help", "sync",
   "json_config", "shortcut"}
\* The types a card is drawn for.
Drawn ==
  {"connections", "connection", "cnn_loader", "cnn_metrics", "client_metrics", "messages",
   "message", "message_send", "streams", "stream", "stream_messages", "consumers", "consumer",
   "buckets", "bucket", "kventries", "kventry", "logs", "about", "help", "sync",
   "json_config", "shortcut"}

NoView == [uuid |-> 0, type |-> "none", f |-> Nothing]

\* A uuid comes with the first deck the card is put into.
BuildStore(t, given, edit) ==
  [uuid |-> 0, type |-> t,
   f |-> [x \in Fields(t) |-> IF x \in given THEN "set"
                             ELSE IF x = "editState" THEN edit ELSE "void"]]
\* What a card needs to ask the server for its data.
Needed == {"connection", "connectionId", "stream", "streamName", "consumer", "bucket", "kventry",
           "message"}
OrNone(ok, view) == IF ok THEN view ELSE NoView
Has(p, fields) == \A x \in fields : p.f[x] = "set"

\* The cards of a connection ask whether it is known: while the list of connections is
\* still on its way, none is.
BuildConnectionMessages(p, known) ==
  OrNone(known /\ Has(p, {"connection"}), BuildStore("messages", {"connectionId"}, "read"))
BuildConnectionSync(p, known) ==
  OrNone(known /\ Has(p, {"connection"}), BuildStore("sync", {"connectionId"}, "read"))
BuildConnectionNew == BuildStore("connection", {}, "new")
BuildConnection == BuildStore("connection", {"connection"}, "read")
BuildConnectionMessageSend == BuildStore("message_send", {"connectionId", "subjects"}, "read")
BuildConnectionMetrics == BuildStore("cnn_metrics", {"connectionId"}, "read")
BuildClientMetrics == BuildStore("client_metrics", {"connectionId"}, "read")
BuildStreams(p, known) ==
  OrNone(known /\ Has(p, {"connection"}), BuildStore("streams", {"connectionId"}, "read"))
BuildStream(p) == OrNone(Has(p, {"connectionId"}),
  BuildStore("stream", {"connectionId", "stream"} \cup
               (IF p.type = "streams" THEN {"allStreams"} ELSE {}), "read"))
BuildStreamNew(p) == OrNone(Has(p, {"connectionId"}),
  BuildStore("stream", {"connectionId", "stream", "allStreams"}, "new"))
BuildStreamMessages(p) == OrNone(Has(p, {"connectionId", "stream"}) /\ p.f["editState"] # "new",
  BuildStore("stream_messages", {"connectionId", "stream"}, "read"))
BuildConsumers(p) == OrNone(Has(p, {"connectionId", "stream"}) /\ p.f["editState"] # "new",
  BuildStore("consumers", {"connectionId", "streamName"}, "read"))
BuildConsumer(p) == OrNone(Has(p, {"connectionId", "streamName"}),
  BuildStore("consumer", {"connectionId", "streamName", "consumer"}, "read"))
BuildConsumerNew(p) == OrNone(Has(p, {"connectionId"}),
  BuildStore("consumer", {"connectionId", "streamName", "consumer"}, "new"))
BuildBuckets(p, known) ==
  OrNone(known /\ Has(p, {"connection"}), BuildStore("buckets", {"connectionId"}, "read"))
BuildBucket(p) == OrNone(Has(p, {"connectionId"}),
  BuildStore("bucket", {"connectionId", "bucket"}, "read"))
BuildBucketNew(p) == OrNone(Has(p, {"connectionId"}),
  BuildStore("bucket", {"connectionId", "bucket"}, "new"))
BuildKVEntries(p) == OrNone(Has(p, {"connectionId", "bucket"}),
  BuildStore("kventries", {"connectionId", "bucket"}, "read"))
BuildKVEntry(p) == OrNone(Has(p, {"connectionId", "bucket"}),
  BuildStore("kventry", {"connectionId", "bucket", "kventry"}, "read"))
BuildKVEntryNew(p) == OrNone(Has(p, {"connectionId", "bucket"}),
  BuildStore("kventry", {"connectionId", "bucket", "kventry"}, "new"))
BuildMessageDetail == BuildStore("message", {"message", "format"}, "read")

-----------------------------------------------------------------------------
(* Opening: the views an opener may hand to the deck, NoView to close what is *)
(* below.  b: the type of the card below; d: shift is held, the view becomes  *)
(* a card of its own; known: the connections have been fetched.               *)

ToggledView(t, b, d, view) == {IF b # t \/ d THEN view ELSE NoView}

OpenMessages(p, b, d, known) == ToggledView("messages", b, d, BuildConnectionMessages(p, known))
OpenSync(p, b, d) == ToggledView("sync", b, d, BuildConnectionSync(p, TRUE))
OpenStreams(p, b, d, known) == ToggledView("streams", b, d, BuildStreams(p, known))
OpenBuckets(p, b, d, known) == ToggledView("buckets", b, d, BuildBuckets(p, known))
OpenMessageSend(p) == IF Has(p, {"connection"}) THEN {BuildConnectionMessageSend} ELSE {}
\* Nothing happens unless the connection has a source of metrics.
OpenMetrics(p, b, d) ==
  IF Has(p, {"connection"}) THEN ToggledView("cnn_metrics", b, d, BuildConnectionMetrics) ELSE {}
CnnOpens(p, b, d) ==
  UNION {OpenMessages(p, b, d, TRUE), OpenSync(p, b, d), OpenStreams(p, b, d, TRUE),
         OpenBuckets(p, b, d, TRUE), OpenMessageSend(p), OpenMetrics(p, b, d)}

OpenClients(b, d) == ToggledView("client_metrics", b, d, BuildClientMetrics)
OpenShortcut(b, d) ==
  {IF b = "none" \/ d THEN BuildStore("shortcut", {}, "read") ELSE NoView}

\* A click on a row opens it, or closes it when it is the one that is open.
SelectCnn(b, d) == {BuildConnection} \cup (IF b = "connection" /\ ~d THEN {NoView} ELSE {})
CreateCnn == {BuildConnectionNew}
OpenLoader(b) == {IF b = "cnn_loader" THEN NoView ELSE BuildStore("cnn_loader", {}, "read")}
CnnListOpens(b, d) ==
  SelectCnn(b, d) \cup (IF d THEN {} ELSE CreateCnn \cup OpenLoader(b))

\* Rows, and CREATE, of the other lists.
ListOpens(t, b, row, new) == {row, new} \cup (IF b = t THEN {NoView} ELSE {})

OpenConsumers(p) == {BuildConsumers(p)}
OpenStreamMessages(p) == {BuildStreamMessages(p)}
ToggleConsumer(p, b, d) == IF ~d /\ b = "consumers" THEN {NoView} ELSE OpenConsumers(p)
ToggleMessages(p, b, d) == IF ~d /\ b = "stream_messages" THEN {NoView} ELSE OpenStreamMessages(p)
JsonOf(b) ==
  {IF b = "json_config" THEN NoView ELSE BuildStore("json_config", {"value", "onClose"}, "read")}
OpenStreamJson(b) == JsonOf(b)
OpenBucketJson(b) == JsonOf(b)
OpenConsumerJson(b) == JsonOf(b)

\* With shift held too, the entries that are open already are not opened again.
OpenKVEntries(p, b) == {IF b # "kventries" THEN BuildKVEntries(p) ELSE NoView}
OpenStream(p) == {BuildStream(p)}

\* Another message is shown in the detail that is open, but for request/reply.
OpenMessageDetail(b) == {IF b = "message" THEN NoView ELSE BuildMessageDetail}
OpenStreamDetail(b) == {IF b = "message" THEN NoView ELSE BuildMessageDetail}
OpenSyncDetail(b) == {BuildMessageDetail} \cup (IF b = "message" THEN {NoView} ELSE {})
OpenSend == {BuildConnectionMessageSend}

Opens(p, b, d) ==
  CASE p.type = "connections" -> CnnListOpens(b, d)
    [] p.type = "connection" -> CnnOpens(p, b, d)
    [] p.type = "cnn_metrics" -> OpenClients(b, d)
    [] p.type = "about" -> OpenShortcut(b, d)
    [] p.type = "stream" -> ToggleConsumer(p, b, d) \cup ToggleMessages(p, b, d)
                              \cup (IF d THEN {} ELSE OpenStreamJson(b))
    [] p.type = "bucket" -> OpenKVEntries(p, b)
                              \cup (IF d THEN {} ELSE OpenStream(p) \cup OpenBucketJson(b))
    [] d -> {}
    [] p.type = "consumer" -> OpenConsumerJson(b)
    [] p.type = "streams" -> ListOpens("stream", b, BuildStream(p), BuildStreamNew(p))
    [] p.type = "buckets" -> ListOpens("bucket", b, BuildBucket(p), BuildBucketNew(p))
    [] p.type = "kventries" -> ListOpens("kventry", b, BuildKVEntry(p), BuildKVEntryNew(p))
    [] p.type = "consumers" -> ListOpens("consumer", b, BuildConsumer(p), BuildConsumerNew(p))
    [] p.type = "messages" -> OpenMessageDetail(b) \cup OpenSend
    [] p.type = "sync" -> OpenSyncDetail(b)
    [] p.type = "stream_messages" -> OpenStreamDetail(b)
    [] OTHER -> {}
=============================================================================

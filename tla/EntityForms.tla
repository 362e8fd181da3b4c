----------------------------- MODULE EntityForms -----------------------------
(***************************************************************************)
(* What the forms of the detail cards let the user change, and what else   *)
(* their handlers change: objects of the store are shared between the list *)
(* and the card, some are written in place, and some inputs of a form are  *)
(* open in every edit state.  Three machines: the form of a configuration, *)
(* the editor of a stream's sources, the authentications of a connection.  *)
(***************************************************************************)
EXTENDS Integers, Sequences, FiniteSets

CONSTANTS MaxEdits,    \* bound: fields changed since the last answer
          MaxSources,  \* bound: sources of a stream, authentications of a connection
          SourceNames,
          UnitSizes,   \* the units of a time, each a multiple of the one before
          MaxTime      \* bound: times tried

ASSUME FormAssumption ==
  /\ MaxEdits \in Nat \ {0} /\ MaxSources \in Nat \ {0} /\ MaxTime \in Nat
  /\ UnitSizes \in Seq(Nat \ {0}) /\ UnitSizes # <<>> /\ UnitSizes[1] = 1
  /\ \A i \in 1..(Len(UnitSizes) - 1) : UnitSizes[i + 1] % UnitSizes[i] = 0

VARIABLES form, sources, auth
formVars == <<form, sources, auth>>

-----------------------------------------------------------------------------
(* The inputs of the forms, section by section, and when they are open: "new" while the *)
(* entity is new, "edit" while it is new or edited, "any" in every state.               *)

StreamBase == [name |-> "new", description |-> "edit", storage |-> "new", subjects |-> "edit"]
StreamSources == [sources |-> "edit", mirror |-> "new"]
StreamRetention == [retention |-> "new", discard |-> "edit", discardNewPerSubject |-> "edit",
                    allowRollupHdrs |-> "edit", denyDelete |-> "new", denyPurge |-> "new"]
StreamLimits == [maxAge |-> "edit", maxBytes |-> "edit", maxConsumers |-> "new",
                 maxMsgSize |-> "edit", maxMsgs |-> "edit", maxMsgsPerSubject |-> "edit"]
StreamPublish == [numReplicas |-> "edit", placement |-> "edit", noAck |-> "edit",
                  duplicateWindow |-> "edit", republish |-> "edit"]
StreamAdvanced == [sealed |-> "edit", metadata |-> "any", allowMsgTtl |-> "edit",
                   subjectDeleteMarkerTtl |-> "edit", compression |-> "edit", firstSeq |-> "edit"]
StreamTransform == [subjectTransform |-> "edit", consumerLimits |-> "edit", inactiveThreshold |-> "any"]

ConsumerBase == [name |-> "new", durableName |-> "new", description |-> "edit", replayPolicy |-> "new"]
ConsumerDelivery == [deliverPolicy |-> "new", optStartSeq |-> "new", optStartTime |-> "any",
                     filterSubjects |-> "edit", filterSubject |-> "edit"]
ConsumerAck == [ackPolicy |-> "new", ackWait |-> "edit", maxDeliver |-> "edit", maxWaiting |-> "new",
                maxAckPending |-> "edit", sampleFreq |-> "edit", backoff |-> "edit"]
ConsumerPull == [maxBatch |-> "edit", maxExpires |-> "edit", maxBytes |-> "edit"]
ConsumerAdvanced == [pauseUntil |-> "new", numReplicas |-> "edit", inactiveThreshold |-> "edit",
                     memStorage |-> "new", metadata |-> "any"]

BucketBase == [bucket |-> "new", description |-> "edit", storage |-> "new"]
BucketSources == [sources |-> "edit", mirror |-> "new", republish |-> "edit"]
BucketStore == [history |-> "edit", ttl |-> "edit", maxValueSize |-> "edit", maxBytes |-> "edit",
                compression |-> "edit", replicas |-> "edit", placement |-> "edit"]

CnnForm == [name |-> "edit", hosts |-> "edit", auth |-> "edit", tlsAuth |-> "edit",
            metrics |-> "edit", inboxPrefix |-> "edit"]

(* A form is all of its sections; no input is in two of them. *)
Sections(parts) == [f \in UNION {DOMAIN s : s \in parts} |-> (CHOOSE s \in parts : f \in DOMAIN s)[f]]
StreamForm == Sections({StreamBase, StreamSources, StreamRetention, StreamLimits, StreamPublish,
                        StreamAdvanced, StreamTransform})
ConsumerForm == Sections({ConsumerBase, ConsumerDelivery, ConsumerAck, ConsumerPull, ConsumerAdvanced})
BucketForm == Sections({BucketBase, BucketSources, BucketStore})
FormOf(kind) == CASE kind = "stream" -> StreamForm
                  [] kind = "consumer" -> ConsumerForm
                  [] kind = "bucket" -> BucketForm
                  [] kind = "connection" -> CnnForm
FieldsOf(kind) == DOMAIN FormOf(kind)

\* What a consumer's policy lets start from; the others have no use for it.
StartOf(policy) == CASE policy = "seq" -> {"optStartSeq"} [] policy = "time" -> {"optStartTime"} [] OTHER -> {}

\* changed: what differs from the server's answer; lost: what a draft has no more;
\* shared: the objects the list's row has too, the configuration and those in it; row:
\* what was written through them.
NewForm(kind) == [kind |-> kind, edit |-> "new", changed |-> {}, lost |-> {}, shared |-> {}, row |-> {},
                  policy |-> "all", start |-> {}, limits |-> FALSE, below |-> FALSE, json |-> FALSE]
FormInit == form \in {NewForm(k) : k \in {"stream", "consumer", "bucket", "connection"}}

InputOpen(f) == CASE FormOf(form.kind)[f] = "new" -> form.edit = "new"
                  [] FormOf(form.kind)[f] = "edit" -> form.edit # "read"
                  [] OTHER -> TRUE
InputShown(f) == /\ f \in {"optStartSeq", "optStartTime"} => f \in StartOf(form.policy)
                 /\ form.kind = "stream" /\ f = "inactiveThreshold" => form.limits
Edited(f) == [form EXCEPT !.changed = @ \cup {f}, !.lost = @ \ {f}]

\* Most inputs give the card a copy of the configuration with the field in it.
Copied(f) == [Edited(f) EXCEPT !.shared = @ \ {"config"}]
ChangeProp(f) ==
  /\ f \notin {"deliverPolicy", "sources", "auth", "metrics"} /\ <<form.kind, f>> # <<"bucket", "placement">>
  /\ <<form.kind, f>> = <<"bucket", "mirror">> => "mirror" \in form.changed
  /\ form' = [Copied(f) EXCEPT !.start = IF f \in {"optStartSeq", "optStartTime"} THEN @ \cup {f} ELSE @,
                !.limits = IF f = "consumerLimits" THEN ~@ ELSE @]

\* Another policy forgets what the one before started from.
PickPolicy(p) ==
  form' = [Copied("deliverPolicy") EXCEPT !.policy = p, !.start = @ \cap StartOf(p)]

\* A source is put into the array the configuration has; one that is added or removed
\* makes a new array.
ThroughNested(f) == IF "nested" \in form.shared THEN {f} ELSE {}
ChangeSource == form' = [Copied("sources") EXCEPT !.row = @ \cup ThroughNested("sources")]
ChangeSources == form' = [Copied("sources") EXCEPT !.shared = {}]

\* So are a connection's authentications and metrics.
ChangeAuth(f) == form' = [Copied(f) EXCEPT !.row = @ \cup ThroughNested(f)]

\* A bucket's placement is written into the configuration itself; its mirror takes the
\* place of all of it.
ChangePlacement ==
  form' = [Edited("placement") EXCEPT !.row = @ \cup (IF "config" \in form.shared THEN {"placement"} ELSE {})]
CheckMirror ==
  form' = [form EXCEPT !.changed = {"mirror"}, !.lost = FieldsOf("bucket") \ {"mirror"}, !.shared = {}]

EditField(f) ==
  /\ InputOpen(f) /\ InputShown(f) /\ Cardinality(form.changed \cup {f}) <= MaxEdits
  /\ \/ ChangeProp(f)
     \/ f = "deliverPolicy" /\ \E p \in {"all", "seq", "time"} : PickPolicy(p)
     \/ f = "sources" /\ (ChangeSource \/ ChangeSources)
     \/ f \in {"auth", "metrics"} /\ ChangeAuth(f)
     \/ form.kind = "bucket" /\ f = "placement" /\ ChangePlacement
     \/ form.kind = "bucket" /\ f = "mirror" /\ CheckMirror

\* The JSON card, once it is open, puts back a configuration of its own.
OpenJson == form.edit # "read" /\ form.kind # "connection" /\ form' = [form EXCEPT !.below = TRUE]
ApplyJson(f) ==
  /\ form.below
  /\ form' = [form EXCEPT !.below = FALSE, !.json = TRUE, !.changed = {f}, !.lost = {}, !.shared = {},
                !.start = IF form.kind = "consumer" THEN {"optStartSeq", "optStartTime"} ELSE {}]

\* A save's answer is the card's and the row's from then on, if the list is there.
SaveForm ==
  /\ form.edit # "read"
  /\ \E listed \in BOOLEAN :
       form' = [form EXCEPT !.edit = "read", !.changed = {}, !.lost = {}, !.json = FALSE,
                  !.start = StartOf(form.policy),
                  !.shared = IF listed THEN {"config", "nested"} ELSE {}, !.row = IF listed THEN {} ELSE @]

\* Mutant: a connection is edited where the list has it.
EditForm_Shares == form.edit = "read" /\ form' = [form EXCEPT !.edit = "edit"]

\* A connection is cloned from its row.
EditForm == /\ form.edit = "read"
            /\ form' = [form EXCEPT !.edit = "edit", !.shared = IF form.kind = "connection" THEN {} ELSE @]

\* An answer, of whatever others have made of the entity.
FormAnswer(shared, changed) ==
  \E p \in IF form.kind = "consumer" THEN {"all", "seq", "time"} ELSE {"all"},
     l \in IF form.kind = "stream" THEN BOOLEAN ELSE {FALSE} :
    form' = [NewForm(form.kind) EXCEPT !.edit = "read", !.changed = changed, !.shared = shared,
               !.row = form.row, !.below = form.below, !.policy = p, !.start = StartOf(p), !.limits = l]
CancelForm == form.edit = "edit" /\ FormAnswer({}, {})
\* The row is opened again; a consumer's card asks for nothing when it is mounted, a
\* connection's shows the row.
OpenRow == form.edit = "read" /\ ~form.below /\ FormAnswer({"config", "nested"}, form.row)
FetchForm == form.edit = "read" /\ form.kind \in {"stream", "bucket"} /\ FormAnswer({}, {})
ReloadList == form.row # {} /\ form' = [form EXCEPT !.row = {}, !.shared = {}]

FormNext ==
  /\ \/ \E f \in FieldsOf(form.kind) : EditField(f) \/ ApplyJson(f)
     \/ OpenJson \/ SaveForm \/ EditForm \/ CancelForm \/ OpenRow \/ FetchForm \/ ReloadList
  /\ UNCHANGED <<sources, auth>>

-----------------------------------------------------------------------------
(* The sources of a stream or a bucket: the list, and the dialog of the one chosen in it. *)

\* external: what the dialog shows; the effect sets it when it is mounted and when the
\* name it shows is another one.
Dialog(list, chosen, mounted, name, external) ==
  [list |-> list, chosen |-> chosen,
   external |-> IF chosen = 0 THEN FALSE
                ELSE IF mounted /\ list[chosen].name = name THEN external ELSE list[chosen].ext]
Shown == IF sources.chosen = 0 THEN "" ELSE sources.list[sources.chosen].name

Render(list, chosen) == sources' = Dialog(list, chosen, sources.chosen # 0, Shown, sources.external)

SourcesInit ==
  \E n \in 0..MaxSources : \E list \in [1..n -> [name: SourceNames, ext: BOOLEAN]] :
    sources = Dialog(list, 0, FALSE, "", FALSE)

\* A click chooses a source, or closes the dialog of the one that is chosen.
ChooseSource(i) == Render(sources.list, IF sources.chosen = i THEN 0 ELSE i)
\* One without a name at a time.
AddSource == /\ Len(sources.list) < MaxSources /\ \A i \in DOMAIN sources.list : sources.list[i].name # ""
             /\ \E chosen \in {sources.chosen, Len(sources.list) + 1} :
                  Render(Append(sources.list, [name |-> "", ext |-> FALSE]), chosen)
RemoveSource(i) == Render([j \in 1..(Len(sources.list) - 1) |-> sources.list[IF j < i THEN j ELSE j + 1]], 0)
CloseSource == sources.chosen # 0 /\ Render(sources.list, 0)

NameSource(n) == /\ sources.chosen # 0
                 /\ Render([sources.list EXCEPT ![sources.chosen].name = n], sources.chosen)
\* A source that becomes external, or no longer is, loses its name.
CheckExternal ==
  /\ sources.chosen # 0
  /\ sources' = [sources EXCEPT !.list[sources.chosen] = [name |-> "", ext |-> ~sources.external],
                                !.external = ~@]

SourcesNext ==
  /\ \/ \E i \in DOMAIN sources.list : ChooseSource(i) \/ RemoveSource(i)
     \/ AddSource \/ CloseSource \/ CheckExternal \/ \E n \in SourceNames : NameSource(n)
  /\ UNCHANGED <<form, auth>>

-----------------------------------------------------------------------------
(* The authentications of a connection, and where its metrics come from. *)

\* open: the one whose form is open, with what the form has kept of it; late: the form
\* brought back whether it was active.
AuthInit == \E n \in 0..MaxSources : \E one \in 0..n, from \in {"none", "http", "nats"} :
  auth = [active |-> [i \in 1..n |-> i = one], http |-> from = "http", nats |-> from = "nats",
          open |-> 0, kept |-> FALSE, late |-> FALSE]

AddAuth == /\ Len(auth.active) < MaxSources
           /\ auth' = [auth EXCEPT !.active = Append(@, FALSE)]
DeleteAuth(i) ==
  auth' = [auth EXCEPT !.active = [j \in 1..(Len(@) - 1) |-> @[IF j < i THEN j ELSE j + 1]],
                       !.open = 0]
Activate(i) == auth' = [auth EXCEPT !.active = [j \in DOMAIN @ |-> ~@[i] /\ j = i], !.late = FALSE]
OpenAuth(i) == auth' = [auth EXCEPT !.open = i, !.kept = auth.active[i]]
CloseAuth == auth.open # 0 /\ auth' = [auth EXCEPT !.open = 0]
SaveAuth == /\ auth.open # 0
            /\ auth' = [auth EXCEPT !.active[auth.open] = auth.kept, !.open = 0,
                          !.late = @ \/ auth.kept # auth.active[auth.open]]
HttpSource == auth' = [auth EXCEPT !.http = ~@, !.nats = @ /\ auth.http]
NatsSource == auth' = [auth EXCEPT !.nats = ~@, !.http = @ /\ auth.nats]
AuthNext == /\ \/ AddAuth \/ CloseAuth \/ SaveAuth \/ HttpSource \/ NatsSource
               \/ \E i \in DOMAIN auth.active : DeleteAuth(i) \/ Activate(i) \/ OpenAuth(i)
            /\ UNCHANGED <<form, sources>>

FormsSpec == FormInit /\ SourcesInit /\ AuthInit /\ [][FormNext \/ SourcesNext \/ AuthNext]_formVars

-----------------------------------------------------------------------------
(* A limit with its accordion, and the unit a time is shown in. *)

Null == -2
Limit(off, on) == [off |-> off, on |-> on]
TimeLimits == {Limit(0, Null), Limit(0, 1)}
BytesLimits == {Limit(-1, 0), Limit(0, 1)}
NumberLimits == {Limit(-1, 0), Limit(-1, 1), Limit(0, 1)}
Toggled(l, check) == IF check THEN l.on ELSE l.off
Accordion(l, value) == (value # Null \/ l.on = Null) /\ value # l.off

\* The units are gone through from the smallest one, until one does not fit.
LargestUnit(t) ==
  LET fits == {i \in DOMAIN UnitSizes : \A j \in 1..i : t % UnitSizes[j] = 0}
  IN  CHOOSE i \in fits : \A j \in fits : j <= i

-----------------------------------------------------------------------------
(* Properties. *)

\* What the comments of types/Stream.ts and types/Consumer.ts call not editable, and read only.
NotEditable(kind) ==
  CASE kind = "stream" -> {"name", "retention", "maxConsumers", "storage", "mirror", "denyDelete", "denyPurge", "sealed"}
    [] kind = "consumer" -> {"name", "durableName", "replayPolicy", "deliverPolicy", "optStartSeq", "optStartTime",
                             "filterSubjects", "filterSubject", "ackPolicy", "numReplicas", "memStorage"}
    [] OTHER -> {}

\* The form of a stream or a consumer that exists changes nothing that the comments
\* call not editable (types/Stream.ts:29, types/Consumer.ts:54,63,106).  It does.
FixedKept == form.edit # "new" /\ ~form.json => form.changed \cap NotEditable(form.kind) = {}

\* What is typed into the detail of a consumer or a connection reaches the list's row
\* with its answer only: a connection is edited in a clone, a consumer's form copies
\* what it changes.
RowKept == form.kind \in {"consumer", "connection"} => form.row = {}

\* A consumer is asked to start where its policy says, and from nowhere else.
StartSound == form.kind = "consumer" /\ ~form.json => form.start \subseteq StartOf(form.policy)

\* A draft keeps what was typed, unless a bucket's mirror was checked.
DraftWhole == form.lost # {} => form.kind = "bucket" /\ form.edit = "new" /\ "mirror" \in form.changed

\* The dialog shows the API of a source that has one and of no other, where a name
\* tells one source from the others.
SourceShown ==
  LET list == sources.list
  IN  sources.chosen # 0 => \/ sources.external = list[sources.chosen].ext
                            \/ \E i \in DOMAIN list : i # sources.chosen /\ list[i].name = Shown

\* One authentication at most is active, unless a form that was open while another one
\* was made active was saved after that; and one source of metrics.
OneActive == /\ auth.late \/ Cardinality({i \in DOMAIN auth.active : auth.active[i]}) <= 1
             /\ ~(auth.http /\ auth.nats)

\* Checking a limit opens it and unchecking it closes it; the unit of a time is the
\* largest one it is a whole number of.
InputsSound ==
  /\ \A l \in TimeLimits \cup BytesLimits \cup NumberLimits :
       Accordion(l, Toggled(l, TRUE)) /\ ~Accordion(l, Toggled(l, FALSE))
  /\ \A t \in 1..MaxTime : \A i \in DOMAIN UnitSizes :
       t % UnitSizes[i] = 0 <=> i <= LargestUnit(t)

\* What a form writes, what it keeps and what it shows.
FormsSound == /\ RowKept /\ StartSound /\ DraftWhole
              /\ SourceShown /\ OneActive /\ InputsSound
=============================================================================

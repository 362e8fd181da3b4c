----------------------------- MODULE ProtoCards -----------------------------
(***************************************************************************)
(* Which message type a protobuf payload is decoded as: the provider of    *)
(* the schemas, the answers resolve.ts keeps for the rows of lists, what   *)
(* subjects are remembered by, and the card of one message, where the user *)
(* may choose another type.  A component renders with the values of the    *)
(* moment and its effects run after the commit, with those it rendered.    *)
(* The patterns subjects share are learned in TopicCaches: here a subject  *)
(* has its own candidates and those of one pattern.  A card with no text   *)
(* shows nothing, and schemas that are JSON already are left out.          *)
(***************************************************************************)
EXTENDS Naturals, Sequences, FiniteSets, Subsequences

CONSTANTS
  Bytes, ProtoTopics,
  FilesOf,        \* contents of the schemas directory: files [id, types, broken], in order
  WithFields,     \* <<content, type, payload>>: decodes, and has fields of the type
  NoFields,       \* <<content, type, payload>>: decodes, but has none
  ScoreOf,        \* [<<type, payload>> -> score of what is decoded]
  CleanTopic,     \* subject -> what is left of it without characters the cache refuses
  CleanId,        \* id of a file -> what is left of it, maybe no id
  PatternsOf,     \* what patterns may hold: subject -> candidates [schema, type, trusted]
  MaxQuick,       \* MAX_QUICK_SCHEMAS, 3 in the code
  KeptCap,        \* RESOLVED_CACHE_SIZE, 512 in the code
  MaxCommits,     \* bound: rendered rows whose effects are to run
  MaxPicks        \* bound: messages shown after the first, and choices of the user

FileContents == DOMAIN FilesOf
FilesIn(v) == {FilesOf[v][i] : i \in DOMAIN FilesOf[v]}
FileIds == {f.id : f \in UNION {FilesIn(v) : v \in FileContents}}
TypeNames == UNION {{f.types[i] : i \in DOMAIN f.types} : f \in UNION {FilesIn(v) : v \in FileContents}}
Unset == ""   \* instead of an id or a type
CleanIds == {CleanId[i] : i \in FileIds}
ASSUME ProtoAssumption ==
  /\ FilesOf \in Seq(Seq([id: FileIds, types: Seq(TypeNames), broken: BOOLEAN])) \ {<<>>}
  /\ Unset \notin FileIds \cup TypeNames
  /\ MaxQuick \in Nat /\ KeptCap \in Nat \ {0} /\ MaxPicks \in Nat
  /\ MaxCommits \in Nat
  /\ CleanTopic \in [ProtoTopics -> ProtoTopics] /\ DOMAIN CleanId = FileIds
  /\ PatternsOf \subseteq [ProtoTopics -> Seq([schema: CleanIds, type: TypeNames, trusted: BOOLEAN])]
  /\ WithFields \cap NoFields = {} /\ ScoreOf \in [TypeNames \X Bytes -> 50..100]

VARIABLES
  protoDir,   \* the content of the schemas directory
  files,      \* the content the provider has read, 0 before the first
  reading,    \* the read under way: <<>>, or <<what it brings>>, 0 before the server has read
  resolved,   \* the answers kept, oldest first: [msg, signature, answer]
  resolvedFor,\* the content they were worked out against
  own,        \* subject -> the candidates it is remembered by, the preferred one first
  pattern,    \* subject -> the candidates of the pattern that covers it
  commits,    \* rendered answers whose effect has not run: [topic, schema, type]
  card,       \* the message of the card: [bytes, topic]
  manual,     \* what the user chose: [msg, schema, type], or none
  controls,   \* the selectors have been asked for
  due,        \* the card has been rendered and its effects have not run
  picks

protoVars == <<protoDir, files, reading, resolved, resolvedFor, own, pattern, commits,
               card, manual, controls, due, picks>>
Server == <<protoDir, files, reading>>
KeptAnswers == <<resolved, resolvedFor>>
Memory == <<own, pattern>>
CardState == <<card, manual, controls, due, picks>>

ProtoMessages == [bytes: Bytes, topic: ProtoTopics]
Pairs == [schema: FileIds, type: TypeNames]
Candidates == [schema: CleanIds, type: TypeNames]
Nothing == [schema |-> Unset, type |-> Unset]
NoChoice == [msg |-> <<>>, schema |-> Unset, type |-> Unset]

ProtoTypeOK ==
  /\ protoDir \in FileContents /\ files \in 0..protoDir /\ resolvedFor \in 0..files
  /\ reading \in Seq(0..protoDir) /\ Len(reading) <= 1
  /\ Len(resolved) <= KeptCap
  /\ \A i, j \in DOMAIN resolved : i # j => resolved[i].msg # resolved[j].msg
  /\ \A i \in DOMAIN resolved : resolved[i].msg \in ProtoMessages /\ resolved[i].answer \in Pairs \cup {Nothing}
  /\ \A s \in ProtoTopics : \A i, j \in DOMAIN own[s] : own[s][i] \in Candidates /\ (i # j => own[s][i] # own[s][j])
  /\ commits \subseteq [topic: ProtoTopics, schema: FileIds, type: TypeNames]
  /\ card \in ProtoMessages /\ controls \in BOOLEAN /\ due \in BOOLEAN /\ picks \in 0..MaxPicks
  /\ manual = NoChoice \/ manual \in [msg: ProtoMessages, schema: FileIds \cup {Unset}, type: TypeNames \cup {Unset}]

ProtoInit ==
  /\ protoDir = 1 /\ files = 0 /\ reading = <<0>>
  /\ resolved = <<>> /\ resolvedFor = 0 /\ commits = {}
  /\ own = [s \in ProtoTopics |-> <<>>] /\ pattern \in PatternsOf
  /\ card \in ProtoMessages /\ manual = NoChoice /\ controls = FALSE /\ due = TRUE /\ picks = 0

-----------------------------------------------------------------------------
(* The schemas. *)

\* Somebody changes the directory.
FilesChange == /\ protoDir + 1 \in FileContents /\ protoDir' = protoDir + 1
               /\ UNCHANGED <<files, reading, KeptAnswers, Memory, commits, CardState>>

\* One read at a time; the button is disabled meanwhile.
Refresh == /\ reading = <<>> /\ reading' = <<0>>
           /\ UNCHANGED <<protoDir, files, KeptAnswers, Memory, commits, CardState>>
ServerReads == /\ reading = <<0>> /\ reading' = <<protoDir>>
               /\ UNCHANGED <<protoDir, files, KeptAnswers, Memory, commits, CardState>>

\* The answer is a new list, the same as it may be; without one what was there stays.
FilesCome == /\ reading # <<>> /\ reading[1] # 0
             /\ files' = reading[1] /\ reading' = <<>> /\ due' = TRUE
             /\ UNCHANGED <<protoDir, KeptAnswers, Memory, commits, card, manual, controls, picks>>
FilesFail == /\ reading # <<>> /\ reading' = <<>>
             /\ UNCHANGED <<protoDir, files, KeptAnswers, Memory, commits, CardState>>

Files == IF files = 0 THEN <<>> ELSE FilesOf[files]
SoundOf(F) == Part(F, {i \in DOMAIN F : ~F[i].broken})
Sound == SoundOf(Files)

\* All files are put into one root, which each of them is then given; a type declared again
\* is refused, and with it what its file declares after it.
Declared(T, f) == LET Again(i) == \E j \in DOMAIN T : T[j] = f.types[i]
                      n == CHOOSE n \in 0..Len(f.types) : /\ \A i \in 1..n : ~Again(i)
                                                          /\ n = Len(f.types) \/ Again(n + 1)
                  IN  T \o SubSeq(f.types, 1, n)
Merged(F) == LET merged[n \in 0..Len(F)] == IF n = 0 THEN <<>> ELSE Declared(merged[n - 1], F[n])
             IN  merged[Len(F)]
UnifiedRoots == [v \in FileContents |-> Merged(SoundOf(FilesOf[v]))]
InRoot(v, t) == \E i \in DOMAIN UnifiedRoots[v] : UnifiedRoots[v][i] = t
AllTypes(v) == UnifiedRoots[v]
OwnTypes(f) == IF f.broken THEN <<>> ELSE f.types

Decoding ==
  [v \in FileContents |-> [t \in TypeNames \cup {Unset} |-> [b \in Bytes |->
     IF ~InRoot(v, t) THEN "error"
     ELSE IF <<v, t, b>> \in WithFields THEN "fields"
     ELSE IF <<v, t, b>> \in NoFields THEN "empty" ELSE "error"]]]
Decode(f, t, b) == IF f.broken THEN "error" ELSE Decoding[files][t][b]

FindFile(F, id) == {F[i] : i \in {i \in DOMAIN F : F[i].id = id}}

-----------------------------------------------------------------------------
(* resolve.ts *)

Lookup(s) == IF own[s] # <<>> THEN own[s]
             ELSE LET T == Part(pattern[s], {i \in DOMAIN pattern[s] : pattern[s][i].trusted})
                  IN  [i \in DOMAIN T |-> [schema |-> T[i].schema, type |-> T[i].type]]

\* The types tried when no candidate fits: those of the first files, one with a high score
\* ends the search, otherwise the first of the best is taken.  Every file is given the same
\* root, so the first that is sound has the best score of all.
QuickFiles(v) == SoundOf(SubSeq(FilesOf[v], 1, IF Len(FilesOf[v]) < MaxQuick THEN Len(FilesOf[v]) ELSE MaxQuick))
DetectIn(v, b) ==
  LET T == AllTypes(v)
      hits == {i \in DOMAIN T : Decoding[v][T[i]][b] = "fields"}
      Score(i) == ScoreOf[<<T[i], b>>]
      high == {i \in hits : Score(i) > 90}
      best == IF high # {} THEN high ELSE {i \in hits : \A j \in hits : Score(j) <= Score(i)}
  IN  IF hits = {} THEN Nothing
      ELSE [schema |-> QuickFiles(v)[1].id, type |-> T[CHOOSE i \in best : \A j \in best : i <= j]]
Detections == [v \in FileContents |-> [b \in Bytes |->
                 IF QuickFiles(v) = <<>> THEN Nothing ELSE DetectIn(v, b)]]
Detect(b) == IF files = 0 THEN Nothing ELSE Detections[files][b]

Works(c, b, how) == \E f \in FindFile(Sound, c.schema) : Decode(f, c.type, b) = how

\* The first candidate the payload has fields under, then what is detected, then the first
\* that does not decode.  A candidate whose file is gone is passed over.
Earliest(C, K) == C[CHOOSE i \in K : \A j \in K : i <= j]
WorkOn(C, b) ==
  LET fits == {i \in DOMAIN C : Works(C[i], b, "fields")}
      fails == {i \in DOMAIN C : Works(C[i], b, "error")}
  IN  IF fits # {} THEN Earliest(C, fits)
      ELSE IF Detect(b) # Nothing THEN Detect(b)
      ELSE IF fails # {} THEN Earliest(C, fails) ELSE Nothing
Work(m) == WorkOn(Lookup(m.topic), m.bytes)

StillFor == resolvedFor = files
KeptYet == IF StillFor THEN resolved ELSE <<>>
KeptAt(m) == {i \in DOMAIN KeptYet : KeptYet[i].msg = m}

\* Mutant: an answer once kept is given for good.
Current_Any(m) == KeptAt(m)

\* An answer is good as long as its subject has the same candidates.
Current(m) == {i \in KeptAt(m) : KeptYet[i].signature = Lookup(m.topic)}
Resolved(m) == IF Current(m) # {} THEN KeptYet[CHOOSE i \in Current(m) : TRUE].answer ELSE Work(m)

\* An answer worked out again keeps its place; the oldest makes room for a new one.
Keep(m, a) ==
  LET new == [msg |-> m, signature |-> Lookup(m.topic), answer |-> a]
  IN  IF KeptAt(m) # {} THEN [i \in DOMAIN KeptYet |-> IF i \in KeptAt(m) THEN new ELSE KeptYet[i]]
      ELSE Append(IF Len(KeptYet) >= KeptCap THEN Tail(KeptYet) ELSE KeptYet, new)

Learnable(m, a) == a # Nothing /\ Works(a, m.bytes, "fields")
Committed(m, a) == IF Learnable(m, a)
                   THEN {[topic |-> m.topic, schema |-> a.schema, type |-> a.type]} ELSE {}

\* A row renders and writes nothing to the topic cache before its effect.
Row(m, a) == /\ commits' = commits \cup Committed(m, a) /\ Cardinality(commits') <= MaxCommits
             /\ resolvedFor' = files /\ resolved' = Keep(m, a)
             /\ UNCHANGED <<Server, Memory, CardState>>

\* Learning appends what is not there; what the user prefers goes to the front.
Learned(C, c) == IF \E i \in DOMAIN C : C[i] = c THEN C ELSE Append(C, c)
Preferred(C, c) == <<c>> \o Part(C, {i \in DOMAIN C : C[i] # c})

\* What is stored is stored under what the cache leaves of the names; what is looked up
\* is looked up under the names themselves.
Clean(a) == [schema |-> CleanId[a.schema], type |-> a.type]
Learn(s, a) == [own EXCEPT ![CleanTopic[s]] = Learned(@, Clean(a))]
Prefer(s, a) == [own EXCEPT ![CleanTopic[s]] = Preferred(@, Clean(a))]

RowLearns(e) == /\ e \in commits /\ commits' = commits \ {e}
                /\ own' = Learn(e.topic, e)
                /\ UNCHANGED <<Server, KeptAnswers, pattern, CardState>>

-----------------------------------------------------------------------------
(* The card: useProtobufSchema. *)

\* A choice is for the message it was made on.
Chosen == manual.msg = card
Selected == IF Chosen THEN [schema |-> manual.schema, type |-> manual.type] ELSE Resolved(card)
SelectedFile(sel) == FindFile(Files, sel.schema)

\* What the card displays, and what a row of a list does.
Display(how, sel) == CASE how = "error" -> [what |-> "error", sel |-> sel]
                       [] how = "none"  -> [what |-> "ask", sel |-> Nothing]
                       [] OTHER         -> [what |-> "data", sel |-> sel]
DecodedAs(sel, b) == IF sel.type = Unset \/ FindFile(Files, sel.schema) = {} THEN "none"
                     ELSE Decode(CHOOSE f \in FindFile(Files, sel.schema) : TRUE, sel.type, b)
CardShows == Display(DecodedAs(Selected, card.bytes), Selected)
RowShows(m) == Display(DecodedAs(Resolved(m), m.bytes), Resolved(m))

\* The selectors stand open, or there is nothing selected to head the card with.
SelectorShown(sel) == controls \/ sel.schema = Unset \/ sel.type = Unset \/ SelectedFile(sel) = {}
TypesOffered(sel) == UNION {{OwnTypes(f)[i] : i \in DOMAIN OwnTypes(f)} : f \in SelectedFile(sel)}

Pick(schema, type) == /\ picks < MaxPicks /\ picks' = picks + 1 /\ due' = TRUE
                      /\ manual' = [msg |-> card, schema |-> schema, type |-> type]
                      /\ UNCHANGED <<Server, KeptAnswers, Memory, commits, card, controls>>

\* Another schema leaves the type to be chosen.
PickSchema(sel) == /\ SelectorShown(sel) /\ Files # <<>> /\ reading = <<>>
                   /\ \E id \in {Files[i].id : i \in DOMAIN Files} \cup {Unset} : Pick(id, Unset)
PickType(sel) == /\ SelectorShown(sel) /\ TypesOffered(sel) # {}
                 /\ \E t \in TypesOffered(sel) \cup {Unset} : Pick(sel.schema, t)
AutoDetectType(sel, det) == /\ SelectorShown(sel) /\ TypesOffered(sel) # {} /\ det # Nothing
                            /\ Pick(det.schema, det.type)
OpenControls(sel) == /\ ~SelectorShown(sel) /\ controls' = TRUE
                     /\ UNCHANGED <<Server, KeptAnswers, Memory, commits, card, manual, due, picks>>
CloseControls(sel) == /\ controls /\ sel.schema # Unset /\ sel.type # Unset /\ TypesOffered(sel) # {}
                      /\ controls' = FALSE
                      /\ UNCHANGED <<Server, KeptAnswers, Memory, commits, card, manual, due, picks>>

\* The props change: the controls are closed by an effect of that commit.
ShowCard(m) == /\ picks < MaxPicks /\ m # card /\ picks' = picks + 1 /\ card' = m /\ due' = TRUE
               /\ controls' = FALSE
               /\ UNCHANGED <<Server, KeptAnswers, Memory, commits, manual>>

\* The effects of the card: an automatic answer is learned, a choice made on another message
\* is given up, and a choice the payload has fields under is preferred from now on.
CardCommit(sel) ==
  /\ due /\ due' = FALSE /\ manual' = (IF Chosen THEN manual ELSE NoChoice)
  /\ IF Chosen
     THEN /\ own' = (IF Works(sel, card.bytes, "fields")
                     THEN Prefer(card.topic, sel) ELSE own)
          /\ UNCHANGED KeptAnswers
     ELSE /\ own' = (IF Learnable(card, sel) THEN Learn(card.topic, sel) ELSE own)
          /\ resolvedFor' = files /\ resolved' = Keep(card, sel)
  /\ UNCHANGED <<Server, pattern, commits, card, controls, picks>>

CardStep(sel) == PickSchema(sel) \/ PickType(sel) \/ OpenControls(sel) \/ CloseControls(sel) \/ CardCommit(sel)
ProtoNext ==
  \/ FilesChange \/ Refresh \/ ServerReads \/ FilesCome \/ FilesFail
  \/ CardStep(Selected) \/ AutoDetectType(Selected, Detect(card.bytes))
  \/ \E m \in ProtoMessages : Row(m, Resolved(m)) \/ ShowCard(m)
  \/ \E e \in commits : RowLearns(e)
ProtoSpec == ProtoInit /\ [][ProtoNext]_protoVars

-----------------------------------------------------------------------------
(* Properties. *)

\* What a row is given without being worked out again is what working it out would give,
\* whatever schemas have come, and whatever its subject has learned, since it was kept.
AnswersCurrent == \A m \in ProtoMessages : Resolved(m) = Work(m)

\* Once the effects of a card have run, the row of its message shows what the card does, and
\* under the type the user chose on the card if the payload has fields under that.  A choice
\* is not found again if the cache has taken characters from the subject or the file's id.
RowFollowsCard ==
  LET Found == CleanTopic[card.topic] = card.topic /\ CleanId[Selected.schema] = Selected.schema
  IN  (~due /\ (Chosen => Works(Selected, card.bytes, "fields") /\ Found)) =>
         RowShows(card) = CardShows

\* Rows and cards agree on the type of a payload (protobuf/resolve.ts:101-131,
\* useProtobufSchema.ts:40-48).
ProtoSound == ProtoTypeOK /\ AnswersCurrent /\ RowFollowsCard
=============================================================================

----------------------------- MODULE CddlCards -----------------------------
(***************************************************************************)
(* Which CDDL rule a CBOR payload is read under: the store of the schemas, *)
(* the answers resolve.ts keeps for the rows of lists, what subjects are   *)
(* remembered by, and the card of one message, whose hook runs its effects *)
(* after each commit with the values that were rendered.                   *)
(***************************************************************************)
EXTENDS Naturals, Sequences, FiniteSets, Subsequences

CONSTANTS
  Payloads, Topics,
  RulesOf,        \* contents of the schemas directory -> its rules, in order
  FileOf,         \* rule -> its schema
  Accepted,       \* <<content, rule, payload>>: the payload satisfies the rule
  Broken,         \* <<content, schema>>: it does not compile
  MaxProbes,      \* MAX_SCHEMAS_TO_PROBE, 200 in the code
  MaxChoices,     \* bound: messages shown after the first, and choices of the user
  NoRule, NoPayload

Contents == DOMAIN RulesOf
RuleSet == UNION {{RulesOf[v][i] : i \in DOMAIN RulesOf[v]} : v \in Contents}
ASSUME CddlAssumption ==
  /\ RulesOf \in Seq(Seq(RuleSet)) /\ RulesOf # <<>> /\ NoRule \notin RuleSet
  /\ NoPayload \notin Payloads /\ MaxProbes \in Nat \ {0} /\ MaxChoices \in Nat

VARIABLES
  dir,        \* the content of the schemas directory
  loaded,     \* the content the store has read, 0 before the first
  loads,      \* reads under way: the contents they bring, 0 while the server has not read
  kept,       \* answers by payload and subject
  keptFor,    \* the content they were worked out against
  reported,   \* what was said: [what, topic]
  memory,     \* subject -> [rule, conf]: the topic cache, confidence in twentieths
  shown,      \* the message of the card: [payload, topic]
  picked,     \* the selection: [rule, cached, chosen]
  seen,       \* shown, loaded and picked as of the last commit
  choices

cddlVars == <<dir, loaded, loads, kept, keptFor, reported, memory, shown, picked, seen, choices>>
Messages == [payload: Payloads, topic: Topics]
NoAnswer == [rule |-> NoRule, cached |-> FALSE, stale |-> FALSE, known |-> FALSE]

CddlTypeOK ==
  /\ dir \in Contents /\ loaded \in 0..dir /\ keptFor \in 0..loaded
  /\ loads \in Seq(0..dir) /\ Len(loads) <= 1
  /\ kept \in [Messages -> [rule: RuleSet \cup {NoRule}, cached: BOOLEAN, stale: BOOLEAN, known: BOOLEAN]]
  /\ \A m \in Messages : kept[m].cached => ~kept[m].stale /\ kept[m].rule # NoRule
  /\ memory \in [Topics -> [rule: RuleSet \cup {NoRule}, conf: 0..20]]
  /\ shown \in [payload: Payloads \cup {NoPayload}, topic: Topics]
  /\ picked \in [rule: RuleSet \cup {NoRule}, cached: BOOLEAN, chosen: BOOLEAN]

CddlInit ==
  /\ dir = 1 /\ loaded = 0 /\ loads = <<>> /\ keptFor = 0 /\ reported = {} /\ choices = 0
  /\ kept = [m \in Messages |-> NoAnswer]
  /\ memory = [s \in Topics |-> [rule |-> NoRule, conf |-> 0]]
  /\ shown \in [payload: Payloads \cup {NoPayload}, topic: Topics]
  /\ picked = [rule |-> NoRule, cached |-> FALSE, chosen |-> FALSE]
  /\ seen = [shown |-> shown, loaded |-> 0, picked |-> picked]

-----------------------------------------------------------------------------
(* The schemas. *)

Store == <<dir, loaded, loads>>
Card == <<shown, picked, seen, choices>>

\* Somebody changes the directory.
DirChanges == /\ dir + 1 \in Contents /\ dir' = dir + 1
              /\ UNCHANGED <<loaded, loads, kept, keptFor, reported, memory, Card>>

Load == /\ loads = <<>> /\ loads' = <<0>>
        /\ UNCHANGED <<dir, loaded, kept, keptFor, reported, memory, Card>>
LoadReads(i) == /\ loads[i] = 0 /\ loads' = [loads EXCEPT ![i] = dir]
                /\ UNCHANGED <<dir, loaded, kept, keptFor, reported, memory, Card>>
\* The answer is taken, or does not come: what was there stays.
LoadEnds(i) == /\ loads' = [j \in 1..(Len(loads) - 1) |-> loads[IF j < i THEN j ELSE j + 1]]
               /\ loaded' \in {loaded} \cup ({loads[i]} \ {0})
               /\ UNCHANGED <<dir, kept, keptFor, reported, memory, Card>>

-----------------------------------------------------------------------------
(* resolve.ts *)

Holds(r, p) == <<loaded, r, p>> \in Accepted
Known == IF loaded = 0 THEN <<>> ELSE RulesOf[loaded]
Usable == Part(Known, {i \in DOMAIN Known : <<loaded, FileOf[Known[i]]>> \notin Broken})
Probed == Part(Usable, {i \in DOMAIN Usable : Cardinality({FileOf[Usable[j]] : j \in 1..i}) <= MaxProbes})
FileAmong(rules, r) == \E i \in DOMAIN rules : FileOf[rules[i]] = FileOf[r]

\* The first rule the payload satisfies.
Probe(p) ==
  LET hits == {i \in DOMAIN Probed : Holds(Probed[i], p)}
  IN  IF hits = {} THEN NoRule ELSE Probed[CHOOSE i \in hits : \A j \in hits : i <= j]

\* A thing is said once: for a subject, or for all when the bound is reached.
ProbeReport(m) ==
  IF Probe(m.payload) # NoRule THEN {[what |-> Probe(m.payload), topic |-> m.topic]}
  ELSE IF Probed = <<>> THEN {}
  ELSE IF Len(Usable) > Len(Probed) THEN {[what |-> "bound", topic |-> "all"]}
  ELSE {[what |-> "miss", topic |-> m.topic]}

\* Below half the confidence, or when its schema is gone, a mapping is not tried; whether
\* the schema still has the rule is not asked here.
Remembered(s) ==
  IF memory[s].conf > 10 /\ FileAmong(Usable, memory[s].rule) THEN memory[s].rule ELSE NoRule

Work(m) ==
  LET r == Remembered(m.topic)
  IN  IF r # NoRule /\ Holds(r, m.payload)
      THEN [rule |-> r, cached |-> TRUE, stale |-> FALSE, known |-> TRUE]
      ELSE [rule |-> Probe(m.payload), cached |-> FALSE, stale |-> r # NoRule, known |-> TRUE]

\* Mutant: answers stay when the schemas are replaced.
StillFor_Always == TRUE

\* Whether the answers kept are still for these schemas.
StillFor == keptFor = loaded
KeptNow == IF StillFor THEN kept ELSE [m \in Messages |-> NoAnswer]
Answer(m) == IF KeptNow[m].known THEN KeptNow[m] ELSE Work(m)

Resolve(m) ==
  /\ keptFor' = loaded /\ kept' = [KeptNow EXCEPT ![m] = Answer(m)]
  /\ reported' = (IF StillFor THEN reported ELSE {})
                   \cup (IF KeptNow[m].known \/ Answer(m).cached THEN {} ELSE ProbeReport(m))

\* A row of a list renders a message; it never writes to the topic cache.
Row(m) == loaded # 0 /\ Resolve(m) /\ UNCHANGED <<Store, memory, Card>>

-----------------------------------------------------------------------------
(* The card: useCddlSchema. *)

\* The props change: another message in the card, or a subject that is typed.
Show(payload, topic) ==
  /\ choices < MaxChoices /\ choices' = choices + 1
  /\ shown' = [payload |-> payload, topic |-> topic] /\ shown' # shown
  /\ UNCHANGED <<Store, kept, keptFor, reported, memory, picked, seen>>

Choosing(r) == /\ choices < MaxChoices /\ choices' = choices + 1
               /\ picked' = [rule |-> r, cached |-> FALSE, chosen |-> TRUE]
               /\ UNCHANGED <<Store, kept, keptFor, memory, shown, seen>>
\* A schema that does not compile offers no rule.
ChooseRule == \E i \in DOMAIN Usable : Choosing(Usable[i]) /\ UNCHANGED reported
ChooseNone == Choosing(NoRule) /\ UNCHANGED reported
\* What the subject carried before is ignored; finding nothing changes nothing.
AutoDetect == /\ shown.payload # NoPayload /\ Known # <<>>
              /\ reported' = reported \cup ProbeReport(shown)
              /\ IF Probe(shown.payload) # NoRule THEN Choosing(Probe(shown.payload))
                 ELSE UNCHANGED <<Store, kept, keptFor, memory, Card>>

Failed(e) == [rule |-> e.rule,
              conf |-> IF e.conf = 0 THEN 0 ELSE IF e.conf <= 5 THEN 2 ELSE e.conf - 3]
Decoded(e, r) == [rule |-> r, conf |-> IF e.rule = r /\ e.conf < 20 THEN e.conf + 1 ELSE 20]

NewMessage == seen.shown.payload # shown.payload
SelectionDue == seen.shown # shown \/ seen.loaded # loaded \/ seen.picked.chosen # picked.chosen
DecodeDue == \/ seen.shown # shown \/ seen.loaded # loaded
             \/ seen.picked.rule # picked.rule \/ seen.picked.cached # picked.cached
CommitDue == seen # [shown |-> shown, loaded |-> loaded, picked |-> picked]

\* The second effect: what the user has chosen stays; a payload is resolved, and a text
\* that is being written takes the rule of its subject.
Select == Known # <<>> /\ shown.payload # NoPayload /\ ~picked.chosen
PickUnread == IF Known = <<>> THEN NoRule ELSE Remembered(shown.topic)

\* The first effect: another payload forgets that the user has chosen.
Picking(r, fromCache) == [rule |-> r, cached |-> fromCache, chosen |-> picked.chosen /\ ~NewMessage]

\* The third effect: what was rendered is learned, or unlearned; a rule its schema no longer
\* has does not hold.
Learn(mem) ==
  LET s == shown.topic
      r == picked.rule
  IN  IF ~DecodeDue \/ shown.payload = NoPayload \/ r = NoRule \/ ~FileAmong(Known, r) THEN mem
      ELSE IF ~Holds(r, shown.payload) THEN [mem EXCEPT ![s] = Failed(@)]
      ELSE IF picked.cached THEN mem ELSE [mem EXCEPT ![s] = Decoded(@, r)]

\* One commit: the effects whose dependencies have changed run in their order, with
\* the values of this render; what they set is rendered next.
Commit ==
  /\ CommitDue /\ seen' = [shown |-> shown, loaded |-> loaded, picked |-> picked]
  /\ IF SelectionDue /\ Select
     THEN /\ Resolve(shown)
          /\ picked' = Picking(Answer(shown).rule, Answer(shown).cached)
          /\ memory' = Learn(IF Answer(shown).stale
                             THEN [memory EXCEPT ![shown.topic] = Failed(@)] ELSE memory)
     ELSE /\ picked' = IF SelectionDue /\ ~picked.chosen
                       THEN Picking(PickUnread, PickUnread # NoRule)
                       ELSE Picking(picked.rule, picked.cached)
          /\ memory' = Learn(memory) /\ UNCHANGED <<kept, keptFor, reported>>
  /\ UNCHANGED <<Store, shown, choices>>

CddlNext ==
  \/ DirChanges \/ Load \/ ChooseRule \/ ChooseNone \/ AutoDetect \/ Commit
  \/ \E i \in DOMAIN loads : LoadReads(i) \/ LoadEnds(i)
  \/ \E m \in Messages : Row(m)
  \/ \E p \in Payloads \cup {NoPayload}, s \in Topics : Show(p, s)
CddlSpec == CddlInit /\ [][CddlNext]_cddlVars

-----------------------------------------------------------------------------
(* Properties. *)

\* Once its effects have run, a card whose rule nobody chose shows its payload under a rule
\* of the schemas that are loaded which the payload satisfies, if any of those tried does.
SettledRule ==
  (~CommitDue /\ loaded # 0 /\ shown.payload # NoPayload /\ ~picked.chosen) =>
    IF picked.rule = NoRule THEN Probe(shown.payload) = NoRule ELSE Holds(picked.rule, shown.payload)

\* A payload is never left undetected without saying so.
NeverSilent ==
  \A m \in Messages : (StillFor /\ kept[m].known /\ kept[m].rule = NoRule /\ Usable # <<>>) =>
    \E r \in reported : r.what = "bound" \/ (r.what = "miss" /\ r.topic = m.topic)

\* What the card shows is what the schemas say of its payload, and it says so when none
\* does (cbor/resolve.ts:68-224, useCddlSchema.ts:55-140).
RulesSound == CddlTypeOK /\ SettledRule /\ NeverSilent
=============================================================================

------------------------------ MODULE CborEditor ------------------------------
(***************************************************************************)
(* The send editor for CBOR (components/formatters/cbor/CborForm.tsx): the *)
(* card's text, shown as the fields of a rule or as notation.  The form    *)
(* writes the text, and takes up any text it did not write itself.         *)
(***************************************************************************)
EXTENDS CborShape

CONSTANTS
  Schema,    \* the rules of the schema, by name
  Rules,     \* those the selector offers
  Whole,     \* those without a choice between maps, arrays or ranges, `//', and groups that repeat
  Closed,    \* those no part of which is left to notation, without groups that may be left out
  Texts,     \* what is written in the text editor, or set by the card
  Inputs,    \* what is typed into a field
  MaxRows,   \* bound: rows of a value, all containers together
  MaxTurns   \* bound: rules picked, and texts set or typed, one after the other

VARIABLES rule, field, value, text, written, importError, asText,
          under,     \* history: the rule the fields took up or wrote the text under, if they did
          turns      \* those taken so far

formVars == <<rule, field, value, text, written, importError, asText, under, turns>>

NoneSelected == ""
Unwritten == Js("unwritten", 0, <<>>)

RECURSIVE Rows(_)
Rows(v) == LET one == IF v.k = "choice" THEN 0 ELSE 1
               sum[i \in 0..Len(v.rows)] == IF i = 0 THEN 0 ELSE sum[i - 1] + one + Rows(v.rows[i].v)
           IN  IF v = NoValue THEN 0 ELSE sum[Len(v.rows)]

\* The notation of what the fields hold, or none.
Notation(f, v) == ToJs(f, v).v

FormInit ==
  /\ rule = NoneSelected /\ field = NoShape /\ value = NoValue /\ text \in {Blank} \cup Texts
  /\ written = Unwritten /\ importError = FALSE /\ asText = FALSE /\ under = NoneSelected /\ turns = 0

\* The effect of a new field or a new text: the fields take the text up, unless it is the
\* form's own.
TakeUp ==
  IF rule' = NoneSelected \/ text' = written
  THEN UNCHANGED <<value, importError>> /\ under' = IF text' = text THEN under ELSE NoneSelected
  ELSE LET next == FromNotation(field', text')
       IN  value' = next.v /\ importError' = next.error /\ under' = rule'

Turn == turns < MaxTurns /\ turns' = turns + 1

\* The selector, or the rule remembered for the subject, gives another rule.
PickRule(r) ==
  /\ r # rule /\ Turn
  /\ rule' = r
  /\ field' = IF r = NoneSelected THEN NoShape ELSE Shape(Schema, r)
  /\ UNCHANGED <<text, written, asText>>
  /\ TakeUp

\* The card sets another text: an edited message, another card, formatting.
SetText(t) ==
  /\ t # text /\ Turn
  /\ text' = t
  /\ UNCHANGED <<rule, field, written, asText>>
  /\ TakeUp

\* A field is edited: the text is its notation, or empty while there is none.
HandleChange(next, notation) ==
  /\ value' = next /\ importError' = FALSE /\ under' = rule
  /\ written' = notation /\ text' = notation
  /\ UNCHANGED <<rule, field, asText, turns>>

Edit ==
  /\ rule # NoneSelected /\ ~asText /\ value # NoValue
  /\ \E next \in Edits(field, value, Inputs) : Rows(next) <= MaxRows /\ HandleChange(next, Notation(field, next))

\* The text editor, shown when there is no field or when it is asked for.
HandleText(t) ==
  /\ rule = NoneSelected \/ asText
  /\ t # text /\ Turn
  /\ text' = t /\ written' = t /\ importError' = FALSE /\ under' = NoneSelected
  /\ UNCHANGED <<rule, field, value, asText>>

\* The buttons above a field, both there whichever of the two is shown.  "Fields": they take
\* the text up, again if they are shown, and all stays as it is while it cannot be read.
SwapBack ==
  /\ rule # NoneSelected
  /\ LET next == FromNotation(field, text)
     IN  IF next.error THEN importError' = TRUE /\ UNCHANGED <<value, asText, under>>
         ELSE asText' = FALSE /\ value' = next.v /\ importError' = FALSE /\ under' = rule
  /\ UNCHANGED <<rule, field, text, written, turns>>

\* "Text".
SwapToText ==
  /\ rule # NoneSelected
  /\ asText' = TRUE /\ importError' = FALSE
  /\ UNCHANGED <<rule, field, value, text, written, under, turns>>

FormNext ==
  \/ \E r \in Rules \cup {NoneSelected} : PickRule(r)
  \/ \E t \in Texts \cup {Blank, Junk} : SetText(t) \/ HandleText(t)
  \/ Edit
  \/ SwapBack
  \/ SwapToText

FormSpec == FormInit /\ [][FormNext]_formVars

-----------------------------------------------------------------------------
Fuel == 4
Matching(j) == j \notin {Blank, Junk} /\ Accepts(Schema, Unbound, Fuel, <<Ref(rule)>>, j)
RECURSIVE DistinctKeys(_)
DistinctKeys(j) == /\ j.t = "map" => \A x, y \in DOMAIN j.s : j.s[x].s[1] = j.s[y].s[1] => x = y
                   /\ \A i \in DOMAIN j.s : DistinctKeys(j.s[i])

FieldsShown == rule # NoneSelected /\ ~asText
ShowsText == Same(Notation(field, value), text)

\* The fields start from whatever the card already holds, whether it came from the text
\* editor or from elsewhere (CborForm.tsx:61-69): a payload that the rule accepts is what
\* they show.  It fails for a text that the form wrote itself before the rule was picked.
CardIsShown == FieldsShown /\ Matching(text) => ShowsText

\* A payload matching the rule can be read into the fields (shape.ts:20-22).  It is said of
\* a text that they took up, or wrote, under the rule selected now, and fails where two
\* options of a choice are of one kind.
PayloadIsShown == FieldsShown /\ under = rule /\ Matching(text) => ShowsText

\* Of all other rules a payload is spread over the fields and read back without loss.
FieldsShowText == rule \in Whole => PayloadIsShown

Acceptable(j) == j # Blank /\ DistinctKeys(j) => Matching(j)

\* What is complete in the form is what the rule accepts: the shape asks for everything the
\* rule asks for.  It is said of maps whose open keys are typed in once, and of the closed
\* rules: an optional group of several members asks for none of them.
CompleteIsAccepted ==
  rule \in Closed /\ ~asText /\ under = rule => Acceptable(Notation(field, value))

\* The fields and the text say the same payload (CborForm.tsx:47-116), and what the fields
\* complete is a payload of the rule (shape.ts).
FormSound == FieldsShowText /\ CompleteIsAccepted
=============================================================================

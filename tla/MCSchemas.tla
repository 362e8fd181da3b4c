----------------------------- MODULE MCSchemas -----------------------------
(* What is known of schemas and shown with them, one part per behaviour: a  *)
(* topic cache of two tabs, the rules of CDDL and a card of two subjects,   *)
(* or the editor of a card.                                                 *)
EXTENDS TopicCaches, CddlCards, MCCbor, TLC

VARIABLE part

\* A subject, and three that one pattern covers.
MCSubjects == {<<"a">>, <<"a", "x">>, <<"a", "y">>, <<"a", "z">>}
MCOps == [f \in {"cddl", "proto"} |-> IF f = "cddl" THEN 3 ELSE 4]
\* When the schemas change, the rule s stays, with another meaning; its schema loses r; a
\* second one is not tried, and a third does not compile.
MCRulesOf == <<<<"r", "s">>, <<"s", "t", "u">>>>
MCFileOf == [r |-> "f", s |-> "f", t |-> "g", u |-> "h"]
MCAccepted == {<<1, "r", "p">>, <<1, "s", "q">>, <<2, "s", "p">>, <<2, "t", "q">>}
MCBroken == {<<2, "h">>}
MCSymmetry == Permutations(Tabs) \cup Permutations(Topics)

MCInit == /\ part \in {"topics", "cards", "editor"}
          /\ TopicInit /\ CddlInit /\ FormInit
          /\ part # "cards" => shown = CHOOSE m \in [payload: Payloads, topic: Topics] : TRUE
          /\ part # "topics" => format = "cddl"
          /\ part # "editor" => text = Blank
MCNext == \/ part = "topics" /\ TopicNext /\ UNCHANGED <<part, cddlVars, formVars>>
          \/ part = "cards" /\ CddlNext /\ UNCHANGED <<part, topicVars, formVars>>
          \/ part = "editor" /\ FormNext /\ UNCHANGED <<part, topicVars, cddlVars>>
MCSpec == MCInit /\ [][MCNext]_<<part, topicVars, cddlVars, formVars>>
=============================================================================

---------------------------- MODULE LatestAnswer ----------------------------
(***************************************************************************)
(* What a card that fetches promises: questions are numbered as they are   *)
(* asked, the answer to one is shown only while it is the latest, and a    *)
(* card never goes back to the answer of an earlier one.                   *)
(***************************************************************************)
EXTENDS Naturals

VARIABLES
  newest,  \* the latest question, 0 before the first
  shown    \* the question whose answer is shown, 0 if none is

Init == newest = 0 /\ shown = 0

Ask == /\ newest' \in Nat /\ newest' > newest
       /\ UNCHANGED shown

Show == /\ newest # 0
        /\ shown' = newest
        /\ UNCHANGED newest

\* What was shown is taken away: an answer that says nothing.
Blank == shown' = 0 /\ UNCHANGED newest

Next == Ask \/ Show \/ Blank
Spec == Init /\ [][Next]_<<newest, shown>>
=============================================================================

---------------------------- MODULE Subsequences ----------------------------
(* What is left of a sequence when some of its elements are taken away.      *)
EXTENDS Naturals, Sequences, FiniteSets

\* The elements at the places K of a sequence, in their order.
Part(s, K) == [i \in 1..Cardinality(K) |-> s[CHOOSE k \in K : Cardinality(K \cap (1..k)) = i]]
=============================================================================

-------------------------- MODULE MCNatsConnEvents --------------------------
(* Instances of NatsConnEvents for TLC. *)
EXTENDS NatsConnEvents, TLC

CONSTANTS l1, l2, l3

Symmetry == Permutations(Listeners)
=============================================================================

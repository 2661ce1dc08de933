----------------------------- MODULE MCRollout -----------------------------
(* Rollout for TLC: the Pods of one generation are interchangeable. *)
EXTENDS Rollout, TLC

Symmetry == Permutations(Old) \cup Permutations(New)
=============================================================================

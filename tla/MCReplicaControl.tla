-------------------------- MODULE MCReplicaControl --------------------------
(* ReplicaControl and its HPA history for TLC: calls and processes are
   interchangeable. *)
EXTENDS HPARace, TLC

Symmetry == Permutations(Calls) \cup Permutations(Passes)
=============================================================================

-------------------------- MODULE MCTaskProcessor --------------------------
(* Small instances of TaskProcessor for TLC. *)
EXTENDS TaskProcessor, TLC

Symmetry == Permutations(Workers) \cup Permutations(Batches)
=============================================================================

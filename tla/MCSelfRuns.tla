---------------------------- MODULE MCSelfRuns ----------------------------
(* Small instances of SelfRuns for TLC. *)
EXTENDS SelfRuns, TLC

Symmetry == Permutations(Runs)
=============================================================================

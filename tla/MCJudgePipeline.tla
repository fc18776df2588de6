-------------------------- MODULE MCJudgePipeline --------------------------
(* Small instances of JudgePipeline for TLC. *)
EXTENDS JudgePipeline, TLC

\* Submissions, workers and batches are interchangeable in safety runs.
Symmetry == Permutations(Subs) \cup Permutations(Workers) \cup Permutations(Batches)
=============================================================================

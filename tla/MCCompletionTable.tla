-------------------------- MODULE MCCompletionTable --------------------------
(* Instances of CompletionTable for TLC. *)
EXTENDS CompletionTable, TLC

Symmetry == Permutations(Writers) \cup Permutations(ReqIds)
=============================================================================

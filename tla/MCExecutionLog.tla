---------------------------- MODULE MCExecutionLog ----------------------------
(* An instance of ExecutionLog for TLC. *)
EXTENDS ExecutionLog, TLC

Symmetry == Permutations(Ids)
=============================================================================

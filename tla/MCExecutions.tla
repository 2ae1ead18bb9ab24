----------------------------- MODULE MCExecutions -----------------------------
(* An instance of Executions for TLC. *)
EXTENDS Executions
=============================================================================

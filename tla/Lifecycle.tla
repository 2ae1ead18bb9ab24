------------------------------ MODULE Lifecycle ------------------------------
(***************************************************************************)
(* Every sequence of lifecycle events the transition table accepts, not    *)
(* only those the runners send: what the table itself guarantees.          *)
(***************************************************************************)
EXTENDS ExecutionState, Naturals

VARIABLE execution

LifecycleInit == execution = NewExecution

\* A runner sends an event, and the table accepts it.
Accept(next) ==
    /\ next.state # "illegal"
    /\ execution' = next

LifecycleNext ==
    \/ Accept(SubmitStarted(execution))
    \/ \E l \in Legs :
         \/ Accept(Submitted(execution, l))
         \/ Accept(Ack(execution, l))
         \/ Accept(Fill(execution, l))
    \/ Accept(PartialFill(execution))
    \/ Accept(StartUnwind(execution))
    \/ Accept(UnwindComplete(execution))
    \/ Accept(UnwindFailed(execution))
    \/ Accept(CancelStarted(execution))
    \/ Accept(Cancelled(execution))
    \/ Accept(Failed(execution))
    \/ Accept(TimedOut(execution))
    \/ Accept(Complete(execution))

-----------------------------------------------------------------------------
(* Properties *)

Rank(s) ==
    CASE s = "idle" -> 0
      [] s = "submitting" -> 1
      [] s \in {"yes_pending", "no_pending"} -> 2
      [] s = "both_pending" -> 3
      [] s \in {"yes_acked", "no_acked"} -> 4
      [] s = "both_acked" -> 5
      [] s \in HalfFilled -> 6
      [] s \in {"both_filled", "partial_fill"} -> 7
      [] s \in {"unwinding", "cancelling"} -> 8
      [] s \in {"unwind_complete", "unwind_failed", "cancelled"} -> 9
      [] s \in TerminalStates -> 10
      [] OTHER -> 11

\* No sequence of accepted events moves an execution back to an earlier phase: a
\* late acknowledgement cannot undo a fill, nor a late submission an acknowledgement.
NeverBackwards == [][Rank(execution'.state) >= Rank(execution.state)]_execution
=============================================================================

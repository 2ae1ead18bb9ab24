--------------------------- MODULE ExecutionState ---------------------------
(***************************************************************************)
(* The lifecycle of a paired execution (src/src/domain/execution.ts): its  *)
(* states, and one operator per lifecycle event from execution records to  *)
(* execution records.  An event that the code refuses by throwing leads to *)
(* the state "illegal", which no event leaves.                             *)
(***************************************************************************)

Legs == {"yes", "no"}

Other(l) == IF l = "yes" THEN "no" ELSE "yes"

\* The state names of one leg, by how far it is.
Pending(l) == IF l = "yes" THEN "yes_pending" ELSE "no_pending"
Acked(l)   == IF l = "yes" THEN "yes_acked" ELSE "no_acked"
Filled(l)  == IF l = "yes" THEN "yes_filled" ELSE "no_filled"

PendingStates == {"yes_pending", "no_pending", "both_pending"}
AckedStates   == {"yes_acked", "no_acked", "both_acked"}
HalfFilled    == {"yes_filled", "no_filled"}

TerminalStates == {"failed", "timeout", "complete"}

States ==
    {"idle", "submitting"} \cup PendingStates \cup AckedStates \cup HalfFilled \cup
    {"both_filled", "partial_fill", "unwinding", "unwind_complete", "unwind_failed",
     "cancelling", "cancelled", "illegal"} \cup TerminalStates

SubmitPendingStates == {"idle", "submitting"} \cup PendingStates
AckStates           == PendingStates \cup AckedStates
FillStates          == AckStates \cup HalfFilled
CancellableStates   == {"submitting", "partial_fill"} \cup FillStates
FailableStates      == CancellableStates \cup {"unwinding", "cancelling"}
FinalizeStates      == {"both_filled", "unwind_complete", "cancelled"}

Execution ==
    [state : States, submitted : SUBSET Legs, acked : SUBSET Legs, filled : SUBSET Legs]

NewExecution ==
    [state |-> "idle", submitted |-> {}, acked |-> {}, filled |-> {}]

\* transitionExecutionState: refuse, or take the event.
Move(e, allowed, next) ==
    IF e.state \in allowed THEN next ELSE [e EXCEPT !.state = "illegal"]

SubmitStarted(e) == Move(e, {"idle"}, [e EXCEPT !.state = "submitting"])

\* Mutant of Submitted: accepted after an acknowledgement too.
SubmittedLate(e, l) ==
    Move(e, SubmitPendingStates \cup AckedStates,
         [e EXCEPT !.submitted = @ \cup {l},
                   !.state = IF Other(l) \in e.submitted THEN "both_pending" ELSE Pending(l)])

Submitted(e, l) ==
    Move(e, SubmitPendingStates,
         [e EXCEPT !.submitted = @ \cup {l},
                   !.state = IF Other(l) \in e.submitted THEN "both_pending" ELSE Pending(l)])

Ack(e, l) ==
    Move(e, AckStates,
         [e EXCEPT !.acked = @ \cup {l},
                   !.state = IF Other(l) \in e.acked THEN "both_acked" ELSE Acked(l)])

Fill(e, l) ==
    Move(e, FillStates,
         [e EXCEPT !.filled = @ \cup {l},
                   !.state = IF Other(l) \in e.filled THEN "both_filled" ELSE Filled(l)])

PartialFill(e)    == Move(e, HalfFilled \cup {"both_acked"}, [e EXCEPT !.state = "partial_fill"])
StartUnwind(e)    == Move(e, {"partial_fill"}, [e EXCEPT !.state = "unwinding"])
UnwindComplete(e) == Move(e, {"unwinding"}, [e EXCEPT !.state = "unwind_complete"])
UnwindFailed(e)   == Move(e, {"unwinding"}, [e EXCEPT !.state = "unwind_failed"])
CancelStarted(e)  == Move(e, CancellableStates, [e EXCEPT !.state = "cancelling"])
Cancelled(e)      == Move(e, {"cancelling"}, [e EXCEPT !.state = "cancelled"])
Failed(e)         == Move(e, FailableStates, [e EXCEPT !.state = "failed"])
TimedOut(e)       == Move(e, FailableStates, [e EXCEPT !.state = "timeout"])

Complete(e)       == Move(e, FinalizeStates, [e EXCEPT !.state = "complete"])

\* getRequiredAction: what the execution waits for in a state.  An execution is
\* active as long as the answer is not "none".
RequiredAction(s) ==
    CASE s = "idle"                                             -> "submit"
      [] s \in {"submitting"} \cup PendingStates                -> "await_ack"
      [] s \in AckedStates \cup HalfFilled                      -> "await_fill"
      [] s \in {"partial_fill", "unwinding"}                    -> "unwind"
      [] s = "cancelling"                                       -> "cancel"
      [] s \in FinalizeStates \cup {"unwind_failed"}            -> "finalize"
      [] OTHER                                                  -> "none"

=============================================================================

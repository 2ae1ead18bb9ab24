------------------------------ MODULE Executions ------------------------------
(***************************************************************************)
(* The kinds of execution ExecutionAgent.executeOpportunity dispatches to  *)
(* (src/src/agents/execution/ExecutionAgent.ts): a pair, a basket or a     *)
(* single leg.  An execution is of one kind from its start to its answer;  *)
(* the state of the others does not move.  "events" stands for a lifecycle *)
(* driven by arbitrary events, to see what its table alone guarantees.     *)
(***************************************************************************)
EXTENDS PairedExecution

CONSTANTS
    N,                           \* the markets of a basket
    EvSubmitTimeout, EvFillTimeout, AdvisorModes

ASSUME KindsAssumption ==
    N \in Nat \ {0} /\ EvSubmitTimeout \in Nat /\ EvFillTimeout \in Nat

VARIABLES
    kind,            \* the kind of the execution
    lifecycle,       \* the record driven by arbitrary events
    bMode, bPc, bLeg, bOrder, bRecord, bIds, bOutcome, bTodo, bUnwound, bIncidents, bResult,
    ePc, eTimeouts, eOrder, eRecord, eIncident, eExpected, eResult

Events == INSTANCE Lifecycle WITH execution <- lifecycle
Basket == INSTANCE BasketExecution WITH
    mode <- bMode, pc <- bPc, leg <- bLeg, order <- bOrder, record <- bRecord, ids <- bIds,
    outcome <- bOutcome, todo <- bTodo, unwound <- bUnwound, incidents <- bIncidents,
    result <- bResult
Ev == INSTANCE EvExecution WITH
    pc <- ePc, timeouts <- eTimeouts, order <- eOrder, record <- eRecord, incident <- eIncident,
    expected <- eExpected, result <- eResult

pairVars == <<userChannel, execution, pc, reply, order, seen, waiter, cancel, plan, sold, incidents,
              result>>
basketVars == <<bMode, bPc, bLeg, bOrder, bRecord, bIds, bOutcome, bTodo, bUnwound, bIncidents,
                bResult>>
evVars == <<ePc, eTimeouts, eOrder, eRecord, eIncident, eExpected, eResult>>

Kinds == {"pair", "basket", "ev", "events"}

KindsTypeOK == kind \in Kinds /\ lifecycle \in Execution /\ Basket!TypeOK /\ Ev!TypeOK

KindsInit ==
    /\ kind \in Kinds
    /\ Init /\ (kind # "pair" => userChannel)
    /\ Basket!Init /\ (kind # "basket" => bMode = "batch")
    /\ Ev!Init
    /\ Events!LifecycleInit

PairSteps == kind = "pair" /\ Next /\ UNCHANGED <<kind, lifecycle, basketVars, evVars>>

BasketSteps ==
    /\ kind = "basket"
    /\ Basket!Next
    /\ UNCHANGED <<kind, lifecycle, pairVars, evVars>>

EvSteps == kind = "ev" /\ Ev!Next /\ UNCHANGED <<kind, lifecycle, pairVars, basketVars>>

\* Any event the lifecycle table accepts.
EventSteps ==
    /\ kind = "events"
    /\ Events!LifecycleNext
    /\ UNCHANGED <<kind, pairVars, basketVars, evVars>>

KindsNext == PairSteps \/ BasketSteps \/ EvSteps \/ EventSteps

KindsSpec == KindsInit /\ [][KindsNext]_<<kind, lifecycle, pairVars, basketVars, evVars>>

\* An execution is scheduled as its kind is: its turns run and its timers fire.
KindsFairness ==
    /\ WF_pairVars(kind = "pair" /\ Runner)
    /\ \A l \in Legs :
         /\ WF_pairVars(kind = "pair" /\ SubmitTimeout(l))
         /\ WF_pairVars(kind = "pair" /\ FillTimeout(l))
         /\ WF_pairVars(kind = "pair" /\ CancelFails(l))
    /\ WF_basketVars(kind = "basket" /\ Basket!Runner)
    /\ \A k \in Basket!Orders : WF_basketVars(kind = "basket" /\ Basket!Told(k, "nothing"))
    /\ WF_evVars(kind = "ev" /\ Ev!Starts)
    /\ WF_evVars(kind = "ev" /\ Ev!TimesOut)

KindsFairSpec == KindsSpec /\ KindsFairness

-----------------------------------------------------------------------------
(* Properties: those of PairedExecution hold of the composition, and       *)

\* A basket is "submitted" only as a whole (BasketExecution!SubmittedMeansWhole).
SubmittedMeansWhole == Basket!SubmittedMeansWhole

\* A basket that traded in part leaves nothing it knows of behind
\* (BasketExecution!NothingLeftBehind).
NothingLeftBehind == Basket!NothingLeftBehind

\* A failed EV execution has an incident and no record that is taken up again
\* (EvExecution!FailureSettled).
FailureSettled == Ev!FailureSettled

\* No event, whoever sends it, moves a lifecycle back to an earlier phase
\* (Lifecycle!NeverBackwards).
NeverBackwards == Events!NeverBackwards

\* Every execution answers its caller, whatever the venue, the network and the user
\* channel do.
EveryKindFinishes ==
    <>(CASE kind = "pair" -> pc = "done"
         [] kind = "basket" -> bPc = "done"
         [] kind = "ev" -> ePc = "done"
         [] OTHER -> TRUE)
=============================================================================

----------------------------- MODULE EvExecution -----------------------------
(***************************************************************************)
(* One single-leg (EV) execution: ExecutionAgent.executeEvOpportunity, the *)
(* runner (src/src/agents/execution/ExecutionEvRunner.ts), the idempotency *)
(* record of its order (ExecutionAgentSupport.ts) and the timeouts advice  *)
(* may shorten (ExecutionAdvisor.ts, ExecutionModeSupport.ts).             *)
(*                                                                         *)
(* The order is fill-or-kill.  An action of the execution goes from one    *)
(* await to the next.  A request whose timer has fired is abandoned, not   *)
(* recalled, and the order is never cancelled.                             *)
(***************************************************************************)
EXTENDS Integers

CONSTANTS
    EvSubmitTimeout, EvFillTimeout,  \* the configured timeouts, 0 for none
    AdvisorModes                 \* the modes the advisor of timeouts may be in

VARIABLES
    pc,              \* what the execution awaits
    timeouts,        \* the effective timeouts
    order,           \* the order at the venue
    record,          \* the status of the idempotency record
    incident,        \* the incident recorded for the market
    expected,        \* whether the portfolio expects the fill
    result           \* what the caller gets

vars == <<pc, timeouts, order, record, incident, expected, result>>

Incidents == {"circuit_breaker", "preflight", "order_timeout", "order_failed", "order_delayed",
              "order_rejected"}

TypeOK ==
    /\ pc \in {"start", "submit", "fills", "done"}
    /\ timeouts.submit \in 0 .. EvSubmitTimeout /\ timeouts.fill \in 0 .. EvFillTimeout
    /\ order \in {"none", "inflight", "matched", "dead"}
    /\ record \in {"none", "pending", "submitted", "confirmed", "failed"}
    /\ incident \in {"none"} \cup Incidents
    /\ expected \in BOOLEAN
    /\ result \in {"none", "blocked", "submitted", "failed", "timeout"}

Init ==
    /\ pc = "start"
    /\ timeouts = [submit |-> EvSubmitTimeout, fill |-> EvFillTimeout]
    /\ order = "none"
    /\ record = "none"
    /\ incident = "none"
    /\ expected = FALSE
    /\ result = "none"

-----------------------------------------------------------------------------
(* Helpers *)

\* Mutant of applyMultiplier: a short timeout is rounded down to none.
applyMultiplierDown(timeout, percent) == (timeout * percent) \div 100

\* A scaled timeout is never longer, and never so short that it means none.
applyMultiplier(timeout, percent) ==
    LET scaled == (timeout * percent) \div 100
        atLeastOne == IF scaled > 1 THEN scaled ELSE 1
    IN  IF timeout <= 0 THEN timeout
        ELSE IF atLeastOne < timeout THEN atLeastOne ELSE timeout

\* ExecutionAdvisor.handleInsight: a higher value shortens, down to four fifths.
Multiplier(value) == 100 - (20 * value) \div 100

\* The advice of an insight, if there is one that has not expired, counts in advisory
\* mode only; in shadow mode it is merely recorded.
EffectiveTimeouts(mode, value) ==
    LET base == [submit |-> EvSubmitTimeout, fill |-> EvFillTimeout]
        advised == [t \in DOMAIN base |-> applyMultiplier(base[t], Multiplier(value))]
    IN  IF mode = "advisory" THEN advised ELSE base

\* Mutant of MarkFailed: only a record whose order has no id yet.
MarkFailedPending(r) == IF r = "pending" THEN "failed" ELSE r

\* ExecutionIdempotencyStore.markFailed: a record that was pruned stays away.
MarkFailed(r) == IF r = "none" THEN "none" ELSE "failed"

Fail(r, outcome, reason) ==
    /\ pc' = "done"
    /\ record' = MarkFailed(r)
    /\ incident' = reason
    /\ result' = outcome

-----------------------------------------------------------------------------
(* The execution *)

Block(reason) ==
    /\ pc' = "done"
    /\ result' = "blocked"
    /\ incident' = reason
    /\ UNCHANGED <<order, expected>>

\* No side, or the circuit of the market is open.
BlockedAtOnce ==
    /\ pc = "start"
    /\ \E reason \in {"none", "circuit_breaker"} : Block(reason)
    /\ UNCHANGED <<timeouts, record>>

\* The record is there (ensureRecord) when the preflight blocks, with an incident or
\* without, or when the price turns out invalid.
BlockedLate ==
    /\ pc = "start"
    /\ record' = "pending"
    /\ \E mode \in AdvisorModes, value \in {0, 100} : timeouts' = EffectiveTimeouts(mode, value)
    /\ \E reason \in {"none", "preflight"} : Block(reason)

Submit ==
    /\ pc = "start"
    /\ record' = "pending"
    /\ \E mode \in AdvisorModes, value \in {0, 100} : timeouts' = EffectiveTimeouts(mode, value)
    /\ expected' = TRUE
    /\ order' = "inflight"
    /\ pc' = "submit"
    /\ UNCHANGED <<incident, result>>

\* The request throws, or its timer fires first.
SubmitFails(reason) ==
    /\ pc = "submit"
    /\ reason = "order_timeout" => timeouts.submit > 0
    /\ Fail(record, "failed", reason)
    /\ UNCHANGED <<timeouts, order, expected>>

\* The venue answers.  An answer with an id makes the record "submitted" first, also when
\* the order is delayed or rejected; without an id there is nothing to wait for.
Answered(answer, hasId) ==
    LET saved == IF hasId THEN "submitted" ELSE "pending"
        Refuse(reason) == Fail(saved, "failed", reason)
    IN  /\ pc = "submit"
        /\ \/ answer = "delayed" /\ Refuse("order_delayed")
           \/ answer = "rejected" /\ Refuse("order_rejected")
           \/ answer = "ok" /\ ~hasId /\ Refuse("order_failed")
           \/ /\ answer = "ok" /\ hasId
              /\ record' = saved
              /\ pc' = "fills"
              /\ UNCHANGED <<incident, result>>
        /\ UNCHANGED <<timeouts, order, expected>>

\* The tracker has seen the order fill, and is never ahead of the venue (FillTracking).
Filled ==
    /\ pc = "fills" /\ order = "matched"
    /\ record' = "confirmed"
    /\ pc' = "done"
    /\ result' = "submitted"
    /\ UNCHANGED <<timeouts, order, incident, expected>>

\* The order is cancelled or filled in part, or the time is up, at once if there is none;
\* nothing is cancelled or
\* unwound, whatever the venue has made of the order.
NotFilled(reason) ==
    /\ pc = "fills"
    /\ Fail(record, IF reason = "order_timeout" THEN "timeout" ELSE "failed", reason)
    /\ UNCHANGED <<timeouts, order, expected>>

\* Another execution starts, and prunes the records that are too old.
Prune ==
    /\ pc \in {"submit", "fills"}
    /\ record' = "none"
    /\ UNCHANGED <<pc, timeouts, order, incident, expected, result>>

-----------------------------------------------------------------------------
(* The venue *)

Decide(outcome) ==
    /\ order = "inflight"
    /\ order' = outcome
    /\ UNCHANGED <<pc, timeouts, record, incident, expected, result>>

-----------------------------------------------------------------------------

Next ==
    \/ BlockedAtOnce \/ BlockedLate \/ Submit
    \/ \E r \in {"order_timeout", "order_failed"} : SubmitFails(r) \/ NotFilled(r)
    \/ \E a \in {"ok", "delayed", "rejected"}, hasId \in BOOLEAN : Answered(a, hasId)
    \/ Filled \/ Prune
    \/ \E outcome \in {"matched", "dead"} : Decide(outcome)

Spec == Init /\ [][Next]_vars

Starts == BlockedAtOnce \/ BlockedLate \/ Submit

TimesOut == SubmitFails("order_timeout") \/ NotFilled("order_timeout")

\* The handler runs and the timers fire.  Nothing is assumed of the venue.
Fairness == WF_vars(Starts) /\ WF_vars(TimesOut)

-----------------------------------------------------------------------------
(* Properties *)

\* An EV execution that fails, at whatever await and whether or not its record was pruned
\* meanwhile, has left an incident and no record that a second attempt would take up.
FailureSettled ==
    result \in {"failed", "timeout"} => record \in {"none", "failed"} /\ incident # "none"

\* Advice may shorten the timeouts but never remove them: with timeouts configured, every
\* EV execution answers although the venue and the user channel stay silent.
Finishes == <>(pc = "done")
=============================================================================

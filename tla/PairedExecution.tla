--------------------------- MODULE PairedExecution ---------------------------
(***************************************************************************)
(* One paired YES/NO execution: the runner (src/src/agents/execution/      *)
(* ExecutionPairedRunner.ts), the recovery it falls back on                *)
(* (ExecutionFailureRecovery.ts), the user channel that tells it of fills, *)
(* and the venue.                                                          *)
(*                                                                         *)
(* The runner and the recovery run between awaits: an action of theirs is  *)
(* everything from one await to the next.  The venue, the replies, the     *)
(* user channel and the timers move in between, in any order.  A request   *)
(* whose timer has fired is abandoned, not recalled: it may still reach    *)
(* the venue.                                                              *)
(***************************************************************************)
EXTENDS ExecutionState, Naturals

CONSTANT Size        \* the size of each leg, in units the venue can fill

ASSUME SizeAssumption == Size \in Nat \ {0}

VARIABLES
    userChannel,     \* requiresUserChannel, with a fill timeout that has not lapsed:
                     \* wait for observed fills instead of assuming them
    execution,       \* the lifecycle record
    pc,              \* what the execution awaits
    reply,           \* how the submission promise of each leg settled
    order,           \* the order of each leg at the venue
    seen,            \* what the user channel has told of each order
    waiter,          \* the fill waiter of each leg
    cancel,          \* how the cancel promise of each leg settled
    plan,            \* the arguments the recovery was called with
    sold,            \* what the unwind order sold at the venue
    incidents,       \* the incidents recorded for the market
    result           \* what the caller gets

vars == <<userChannel, execution, pc, reply, order, seen, waiter, cancel, plan, sold, incidents,
          result>>

Stops   == {"submit", "acks", "fills", "cancelBoth", "cancelOther", "unwind", "done"}
Replies == {"none", "ok", "ok_noid", "delayed", "rejected", "error", "timeout"}
Orders  == [st : {"none", "inflight", "open", "closed"}, matched : 0 .. Size]
Seen    == [size : 0 .. Size, filled : BOOLEAN, cancelled : BOOLEAN]
Waiters == {"none", "waiting", "full", "cancelled", "timeout"}
Cancels == {"none", "pending", "ok", "failed"}
Reasons == {"order_timeout", "order_failed", "order_delayed", "order_rejected", "leg_skew_exceeded"}
Plans   == [leg : Legs \cup {"none"}, size : 0 .. Size, reason : Reasons \cup {"none"}]
Results == {"none", "submitted", "partial_fill", "unwind_failed"} \cup Reasons
Incidents == {"order_timeout", "order_failed", "order_delayed", "order_rejected", "latency_exceeded",
              "order_cancel_failed", "partial_fill", "unwind_triggered", "unwind_failed"}

TypeOK ==
    /\ userChannel \in BOOLEAN
    /\ execution \in Execution
    /\ pc \in Stops
    /\ reply \in [Legs -> Replies]
    /\ order \in [Legs -> Orders]
    /\ seen \in [Legs -> Seen]
    /\ waiter \in [Legs -> Waiters]
    /\ cancel \in [Legs -> Cancels]
    /\ plan \in Plans
    /\ sold \in 0 .. Size
    /\ incidents \in SUBSET Incidents
    /\ result \in Results

Init ==
    /\ userChannel \in BOOLEAN
    /\ execution = NewExecution
    /\ pc = "submit"
    /\ reply = [l \in Legs |-> "none"]
    /\ order = [l \in Legs |-> [st |-> "none", matched |-> 0]]
    /\ seen = [l \in Legs |-> [size |-> 0, filled |-> FALSE, cancelled |-> FALSE]]
    /\ waiter = [l \in Legs |-> "none"]
    /\ cancel = [l \in Legs |-> "none"]
    /\ plan = [leg |-> "none", size |-> 0, reason |-> "none"]
    /\ sold = 0
    /\ incidents = {}
    /\ result = "none"

-----------------------------------------------------------------------------
(* Helpers *)

Settled == \A l \in Legs : reply[l] # "none"

Fulfilled(l) == reply[l] \notin {"error", "timeout"}

\* isOrderSuccessful: neither refused nor delayed, and there is a response.
Accepted(l) == reply[l] \in {"ok", "ok_noid"}

\* extractOrderId: with it a leg is cancelled by order, without by market.
HasId(l) == reply[l] \in {"ok", "delayed"}

IncidentOf(reason) == IF reason = "leg_skew_exceeded" THEN "latency_exceeded" ELSE reason

Acknowledged == Ack(Ack(execution, "yes"), "no")

\* deriveFillOutcome on what the channel has told.
Outcome(s) ==
    IF s.size >= Size \/ s.filled THEN "full"
    ELSE IF s.cancelled THEN "cancelled" ELSE "waiting"

\* failWithCancel, up to the await of both cancels.
CancelBoth(e, reason) ==
    /\ execution' = CancelStarted(e)
    /\ pc' = "cancelBoth"
    /\ cancel' = [l \in Legs |-> "pending"]
    /\ plan' = [leg |-> "none", size |-> 0, reason |-> reason]

\* Mutant of RecoverLeg: the fill of the leg is not recorded.
RecoverUnfilledLeg(e, l, size, reason) ==
    /\ execution' = PartialFill(e)
    /\ pc' = "cancelOther"
    /\ cancel' = [cancel EXCEPT ![Other(l)] = "pending"]
    /\ plan' = [leg |-> l, size |-> size, reason |-> reason]

\* handlePartialFill, up to the await of the cancel of the other leg.
RecoverLeg(e, l, size, reason) ==
    /\ execution' = PartialFill(Fill(e, l))
    /\ pc' = "cancelOther"
    /\ cancel' = [cancel EXCEPT ![Other(l)] = "pending"]
    /\ plan' = [leg |-> l, size |-> size, reason |-> reason]

\* handleFailure: the only leg with a successful response counts as filled.
HandleFailure(e, reason) ==
    \/ /\ Accepted("yes") <=> Accepted("no")
       /\ CancelBoth(e, reason)
    \/ \E l \in Legs :
         /\ Accepted(l) /\ ~Accepted(Other(l))
         /\ RecoverLeg(e, l, Size, reason)

-----------------------------------------------------------------------------
(* The runner *)

\* Both legs are sent.  Their idempotency records are new: the keys name the market and the
\* millisecond of the detection, so that two executions share them only if the market was
\* detected twice in one millisecond; the reuse of an order of an earlier one is left out.
Submit ==
    /\ pc = "submit"
    /\ execution' = Submitted(Submitted(SubmitStarted(execution), "yes"), "no")
    /\ order' = [l \in Legs |-> [st |-> "inflight", matched |-> 0]]
    /\ pc' = "acks"
    /\ UNCHANGED <<userChannel, reply, seen, waiter, cancel, plan, sold, incidents, result>>

\* A submission was rejected by its promise or timed out.
SubmissionFailed ==
    /\ pc = "acks" /\ Settled
    /\ \E l \in Legs : ~Fulfilled(l)
    /\ HandleFailure(execution, IF \E l \in Legs : reply[l] = "timeout"
                                THEN "order_timeout" ELSE "order_failed")
    /\ UNCHANGED <<userChannel, reply, order, seen, waiter, sold, incidents, result>>

BothAnswered ==
    /\ pc = "acks" /\ Settled
    /\ \A l \in Legs : Fulfilled(l)

\* Both legs answered, and an answer is late, delayed or refused, the answers are too
\* far apart, or fills cannot be awaited for want of an order id.
AnswersRefused ==
    /\ BothAnswered
    /\ \/ HandleFailure(Acknowledged, "order_timeout")
       \/ /\ \E l \in Legs : reply[l] = "delayed"
          /\ HandleFailure(Acknowledged, "order_delayed")
       \/ /\ \A l \in Legs : reply[l] # "delayed"
          /\ \E l \in Legs : reply[l] = "rejected"
          /\ HandleFailure(Acknowledged, "order_rejected")
       \/ /\ \A l \in Legs : Accepted(l)
          /\ HandleFailure(Acknowledged, "leg_skew_exceeded")
       \/ /\ userChannel
          /\ \A l \in Legs : Accepted(l)
          /\ \E l \in Legs : ~HasId(l)
          /\ HandleFailure(Acknowledged, "order_failed")
    /\ UNCHANGED <<userChannel, reply, order, seen, waiter, sold, incidents, result>>

\* Both legs are acknowledged: wait for their fills on the user channel.
AwaitFills ==
    /\ BothAnswered
    /\ userChannel
    /\ \A l \in Legs : Accepted(l) /\ HasId(l)
    /\ execution' = Acknowledged
    /\ pc' = "fills"
    /\ waiter' = [l \in Legs |-> Outcome(seen[l])]
    /\ UNCHANGED <<userChannel, reply, order, seen, cancel, plan, sold, incidents, result>>

\* Without the user channel an acknowledged pair counts as filled.
AssumeFilled ==
    /\ BothAnswered
    /\ ~userChannel
    /\ \A l \in Legs : Accepted(l)
    /\ execution' = Complete(Fill(Fill(Acknowledged, "yes"), "no"))
    /\ pc' = "done"
    /\ result' = "submitted"
    /\ UNCHANGED <<userChannel, reply, order, seen, waiter, cancel, plan, sold, incidents>>

FillsKnown == pc = "fills" /\ \A l \in Legs : waiter[l] # "waiting"

\* Mutant of BothFilled: one full leg is enough.
EitherFilled ==
    /\ FillsKnown
    /\ \E l \in Legs : waiter[l] = "full"
    /\ execution' = Complete(Fill(Fill(execution, "yes"), "no"))
    /\ pc' = "done"
    /\ result' = "submitted"
    /\ UNCHANGED <<userChannel, reply, order, seen, waiter, cancel, plan, sold, incidents>>

BothFilled ==
    /\ FillsKnown
    /\ \A l \in Legs : waiter[l] = "full"
    /\ execution' = Complete(Fill(Fill(execution, "yes"), "no"))
    /\ pc' = "done"
    /\ result' = "submitted"
    /\ UNCHANGED <<userChannel, reply, order, seen, waiter, cancel, plan, sold, incidents>>

OnlyMatched(l) == seen[l].size > 0 /\ seen[Other(l)].size = 0

FillReason == IF \E l \in Legs : waiter[l] = "timeout" THEN "order_timeout" ELSE "order_failed"

\* Mutant of OneLegFilled: unwinds the size asked for instead of the size matched.
OneLegFilledInFull ==
    /\ FillsKnown
    /\ \E l \in Legs : waiter[l] # "full"
    /\ \E l \in Legs : OnlyMatched(l) /\ RecoverLeg(execution, l, Size, FillReason)
    /\ UNCHANGED <<userChannel, reply, order, seen, waiter, sold, incidents, result>>

\* One leg has a fill, the other none: unwind it.
OneLegFilled ==
    /\ FillsKnown
    /\ \E l \in Legs : waiter[l] # "full"
    /\ \E l \in Legs : OnlyMatched(l) /\ RecoverLeg(execution, l, seen[l].size, FillReason)
    /\ UNCHANGED <<userChannel, reply, order, seen, waiter, sold, incidents, result>>

\* Neither leg has a fill, or both have some: cancel both, unwind nothing.
NoLegFilled ==
    /\ FillsKnown
    /\ \E l \in Legs : waiter[l] # "full"
    /\ \A l \in Legs : ~OnlyMatched(l)
    /\ HandleFailure(execution, FillReason)
    /\ UNCHANGED <<userChannel, reply, order, seen, waiter, sold, incidents, result>>

-----------------------------------------------------------------------------
(* The recovery, after its awaits *)

\* Mutant of CancelIncident: a failed cancel is not reported.
NoCancelIncident == {}

CancelIncident == {i \in {"order_cancel_failed"} : \E l \in Legs : cancel[l] = "failed"}

CancelsAnswered == \A l \in Legs : cancel[l] # "pending"

BothCancelled ==
    /\ pc = "cancelBoth" /\ CancelsAnswered
    /\ execution' = Failed(execution)
    /\ pc' = "done"
    /\ incidents' = incidents \cup CancelIncident \cup {IncidentOf(plan.reason)}
    /\ result' = plan.reason
    /\ UNCHANGED <<userChannel, reply, order, seen, waiter, cancel, plan, sold>>

\* The other leg's cancel has answered, well or not: sell the filled leg.
StartUnwinding ==
    /\ pc = "cancelOther" /\ CancelsAnswered
    /\ execution' = StartUnwind(execution)
    /\ pc' = "unwind"
    /\ incidents' = incidents \cup CancelIncident \cup {"partial_fill", "unwind_triggered"}
    /\ UNCHANGED <<userChannel, reply, order, seen, waiter, cancel, plan, sold, result>>

\* What the sell order can have sold by now: never more than the leg holds.
Sellable == 0 .. (IF plan.size <= order[plan.leg].matched THEN plan.size ELSE order[plan.leg].matched)

Unwound(n) ==
    /\ pc = "unwind" /\ n \in Sellable
    /\ sold' = n
    /\ execution' = Complete(UnwindComplete(execution))
    /\ pc' = "done"
    /\ result' = "partial_fill"
    /\ UNCHANGED <<userChannel, reply, order, seen, waiter, cancel, plan, incidents>>

\* Refused, failed or timed out; a timed out sell may have sold something.
NotUnwound(n) ==
    /\ pc = "unwind" /\ n \in Sellable
    /\ sold' = n
    /\ execution' = Failed(execution)
    /\ pc' = "done"
    /\ incidents' = incidents \cup {"unwind_failed"}
    /\ result' = "unwind_failed"
    /\ UNCHANGED <<userChannel, reply, order, seen, waiter, cancel, plan>>

-----------------------------------------------------------------------------
(* The venue and the network, external to the code *)

runnerVars == <<userChannel, execution, pc, plan, incidents, result>>

Arrive(l) ==
    /\ order[l].st = "inflight"
    /\ order' = [order EXCEPT ![l].st = "open"]
    /\ UNCHANGED <<runnerVars, reply, seen, waiter, cancel, sold>>

\* The venue refuses the order, or never gets it.
Lose(l) ==
    /\ order[l].st = "inflight"
    /\ order' = [order EXCEPT ![l].st = "closed"]
    /\ UNCHANGED <<runnerVars, reply, seen, waiter, cancel, sold>>

Match(l, n) ==
    /\ order[l].st = "open"
    /\ n \in (order[l].matched + 1) .. Size
    /\ order' = [order EXCEPT ![l] = [st |-> IF n = Size THEN "closed" ELSE "open", matched |-> n]]
    /\ UNCHANGED <<runnerVars, reply, seen, waiter, cancel, sold>>

\* Fill-or-kill and venue-side expiry end an order that has not matched in full.
Kill(l) ==
    /\ order[l].st = "open"
    /\ order' = [order EXCEPT ![l].st = "closed"]
    /\ UNCHANGED <<runnerVars, reply, seen, waiter, cancel, sold>>

\* The answer to a submission: acceptance and delay only for an order that arrived,
\* refusal for one that did not, a transport error in any case.
Reply(l, r) ==
    /\ pc = "acks" /\ reply[l] = "none"
    /\ \/ r \in {"ok", "ok_noid", "delayed"} /\ (order[l].st = "open" \/ order[l].matched = Size)
       \/ r = "rejected" /\ order[l].st = "closed" /\ order[l].matched = 0
       \/ r = "error"
    /\ reply' = [reply EXCEPT ![l] = r]
    /\ UNCHANGED <<runnerVars, order, seen, waiter, cancel, sold>>

SubmitTimeout(l) ==
    /\ pc = "acks" /\ reply[l] = "none"
    /\ reply' = [reply EXCEPT ![l] = "timeout"]
    /\ UNCHANGED <<runnerVars, order, seen, waiter, cancel, sold>>

\* An order or trade event of the user channel: any part of what has matched, an
\* older state included, the status of a full match, the end of an unmatched order.
\* A cancellation once seen stays; size and status follow the last event.  It resolves
\* a waiter as soon as the outcome is known; later ones are of no use to the runner.
Observe(l, s) ==
    /\ pc \in {"acks", "fills"} /\ waiter[l] \in {"none", "waiting"}
    /\ order[l].st \in {"open", "closed"}
    /\ s.size <= order[l].matched
    /\ s.filled => order[l].matched = Size
    /\ s.cancelled => \/ seen[l].cancelled
                      \/ order[l].st = "closed" /\ order[l].matched < Size
    /\ seen[l].cancelled => s.cancelled
    /\ seen' = [seen EXCEPT ![l] = s]
    /\ waiter' = [waiter EXCEPT ![l] = IF @ = "waiting" THEN Outcome(s) ELSE @]
    /\ UNCHANGED <<runnerVars, reply, order, cancel, sold>>

FillTimeout(l) ==
    /\ waiter[l] = "waiting"
    /\ waiter' = [waiter EXCEPT ![l] = "timeout"]
    /\ UNCHANGED <<runnerVars, reply, order, seen, cancel, sold>>

\* A cancel closes an open order.  By order id it reports failure when there was
\* nothing left to cancel; by market it does not.
CancelAnswer(l) ==
    /\ cancel[l] = "pending"
    /\ IF order[l].st = "open"
       THEN /\ order' = [order EXCEPT ![l].st = "closed"]
            /\ cancel' = [cancel EXCEPT ![l] = "ok"]
       ELSE /\ cancel' = [cancel EXCEPT ![l] = IF HasId(l) THEN "failed" ELSE "ok"]
            /\ UNCHANGED order
    /\ UNCHANGED <<runnerVars, reply, seen, waiter, sold>>

\* The cancel throws or times out, before or after it took effect.
CancelFails(l) ==
    /\ cancel[l] = "pending"
    /\ cancel' = [cancel EXCEPT ![l] = "failed"]
    /\ \/ UNCHANGED order
       \/ order[l].st = "open" /\ order' = [order EXCEPT ![l].st = "closed"]
    /\ UNCHANGED <<runnerVars, reply, seen, waiter, sold>>

-----------------------------------------------------------------------------

Runner ==
    \/ Submit \/ SubmissionFailed \/ AnswersRefused \/ AwaitFills \/ AssumeFilled
    \/ BothFilled \/ OneLegFilled \/ NoLegFilled
    \/ BothCancelled \/ StartUnwinding
    \/ \E n \in 0 .. Size : Unwound(n) \/ NotUnwound(n)

Environment ==
    \E l \in Legs :
      \/ Arrive(l) \/ Lose(l) \/ Kill(l)
      \/ \E n \in 1 .. Size : Match(l, n)
      \/ \E r \in Replies : Reply(l, r)
      \/ SubmitTimeout(l) \/ FillTimeout(l)
      \/ \E s \in Seen : Observe(l, s)
      \/ CancelAnswer(l) \/ CancelFails(l)

\* The venue may go on after the execution is done; nothing else does.
Next == Runner \/ Environment

Spec == Init /\ [][Next]_vars

\* The event loop runs what is ready, and timers fire.  Nothing is assumed of the
\* venue, the network or the user channel.
Fairness ==
    /\ WF_vars(Runner)
    /\ \A l \in Legs : WF_vars(SubmitTimeout(l)) /\ WF_vars(FillTimeout(l)) /\ WF_vars(CancelFails(l))

FairSpec == Spec /\ Fairness

-----------------------------------------------------------------------------
(* Properties *)

\* The runner and the recovery never send an event the lifecycle table refuses, on
\* any path through replies, fills, cancels and unwinds: a throw there would leave
\* orders behind unrecovered.
NoIllegalTransition == execution.state # "illegal"

\* The lifecycle is terminal exactly when the execution has answered its caller: none
\* stays in the active set for ever, and none leaves it while orders are worked.
DoneIsTerminal == pc = "done" <=> execution.state \in TerminalStates

\* With the user channel, "submitted" is said of a pair only if the venue has matched
\* both legs in full, however stale, partial or reordered the channel's events were.
SubmittedMeansMatched ==
    userChannel /\ result = "submitted" => \A l \in Legs : order[l].matched = Size

\* Once fills have been awaited, the unwind never asks to sell more than the venue has
\* matched on that leg.
UnwindBacked ==
    pc = "unwind" /\ waiter[plan.leg] # "none" => plan.size <= order[plan.leg].matched

\* Of a failed execution, an order that is still open at the venue although its id was
\* known is reported as a failed cancel, unless it is the leg taken to be filled.
OpenOrderReported ==
    pc = "done" /\ result # "submitted" =>
        \A l \in Legs :
            order[l].st = "open" /\ HasId(l) /\ plan.leg # l => "order_cancel_failed" \in incidents

\* Every execution answers its caller, whatever the venue and the network do.
Finishes == <>(pc = "done")

\* The execution implements the abstract promise.
Outcomes == INSTANCE PairOutcome WITH
    bought  <- [l \in Legs |-> order[l].matched],
    sold    <- [l \in Legs |-> IF plan.leg = l THEN sold ELSE 0],
    watched <- userChannel,
    verdict <- IF pc # "done" THEN "working"
               ELSE IF result = "submitted" THEN "traded" ELSE "reported"

\* The execution is one of the abstract outcomes: traded, with both legs filled in full
\* if the user channel was watched, or reported once, with at most one leg sold back.
ImplementsOutcome == Outcomes!Spec
=============================================================================

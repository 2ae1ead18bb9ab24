--------------------------- MODULE Executions_proofs ---------------------------
(***************************************************************************)
(* For every size of a leg, every number of markets of a basket and every  *)
(* timeout: what the kinds of execution guarantee.                         *)
(*                                                                         *)
(* A paired execution, with and without the user channel: the lifecycle    *)
(* table refuses no event, "submitted" means matched on both legs, an      *)
(* observed unwind is backed by a match, an order left open is reported,   *)
(* and the execution implements PairOutcome.                               *)
(*                                                                         *)
(* A behaviour of Executions is one of each kind that mostly stands still, *)
(* so what is proved of a paired execution alone holds of it there.        *)
(***************************************************************************)
EXTENDS Executions, TLAPS

-----------------------------------------------------------------------------
(* The lifecycle record at each await *)

\* Where the lifecycle is when the execution awaits what pc says.
LifecycleAt ==
    /\ pc = "submit" => execution = NewExecution
    /\ pc = "acks" => /\ execution.state = "both_pending"
                      /\ execution.acked = {} /\ execution.filled = {}
    /\ pc = "fills" => execution.state = "both_acked" /\ execution.filled = {}
    /\ pc = "cancelBoth" => execution.state = "cancelling"
    /\ pc = "cancelOther" => execution.state = "partial_fill"
    /\ pc = "unwind" => execution.state = "unwinding"
    /\ pc = "done" => execution.state \in TerminalStates

\* The fill waiters and the user channel, and what they prove of the venue.
FillsBacked ==
    /\ \A l \in Legs :
         /\ seen[l].size <= order[l].matched
         /\ seen[l].filled => order[l].matched = Size
         /\ waiter[l] = "full" => order[l].matched = Size
    /\ pc \in {"submit", "acks"} => \A l \in Legs : waiter[l] = "none"
    /\ pc = "fills" => userChannel /\ \A l \in Legs : Accepted(l)
    /\ \A l \in Legs : waiter[l] # "none" => userChannel
    /\ pc = "submit" => \A l \in Legs : /\ order[l].st = "none" /\ order[l].matched = 0
                                        /\ seen[l].size = 0 /\ ~seen[l].filled

\* What the recovery was called with.
PlanBacked ==
    /\ pc \in {"submit", "acks", "fills"} => plan.leg = "none"
    /\ pc \in {"cancelOther", "unwind"} => plan.leg \in Legs
    /\ pc = "cancelBoth" => plan.reason \in Reasons /\ plan.leg = "none"
    /\ pc \in {"cancelOther", "unwind"} /\ waiter[plan.leg] # "none" =>
         plan.size <= order[plan.leg].matched

\* Until the execution is done nothing is sold and there is no result.
NothingBeforeDone == pc # "done" => sold = 0 /\ result = "none"

IInv ==
    /\ TypeOK
    /\ LifecycleAt
    /\ FillsBacked
    /\ PlanBacked
    /\ NothingBeforeDone
    /\ SubmittedMeansMatched

USE SizeAssumption

\* Every event of the lifecycle table takes an execution record to one.
LEMMA EventTypes ==
    ASSUME NEW e \in Execution, NEW l \in Legs
    PROVE  /\ SubmitStarted(e) \in Execution /\ Submitted(e, l) \in Execution
           /\ Ack(e, l) \in Execution /\ Fill(e, l) \in Execution
           /\ PartialFill(e) \in Execution /\ StartUnwind(e) \in Execution
           /\ UnwindComplete(e) \in Execution /\ CancelStarted(e) \in Execution
           /\ Failed(e) \in Execution /\ Complete(e) \in Execution
  BY DEF Execution, States, PendingStates, AckedStates, HalfFilled, TerminalStates,
         SubmitStarted, Submitted, Ack, Fill, PartialFill, StartUnwind, UnwindComplete,
         CancelStarted, Failed, Complete, Move, Legs, Pending, Acked, Filled

\* The record after both submissions, from idle.
LEMMA BothSubmitted ==
    ASSUME execution = NewExecution
    PROVE  LET e == Submitted(Submitted(SubmitStarted(execution), "yes"), "no")
           IN  e.state = "both_pending" /\ e.acked = {} /\ e.filled = {}
  BY DEF NewExecution, SubmitStarted, Submitted, Move, Other, Pending, PendingStates,
         SubmitPendingStates

\* The record after both acknowledgements.
LEMMA BothAcknowledged ==
    ASSUME execution \in Execution, execution.state = "both_pending",
           execution.acked = {}, execution.filled = {}
    PROVE  /\ Acknowledged \in Execution
           /\ Acknowledged.state = "both_acked" /\ Acknowledged.filled = {}
  <1>1. Ack(execution, "yes") \in Execution
    BY EventTypes DEF Legs
  <1>2. Acknowledged \in Execution
    BY <1>1, EventTypes DEF Legs, Acknowledged
  <1>3. /\ Ack(execution, "yes").state = "yes_acked"
        /\ Ack(execution, "yes").acked = {"yes"}
        /\ Ack(execution, "yes").filled = {}
    BY DEF Ack, Move, Other, Acked, AckStates, PendingStates, Execution
  <1> QED
    BY <1>1, <1>2, <1>3 DEF Acknowledged, Ack, Move, Other, AckStates, PendingStates,
       AckedStates, Execution

\* From an acknowledged record, two fills complete it.
LEMMA BothFill ==
    ASSUME NEW e \in Execution, e.state = "both_acked", e.filled = {}
    PROVE  LET f == Complete(Fill(Fill(e, "yes"), "no"))
           IN  f \in Execution /\ f.state \in TerminalStates
  <1>1. /\ Fill(e, "yes") \in Execution
        /\ Fill(e, "yes").state = "yes_filled" /\ Fill(e, "yes").filled = {"yes"}
    BY EventTypes DEF Legs, Fill, Move, Other, Filled, FillStates, AckStates, AckedStates,
       Execution
  <1>2. /\ Fill(Fill(e, "yes"), "no") \in Execution
        /\ Fill(Fill(e, "yes"), "no").state = "both_filled"
    BY <1>1, EventTypes DEF Legs, Fill, Move, Other, FillStates, HalfFilled, Execution
  <1> QED
    BY <1>2, EventTypes DEF Legs, Complete, Move, FinalizeStates, TerminalStates, Execution

\* The recovery may be called from a pending or an acknowledged record, in every case:
\* what it awaits next agrees with the record it leaves.
LEMMA RecoverySteps ==
    ASSUME NEW e \in Execution, e.state \in {"both_pending", "both_acked"}, e.filled = {},
           TypeOK, NEW reason \in Reasons, NEW n \in 0 .. Size
    PROVE  /\ CancelBoth(e, reason) =>
                /\ execution' \in Execution /\ execution'.state = "cancelling"
                /\ pc' = "cancelBoth" /\ plan' \in Plans /\ plan'.leg = "none"
                /\ plan'.reason \in Reasons
                /\ cancel' \in [Legs -> Cancels]
           /\ \A l \in Legs : RecoverLeg(e, l, n, reason) =>
                /\ execution' \in Execution /\ execution'.state = "partial_fill"
                /\ pc' = "cancelOther" /\ plan' \in Plans
                /\ plan'.leg = l /\ plan'.size = n
                /\ cancel' \in [Legs -> Cancels]
  <1>1. CancelBoth(e, reason) =>
          /\ execution' \in Execution /\ execution'.state = "cancelling"
          /\ pc' = "cancelBoth" /\ plan' \in Plans /\ plan'.leg = "none"
          /\ plan'.reason \in Reasons
          /\ cancel' \in [Legs -> Cancels]
    <2>1. CancelStarted(e) \in Execution /\ CancelStarted(e).state = "cancelling"
      BY EventTypes DEF CancelStarted, Move, CancellableStates, FillStates, AckStates,
         PendingStates, AckedStates, Execution, Legs
    <2>2. [leg |-> "none", size |-> 0, reason |-> reason] \in Plans
      BY DEF Plans
    <2> QED
      BY <2>1, <2>2 DEF CancelBoth, Cancels
  <1>2. ASSUME NEW l \in Legs, RecoverLeg(e, l, n, reason)
        PROVE  /\ execution' \in Execution /\ execution'.state = "partial_fill"
               /\ pc' = "cancelOther" /\ plan' \in Plans
               /\ plan'.leg = l /\ plan'.size = n
               /\ cancel' \in [Legs -> Cancels]
    <2>1. Fill(e, l) \in Execution /\ Fill(e, l).state \in HalfFilled
      BY EventTypes DEF Legs, Fill, Move, Other, Filled, FillStates, AckStates,
         PendingStates, AckedStates, HalfFilled, Execution
    <2>2. execution' \in Execution /\ execution'.state = "partial_fill"
      BY <1>2, <2>1, EventTypes DEF RecoverLeg, PartialFill, Move, HalfFilled, Execution
    <2>3. plan' \in Plans /\ plan'.leg = l /\ plan'.size = n /\ pc' = "cancelOther"
      BY <1>2 DEF RecoverLeg, Plans
    <2>4. cancel' \in [Legs -> Cancels]
      BY <1>2 DEF RecoverLeg, TypeOK, Cancels, Legs, Other
    <2> QED
      BY <2>2, <2>3, <2>4
  <1> QED
    BY <1>1, <1>2

\* handleFailure called with any reason from such a record, while no waiter is set or
\* both legs are accepted, keeps the invariant.
LEMMA HandleFailureKeeps ==
    ASSUME IInv, NEW e \in Execution, e.state \in {"both_pending", "both_acked"},
           e.filled = {}, NEW reason \in Reasons,
           pc \in {"acks", "fills"},
           HandleFailure(e, reason),
           UNCHANGED <<userChannel, reply, order, seen, waiter, sold, incidents, result>>
    PROVE  IInv'
  <1>1. Size \in 0 .. Size
    OBVIOUS
  <1>2. CASE CancelBoth(e, reason)
    <2>1. /\ execution' \in Execution /\ execution'.state = "cancelling"
          /\ pc' = "cancelBoth" /\ plan' \in Plans /\ plan'.leg = "none"
          /\ plan'.reason \in Reasons
          /\ cancel' \in [Legs -> Cancels]
      BY <1>1, <1>2, RecoverySteps DEF IInv
    <2> QED
      BY <2>1 DEF IInv, TypeOK, Stops, LifecycleAt, FillsBacked, PlanBacked, NothingBeforeDone,
         SubmittedMeansMatched
  <1>3. ASSUME NEW l \in Legs, Accepted(l), ~Accepted(Other(l)), RecoverLeg(e, l, Size, reason)
        PROVE  IInv'
    <2>1. /\ execution' \in Execution /\ execution'.state = "partial_fill"
          /\ pc' = "cancelOther" /\ plan' \in Plans
          /\ plan'.leg = l /\ plan'.size = Size
          /\ cancel' \in [Legs -> Cancels]
      BY <1>1, <1>3, RecoverySteps DEF IInv
    <2>2. pc = "acks" /\ waiter[l] = "none"
      BY <1>3 DEF IInv, FillsBacked, Other, Legs
    <2> QED
      BY <1>3, <2>1, <2>2 DEF IInv, TypeOK, Stops, LifecycleAt, FillsBacked, PlanBacked,
         NothingBeforeDone, SubmittedMeansMatched
  <1> QED
    BY <1>2, <1>3 DEF HandleFailure

-----------------------------------------------------------------------------
(* The invariant *)

\* Nothing is submitted initially.
LEMMA InvariantInit == Init => IInv
  BY DEF Init, IInv, TypeOK, Execution, NewExecution, States, Stops, Replies, Orders, Seen,
     Waiters, Cancels, Plans, Results, Incidents, LifecycleAt, FillsBacked, PlanBacked,
     NothingBeforeDone, SubmittedMeansMatched, Legs

\* The steps of the runner and of the recovery keep the invariant.
LEMMA RunnerStep ==
    ASSUME IInv, Runner
    PROVE  IInv'
  <1>1. CASE Submit
    <2>1. execution' \in Execution
      <3>1. SubmitStarted(execution) \in Execution
        BY EventTypes DEF IInv, TypeOK, Legs
      <3>2. Submitted(SubmitStarted(execution), "yes") \in Execution
        BY <3>1, EventTypes DEF Legs
      <3> QED
        BY <1>1, <3>2, EventTypes DEF Submit, Legs
    <2>2. /\ execution'.state = "both_pending"
          /\ execution'.acked = {} /\ execution'.filled = {}
      BY <1>1, BothSubmitted DEF Submit, IInv, LifecycleAt
    <2> QED
      BY <1>1, <2>1, <2>2 DEF Submit, IInv, TypeOK, Stops, Orders, Seen, LifecycleAt,
         FillsBacked, PlanBacked, NothingBeforeDone, SubmittedMeansMatched
  <1>2. CASE SubmissionFailed
    <2>1. /\ pc = "acks" /\ execution \in Execution /\ execution.state = "both_pending"
          /\ execution.filled = {}
      BY <1>2 DEF SubmissionFailed, IInv, TypeOK, LifecycleAt
    <2>2. PICK reason \in Reasons : HandleFailure(execution, reason)
      BY <1>2 DEF SubmissionFailed, Reasons
    <2> QED
      BY <1>2, <2>1, <2>2, HandleFailureKeeps DEF SubmissionFailed
  <1>3. CASE AnswersRefused
    <2>1. /\ pc = "acks" /\ Acknowledged \in Execution /\ Acknowledged.state = "both_acked"
          /\ Acknowledged.filled = {}
      BY <1>3, BothAcknowledged DEF AnswersRefused, BothAnswered, IInv, TypeOK, LifecycleAt
    <2>2. PICK reason \in Reasons : HandleFailure(Acknowledged, reason)
      BY <1>3 DEF AnswersRefused, Reasons
    <2> QED
      BY <1>3, <2>1, <2>2, HandleFailureKeeps DEF AnswersRefused
  <1>4. CASE AwaitFills
    <2>1. /\ pc = "acks" /\ execution' \in Execution /\ execution'.state = "both_acked"
          /\ execution'.filled = {}
      BY <1>4, BothAcknowledged DEF AwaitFills, BothAnswered, IInv, TypeOK, LifecycleAt
    <2>2. /\ waiter' \in [Legs -> Waiters]
          /\ \A l \in Legs : waiter'[l] = Outcome(seen[l])
      BY <1>4 DEF AwaitFills, Outcome, Waiters
    <2>3. ASSUME NEW l \in Legs, waiter'[l] = "full"
          PROVE  order[l].matched = Size
      <3>1. seen[l].size >= Size \/ seen[l].filled
        BY <2>2, <2>3 DEF Outcome
      <3>2. order[l].matched \in 0 .. Size /\ seen[l].size \in 0 .. Size
        BY DEF IInv, TypeOK, Orders, Seen
      <3>3. seen[l].size <= order[l].matched /\ (seen[l].filled => order[l].matched = Size)
        BY DEF IInv, FillsBacked
      <3>4. CASE seen[l].size >= Size
        BY <3>2, <3>3, <3>4
      <3>5. CASE seen[l].filled
        BY <3>3, <3>5
      <3> QED
        BY <3>1, <3>4, <3>5
    <2> QED
      BY <1>4, <2>1, <2>2, <2>3 DEF AwaitFills, IInv, TypeOK, Stops, LifecycleAt, FillsBacked,
         Accepted, PlanBacked, NothingBeforeDone, SubmittedMeansMatched
  <1>5. CASE AssumeFilled
    <2>1. execution' \in Execution /\ execution'.state \in TerminalStates
      <3>1. /\ Acknowledged \in Execution /\ Acknowledged.state = "both_acked"
            /\ Acknowledged.filled = {}
        BY <1>5, BothAcknowledged DEF AssumeFilled, BothAnswered, IInv, TypeOK, LifecycleAt
      <3> QED
        BY <1>5, <3>1, BothFill DEF AssumeFilled
    <2> QED
      BY <1>5, <2>1 DEF AssumeFilled, BothAnswered, IInv, TypeOK, Stops, Results, LifecycleAt,
         FillsBacked, PlanBacked, NothingBeforeDone, SubmittedMeansMatched
  <1>6. CASE BothFilled
    <2>1. execution' \in Execution /\ execution'.state \in TerminalStates
      BY <1>6, BothFill DEF BothFilled, FillsKnown, IInv, TypeOK, LifecycleAt
    <2>2. \A l \in Legs : order[l].matched = Size
      BY <1>6 DEF BothFilled, IInv, FillsBacked
    <2> QED
      BY <1>6, <2>1, <2>2 DEF BothFilled, FillsKnown, IInv, TypeOK, Stops, Results, LifecycleAt,
         FillsBacked, PlanBacked, NothingBeforeDone, SubmittedMeansMatched
  <1>7. CASE OneLegFilled
    <2>1. PICK l \in Legs : RecoverLeg(execution, l, seen[l].size, FillReason)
      BY <1>7 DEF OneLegFilled
    <2>2. /\ pc = "fills" /\ execution \in Execution /\ execution.state = "both_acked"
          /\ execution.filled = {} /\ FillReason \in Reasons /\ seen[l].size \in 0 .. Size
      BY <1>7 DEF OneLegFilled, FillsKnown, IInv, TypeOK, LifecycleAt, FillReason, Reasons, Seen
    <2>3. /\ execution' \in Execution /\ execution'.state = "partial_fill"
          /\ pc' = "cancelOther" /\ plan' \in Plans
          /\ plan'.leg = l /\ plan'.size = seen[l].size
          /\ cancel' \in [Legs -> Cancels]
      BY <2>1, <2>2, RecoverySteps DEF IInv
    <2> QED
      BY <1>7, <2>2, <2>3 DEF OneLegFilled, IInv, TypeOK, Stops, LifecycleAt, FillsBacked,
         PlanBacked, NothingBeforeDone, SubmittedMeansMatched
  <1>8. CASE NoLegFilled
    <2>1. /\ pc = "fills" /\ execution \in Execution /\ execution.state = "both_acked"
          /\ execution.filled = {} /\ FillReason \in Reasons
      BY <1>8 DEF NoLegFilled, FillsKnown, IInv, TypeOK, LifecycleAt, FillReason, Reasons
    <2> QED
      BY <1>8, <2>1, HandleFailureKeeps DEF NoLegFilled
  <1>9. CASE BothCancelled
    <2>1. execution' \in Execution /\ execution'.state \in TerminalStates
      BY <1>9, EventTypes DEF BothCancelled, IInv, TypeOK, LifecycleAt, Failed, Move,
         FailableStates, TerminalStates, Execution, Legs
    <2>2. /\ incidents' \in SUBSET Incidents /\ result' \in Results /\ result' # "submitted"
      BY <1>9 DEF BothCancelled, IInv, TypeOK, PlanBacked, Incidents, CancelIncident,
         IncidentOf, Results, Reasons
    <2> QED
      BY <1>9, <2>1, <2>2 DEF BothCancelled, IInv, TypeOK, Stops, LifecycleAt, FillsBacked,
         PlanBacked, NothingBeforeDone, SubmittedMeansMatched
  <1>10. CASE StartUnwinding
    <2>1. execution' \in Execution /\ execution'.state = "unwinding"
      BY <1>10, EventTypes DEF StartUnwinding, IInv, TypeOK, LifecycleAt, StartUnwind, Move,
         Execution, Legs
    <2> QED
      BY <1>10, <2>1 DEF StartUnwinding, IInv, TypeOK, Stops, Incidents, CancelIncident,
         LifecycleAt, FillsBacked, PlanBacked, NothingBeforeDone, SubmittedMeansMatched
  <1>11. ASSUME NEW n \in 0 .. Size, Unwound(n)
         PROVE  IInv'
    <2>1. execution' \in Execution /\ execution'.state \in TerminalStates
      <3>1. UnwindComplete(execution) \in Execution
        BY EventTypes DEF IInv, TypeOK, Legs
      <3>2. UnwindComplete(execution).state = "unwind_complete"
        BY <1>11 DEF Unwound, IInv, TypeOK, LifecycleAt, UnwindComplete, Move, Execution
      <3> QED
        BY <1>11, <3>1, <3>2, EventTypes DEF Unwound, Complete, Move, FinalizeStates,
           TerminalStates, Execution, Legs
    <2> QED
      BY <1>11, <2>1 DEF Unwound, IInv, TypeOK, Stops, Results, LifecycleAt, FillsBacked,
         PlanBacked, NothingBeforeDone, SubmittedMeansMatched
  <1>12. ASSUME NEW n \in 0 .. Size, NotUnwound(n)
         PROVE  IInv'
    <2>1. execution' \in Execution /\ execution'.state \in TerminalStates
      BY <1>12, EventTypes DEF NotUnwound, IInv, TypeOK, LifecycleAt, Failed, Move,
         FailableStates, TerminalStates, Execution, Legs
    <2> QED
      BY <1>12, <2>1 DEF NotUnwound, IInv, TypeOK, Stops, Results, Incidents, LifecycleAt,
         FillsBacked, PlanBacked, NothingBeforeDone, SubmittedMeansMatched
  <1> QED
    BY <1>1, <1>2, <1>3, <1>4, <1>5, <1>6, <1>7, <1>8, <1>9, <1>10, <1>11, <1>12 DEF Runner

\* So do those of the venue, the network, the user channel and the timers.
LEMMA EnvironmentStep ==
    ASSUME IInv, Environment
    PROVE  IInv'
  <1> USE DEF runnerVars
  <1>1. PICK l \in Legs :
          \/ Arrive(l) \/ Lose(l) \/ Kill(l)
          \/ \E n \in 1 .. Size : Match(l, n)
          \/ \E r \in Replies : Reply(l, r)
          \/ SubmitTimeout(l) \/ FillTimeout(l)
          \/ \E s \in Seen : Observe(l, s)
          \/ CancelAnswer(l) \/ CancelFails(l)
    BY DEF Environment
  <1>2. CASE Arrive(l)
    BY <1>2 DEF Arrive, IInv, TypeOK, Orders, LifecycleAt, FillsBacked, Accepted, PlanBacked,
       NothingBeforeDone, SubmittedMeansMatched
  <1>3. CASE Lose(l)
    BY <1>3 DEF Lose, IInv, TypeOK, Orders, LifecycleAt, FillsBacked, Accepted, PlanBacked,
       NothingBeforeDone, SubmittedMeansMatched
  <1>4. CASE Kill(l)
    BY <1>4 DEF Kill, IInv, TypeOK, Orders, LifecycleAt, FillsBacked, Accepted, PlanBacked,
       NothingBeforeDone, SubmittedMeansMatched
  <1>5. ASSUME NEW n \in 1 .. Size, Match(l, n)
        PROVE  IInv'
    <2>1. /\ order' \in [Legs -> Orders]
          /\ order'[l].matched = n /\ n > order[l].matched
          /\ \A k \in Legs \ {l} : order'[k] = order[k]
      BY <1>5 DEF Match, IInv, TypeOK, Orders
    <2>2. \A k \in Legs : /\ order[k].matched \in 0 .. Size
                          /\ order'[k].matched \in 0 .. Size
                          /\ order[k].matched <= order'[k].matched
                          /\ seen[k].size \in 0 .. Size
      BY <2>1 DEF IInv, TypeOK, Orders, Seen
    <2>3. /\ TypeOK' /\ LifecycleAt' /\ NothingBeforeDone'
      BY <1>5, <2>1 DEF Match, IInv, TypeOK, LifecycleAt, NothingBeforeDone
    <2>4. FillsBacked'
      BY <1>5, <2>1, <2>2 DEF Match, IInv, FillsBacked, Accepted
    <2>5. PlanBacked'
      BY <1>5, <2>2 DEF Match, IInv, TypeOK, PlanBacked, Plans
    <2>6. SubmittedMeansMatched'
      BY <1>5, <2>2 DEF Match, IInv, SubmittedMeansMatched
    <2> QED
      BY <2>3, <2>4, <2>5, <2>6 DEF IInv
  <1>6. ASSUME NEW r \in Replies, Reply(l, r)
        PROVE  IInv'
    BY <1>6 DEF Reply, IInv, TypeOK, LifecycleAt, FillsBacked, PlanBacked,
       NothingBeforeDone, SubmittedMeansMatched
  <1>7. CASE SubmitTimeout(l)
    BY <1>7 DEF SubmitTimeout, IInv, TypeOK, Replies, LifecycleAt, FillsBacked, PlanBacked,
       NothingBeforeDone, SubmittedMeansMatched
  <1>8. CASE FillTimeout(l)
    BY <1>8 DEF FillTimeout, IInv, TypeOK, Waiters, LifecycleAt, FillsBacked, Accepted,
       PlanBacked, NothingBeforeDone, SubmittedMeansMatched
  <1>9. ASSUME NEW s \in Seen, Observe(l, s)
        PROVE  IInv'
    <2>1. /\ s.size <= order[l].matched
          /\ s.filled => order[l].matched = Size
          /\ seen' = [seen EXCEPT ![l] = s]
          /\ waiter' = [waiter EXCEPT ![l] = IF @ = "waiting" THEN Outcome(s) ELSE @]
      BY <1>9 DEF Observe
    <2>2. waiter'[l] = "full" => order[l].matched = Size
      <3>1. ASSUME waiter[l] = "waiting", waiter'[l] = "full"
            PROVE  s.size >= Size \/ s.filled
        BY <2>1, <3>1 DEF IInv, TypeOK, Outcome
      <3>2. order[l].matched \in 0 .. Size /\ s.size \in 0 .. Size
        BY DEF IInv, TypeOK, Orders, Seen
      <3>3. CASE waiter[l] = "waiting" /\ waiter'[l] = "full"
        <4>1. CASE s.size >= Size
          BY <2>1, <3>2, <4>1
        <4>2. CASE s.filled
          BY <2>1, <4>2
        <4> QED
          BY <3>1, <3>3, <4>1, <4>2
      <3>4. CASE waiter[l] # "waiting"
        BY <2>1, <3>4 DEF IInv, TypeOK, FillsBacked
      <3> QED
        BY <3>3, <3>4
    <2>3. waiter'[l] # "none" => waiter[l] # "none"
      BY <2>1 DEF IInv, TypeOK
    <2>4. TypeOK'
      BY <1>9, <2>1 DEF Observe, IInv, TypeOK, Waiters, Outcome
    <2>5. FillsBacked'
      BY <1>9, <2>1, <2>2, <2>3 DEF Observe, IInv, TypeOK, FillsBacked, Accepted
    <2>6. /\ LifecycleAt' /\ PlanBacked' /\ NothingBeforeDone' /\ SubmittedMeansMatched'
      BY <1>9 DEF Observe, IInv, LifecycleAt, PlanBacked, NothingBeforeDone, SubmittedMeansMatched
    <2> QED
      BY <2>4, <2>5, <2>6 DEF IInv
  <1>10. CASE CancelAnswer(l) \/ CancelFails(l)
    <2>1. /\ cancel' \in [Legs -> Cancels] /\ order' \in [Legs -> Orders]
          /\ \A k \in Legs : order'[k].matched = order[k].matched
          /\ \A k \in Legs : order[k].st = "none" => order'[k].st = "none"
      <3>1. cancel' \in [Legs -> Cancels]
        BY <1>10 DEF CancelAnswer, CancelFails, IInv, TypeOK, Cancels
      <3>2. UNCHANGED order \/ (order[l].st = "open" /\ order' = [order EXCEPT ![l].st = "closed"])
        BY <1>10 DEF CancelAnswer, CancelFails
      <3> QED
        BY <3>1, <3>2 DEF IInv, TypeOK, Orders
    <2>2. UNCHANGED <<runnerVars, reply, seen, waiter, sold>>
      BY <1>10 DEF CancelAnswer, CancelFails
    <2> QED
      BY <2>1, <2>2 DEF IInv, TypeOK, LifecycleAt, FillsBacked, Accepted, PlanBacked,
         NothingBeforeDone, SubmittedMeansMatched
  <1> QED
    BY <1>1, <1>2, <1>3, <1>4, <1>5, <1>6, <1>7, <1>8, <1>9, <1>10

\* The invariant holds in every reachable state.
LEMMA Invariant == Spec => []IInv
  <1>1. Init => IInv
    BY InvariantInit
  <1>2. IInv /\ [Next]_vars => IInv'
    <2>1. IInv /\ Next => IInv'
      BY RunnerStep, EnvironmentStep DEF Next
    <2>2. IInv /\ UNCHANGED vars => IInv'
      BY DEF vars, IInv, TypeOK, LifecycleAt, FillsBacked, Accepted, PlanBacked,
         NothingBeforeDone, SubmittedMeansMatched
    <2> QED
      BY <2>1, <2>2
  <1> QED
    BY <1>1, <1>2, PTL DEF Spec

-----------------------------------------------------------------------------
(* The theorems *)

\* Every state of a paired execution is of its type, for every leg size.
THEOREM PairedTypeCorrect == Spec => []TypeOK
  BY Invariant, PTL DEF IInv

\* No path through replies, fills, cancels and unwinds sends an event that the
\* lifecycle table refuses.
THEOREM NoEventRefused == Spec => []NoIllegalTransition
  <1>1. IInv => NoIllegalTransition
    BY DEF IInv, TypeOK, Stops, LifecycleAt, NoIllegalTransition, NewExecution, TerminalStates
  <1> QED
    BY <1>1, Invariant, PTL

\* The lifecycle is terminal exactly when the caller has its answer.
THEOREM TerminalWhenDone == Spec => []DoneIsTerminal
  <1>1. IInv => DoneIsTerminal
    BY DEF IInv, TypeOK, Stops, LifecycleAt, DoneIsTerminal, NewExecution, TerminalStates
  <1> QED
    BY <1>1, Invariant, PTL

\* "submitted" means matched in full on both legs, whatever the user channel delays,
\* drops or repeats.
THEOREM SubmittedIsMatched == Spec => []SubmittedMeansMatched
  BY Invariant, PTL DEF IInv

\* An unwind after awaited fills never asks to sell more than the venue has matched.
THEOREM UnwindsAreBacked == Spec => []UnwindBacked
  <1>1. IInv => UnwindBacked
    BY DEF IInv, PlanBacked, UnwindBacked
  <1> QED
    BY <1>1, Invariant, PTL

-----------------------------------------------------------------------------
(* Cancels *)

\* What became of the cancels: an order with an id whose cancel succeeded is closed, and
\* once the cancels have been answered a failed one has been reported.
CancelsSettled ==
    /\ pc \in {"submit", "acks", "fills"} => \A l \in Legs : cancel[l] = "none"
    /\ \A l \in Legs : cancel[l] = "ok" /\ HasId(l) => order[l].st = "closed"
    /\ pc \in {"cancelBoth", "cancelOther"} =>
         \A l \in Legs : l # plan.leg => cancel[l] # "none"
    /\ pc = "unwind" \/ (pc = "done" /\ result # "submitted") =>
         \A l \in Legs : l # plan.leg =>
           cancel[l] = "ok" \/ (cancel[l] = "failed" /\ "order_cancel_failed" \in incidents)

\* Calling the recovery sends the cancels it then awaits.
LEMMA HandleFailureCancels ==
    ASSUME IInv, CancelsSettled, NEW e, NEW reason \in Reasons, pc \in {"acks", "fills"},
           HandleFailure(e, reason), UNCHANGED <<reply, order>>
    PROVE  CancelsSettled'
  <1>1. CASE CancelBoth(e, reason)
    BY <1>1 DEF CancelBoth, CancelsSettled, HasId, IInv, TypeOK
  <1>2. ASSUME NEW l \in Legs, RecoverLeg(e, l, Size, reason)
        PROVE  CancelsSettled'
    BY <1>2 DEF RecoverLeg, CancelsSettled, HasId, IInv, TypeOK, Legs, Other
  <1> QED
    BY <1>1, <1>2 DEF HandleFailure

\* Both cancels are settled in every step.
LEMMA CancelsStep ==
    ASSUME IInv, CancelsSettled, [Next]_vars
    PROVE  CancelsSettled'
  <1>1. CASE Submit \/ AwaitFills \/ AssumeFilled \/ BothFilled
    BY <1>1 DEF Submit, AwaitFills, AssumeFilled, BothAnswered, BothFilled, FillsKnown,
       CancelsSettled, HasId, IInv, TypeOK
  <1>2. CASE SubmissionFailed \/ AnswersRefused \/ NoLegFilled
    <2>1. /\ pc \in {"acks", "fills"} /\ UNCHANGED <<reply, order>>
          /\ \E e \in {execution, Acknowledged}, reason \in Reasons : HandleFailure(e, reason)
      BY <1>2 DEF SubmissionFailed, AnswersRefused, BothAnswered, NoLegFilled, FillsKnown,
         FillReason, Reasons
    <2> QED
      BY <2>1, HandleFailureCancels
  <1>3. CASE OneLegFilled
    <2>1. PICK l \in Legs : RecoverLeg(execution, l, seen[l].size, FillReason)
      BY <1>3 DEF OneLegFilled
    <2> QED
      BY <1>3, <2>1 DEF OneLegFilled, FillsKnown, RecoverLeg, CancelsSettled, HasId, IInv, TypeOK,
         Legs, Other
  <1>4. CASE BothCancelled
    BY <1>4 DEF BothCancelled, CancelsAnswered, CancelIncident, CancelsSettled, HasId, IInv, TypeOK,
       PlanBacked, Cancels
  <1>5. CASE StartUnwinding
    BY <1>5 DEF StartUnwinding, CancelsAnswered, CancelIncident, CancelsSettled, HasId, IInv,
       TypeOK, PlanBacked, Cancels
  <1>6. ASSUME NEW n \in 0 .. Size, Unwound(n) \/ NotUnwound(n)
        PROVE  CancelsSettled'
    BY <1>6 DEF Unwound, NotUnwound, CancelsSettled, HasId, IInv, TypeOK
  <1>7. CASE Environment
    <2>1. PICK l \in Legs :
            \/ Arrive(l) \/ Lose(l) \/ Kill(l)
            \/ \E n \in 1 .. Size : Match(l, n)
            \/ \E r \in Replies : Reply(l, r)
            \/ SubmitTimeout(l) \/ FillTimeout(l)
            \/ \E s \in Seen : Observe(l, s)
            \/ CancelAnswer(l) \/ CancelFails(l)
      BY <1>7 DEF Environment
    <2>2. UNCHANGED runnerVars
      BY <2>1 DEF Arrive, Lose, Kill, Match, Reply, SubmitTimeout, FillTimeout, Observe,
         CancelAnswer, CancelFails
    <2>3. \A k \in Legs : order[k].st = "closed" => order'[k].st = "closed"
      BY <2>1 DEF Arrive, Lose, Kill, Match, Reply, SubmitTimeout, FillTimeout, Observe,
         CancelAnswer, CancelFails, IInv, TypeOK, Orders
    <2>4. CASE UNCHANGED <<reply, cancel>>
      BY <2>2, <2>3, <2>4 DEF runnerVars, CancelsSettled, HasId
    <2>5. CASE \/ \E r \in Replies : Reply(l, r)
               \/ SubmitTimeout(l)
      <3>1. pc = "acks" /\ UNCHANGED cancel
        BY <2>5 DEF Reply, SubmitTimeout
      <3> QED
        BY <2>2, <3>1 DEF runnerVars, CancelsSettled
    <2>6. CASE CancelAnswer(l)
      <3>1. /\ cancel[l] = "pending" /\ UNCHANGED reply
            /\ \/ order'[l].st = "closed" /\ cancel' = [cancel EXCEPT ![l] = "ok"]
               \/ cancel' = [cancel EXCEPT ![l] = IF HasId(l) THEN "failed" ELSE "ok"]
        BY <2>6 DEF CancelAnswer, IInv, TypeOK, Orders
      <3> QED
        BY <2>2, <2>3, <3>1 DEF runnerVars, CancelsSettled, HasId, IInv, TypeOK
    <2>7. CASE CancelFails(l)
      <3>1. /\ cancel[l] = "pending" /\ UNCHANGED reply
            /\ cancel' = [cancel EXCEPT ![l] = "failed"]
        BY <2>7 DEF CancelFails
      <3> QED
        BY <2>2, <2>3, <3>1 DEF runnerVars, CancelsSettled, HasId, IInv, TypeOK
    <2> QED
      BY <2>1, <2>4, <2>5, <2>6, <2>7 DEF Arrive, Lose, Kill, Match, FillTimeout, Observe
  <1>8. CASE UNCHANGED vars
    BY <1>8 DEF vars, CancelsSettled, HasId
  <1> QED
    BY <1>1, <1>2, <1>3, <1>4, <1>5, <1>6, <1>7, <1>8 DEF Next, Runner

\* An order that is still open under an id the execution knows is reported, whatever the
\* cancels met, on every path to a failure.
THEOREM OpenOrdersReported == Spec => []OpenOrderReported
  <1>1. Init => CancelsSettled
    BY DEF Init, CancelsSettled, Legs
  <1>2. IInv /\ CancelsSettled /\ [Next]_vars => CancelsSettled'
    BY CancelsStep
  <1>3. IInv /\ CancelsSettled => OpenOrderReported
    BY DEF IInv, TypeOK, CancelsSettled, OpenOrderReported
  <1> QED
    BY <1>1, <1>2, <1>3, Invariant, PTL DEF Spec

-----------------------------------------------------------------------------
(* Refinement *)

\* The abstract variables.
Bought  == [l \in Legs |-> order[l].matched]
SoldOf  == [l \in Legs |-> IF plan.leg = l THEN sold ELSE 0]
Verdict == IF pc # "done" THEN "working"
           ELSE IF result = "submitted" THEN "traded" ELSE "reported"

\* Every step of the runner and of the recovery is a verdict or a stutter.
LEMMA RunnerRefines ==
    ASSUME IInv, Runner
    PROVE  [Outcomes!Next]_(Outcomes!vars)
  <1>1. CASE \/ Submit \/ SubmissionFailed \/ AnswersRefused \/ AwaitFills
             \/ OneLegFilled \/ NoLegFilled \/ StartUnwinding
    <2>1. pc # "done" /\ pc' # "done"
      BY <1>1 DEF Submit, SubmissionFailed, AnswersRefused, BothAnswered, AwaitFills,
         OneLegFilled, NoLegFilled, FillsKnown, StartUnwinding, HandleFailure, CancelBoth,
         RecoverLeg
    <2>2. sold = 0 /\ sold' = 0 /\ UNCHANGED userChannel
      BY <1>1, <2>1 DEF IInv, NothingBeforeDone, Submit, SubmissionFailed, AnswersRefused,
         AwaitFills, OneLegFilled, NoLegFilled, StartUnwinding
    <2>3. Bought' = Bought
      <3>1. CASE Submit
        BY <3>1 DEF Submit, Bought, IInv, FillsBacked, NothingBeforeDone
      <3> QED
        BY <1>1, <3>1 DEF SubmissionFailed, AnswersRefused, AwaitFills, OneLegFilled,
           NoLegFilled, StartUnwinding, Bought
    <2>4. SoldOf' = SoldOf /\ Verdict' = Verdict
      BY <2>1, <2>2 DEF SoldOf, Verdict
    <2> QED
      BY <2>2, <2>3, <2>4 DEF Outcomes!vars, Bought, SoldOf, Verdict
  <1>2. CASE BothFilled
    <2>1. \A l \in Legs : Bought[l] = Size
      BY <1>2 DEF BothFilled, IInv, FillsBacked, Bought
    <2>2. UNCHANGED <<userChannel, Bought, SoldOf>> /\ Verdict = "working" /\ Verdict' = "traded"
      BY <1>2 DEF BothFilled, FillsKnown, Bought, SoldOf, Verdict
    <2> QED
      BY <2>1, <2>2 DEF Outcomes!Next, Outcomes!Trade, Bought, SoldOf, Verdict
  <1>3. CASE BothCancelled
    <2>1. UNCHANGED <<userChannel, Bought, SoldOf>> /\ Verdict = "working"
      BY <1>3 DEF BothCancelled, Bought, SoldOf, Verdict
    <2>2. Verdict' = "reported"
      BY <1>3 DEF BothCancelled, Verdict, IInv, PlanBacked, Reasons
    <2> QED
      BY <2>1, <2>2 DEF Outcomes!Next, Outcomes!Report, Bought, SoldOf, Verdict
  <1>4. ASSUME NEW n \in 0 .. Size, Unwound(n) \/ NotUnwound(n)
        PROVE  Outcomes!Next
    <2>1. /\ UNCHANGED userChannel
          /\ Bought' = Bought /\ Verdict = "working" /\ Verdict' = "reported"
          /\ pc = "unwind" /\ plan' = plan /\ sold' = n /\ n \in Sellable
      BY <1>4 DEF Unwound, NotUnwound, Bought, Verdict
    <2>2. plan.leg \in Legs /\ sold = 0
      BY <2>1 DEF IInv, PlanBacked, NothingBeforeDone
    <2>3. n = 0 \/ n \in 1 .. Bought[plan.leg]
      BY <2>1, <2>2 DEF Sellable, Bought, IInv, TypeOK, Orders, Plans
    <2>4. CASE n = 0
      <3>1. SoldOf' = SoldOf
        BY <2>1, <2>2, <2>4 DEF SoldOf
      <3> QED
        BY <2>1, <3>1 DEF Outcomes!Next, Outcomes!Report, Bought, SoldOf, Verdict
    <2>5. CASE n \in 1 .. Bought[plan.leg]
      <3>1. SoldOf' = [SoldOf EXCEPT ![plan.leg] = n]
        BY <2>1, <2>2 DEF SoldOf
      <3> QED
        BY <2>1, <2>2, <2>5, <3>1 DEF Outcomes!Next, Outcomes!Report, Bought, SoldOf, Verdict
    <2> QED
      BY <2>3, <2>4, <2>5
  <1>5. CASE AssumeFilled
    <2>1. /\ UNCHANGED <<userChannel, Bought, SoldOf>> /\ ~userChannel
          /\ Verdict = "working" /\ Verdict' = "traded"
      BY <1>5 DEF AssumeFilled, BothAnswered, Bought, SoldOf, Verdict
    <2> QED
      BY <2>1 DEF Outcomes!Next, Outcomes!Trade, Bought, SoldOf, Verdict
  <1> QED
    BY <1>1, <1>2, <1>3, <1>4, <1>5 DEF Runner

\* Every step of the environment is a fill at the venue or a stutter.
LEMMA EnvironmentRefines ==
    ASSUME IInv, Environment
    PROVE  [Outcomes!Next]_(Outcomes!vars)
  <1>1. UNCHANGED <<userChannel, SoldOf, Verdict>>
    BY DEF Environment, Arrive, Lose, Kill, Match, Reply, SubmitTimeout, FillTimeout, Observe,
       CancelAnswer, CancelFails, runnerVars, SoldOf, Verdict
  <1>2. CASE \E l \in Legs : \E n \in 1 .. Size : Match(l, n)
    <2>1. PICK l \in Legs, n \in 1 .. Size : Match(l, n)
      BY <1>2
    <2>2. n \in (Bought[l] + 1) .. Size /\ Bought' = [Bought EXCEPT ![l] = n]
      BY <2>1 DEF Match, Bought, IInv, TypeOK, Orders
    <2> QED
      BY <1>1, <2>2 DEF Outcomes!Next, Outcomes!VenueFills, Bought, SoldOf, Verdict
  <1>3. CASE ~\E l \in Legs : \E n \in 1 .. Size : Match(l, n)
    <2>1. PICK l \in Legs :
            \/ UNCHANGED order
            \/ order' = [order EXCEPT ![l].st = "open"]
            \/ order' = [order EXCEPT ![l].st = "closed"]
      BY <1>3 DEF Environment, Arrive, Lose, Kill, Reply, SubmitTimeout, FillTimeout, Observe,
         CancelAnswer, CancelFails
    <2>2. Bought' = Bought
      BY <2>1 DEF Bought, IInv, TypeOK, Orders
    <2> QED
      BY <1>1, <2>2 DEF Outcomes!vars, Bought, SoldOf, Verdict
  <1> QED
    BY <1>2, <1>3

\* A paired execution implements the abstract promise, with and without the user channel.
THEOREM PairedImplementsOutcome == Spec => ImplementsOutcome
  <1>1. Init => Outcomes!Init
    BY DEF Init, Outcomes!Init, Legs
  <1>2. IInv /\ [Next]_vars => [Outcomes!Next]_(Outcomes!vars)
    <2>1. IInv /\ Next => [Outcomes!Next]_(Outcomes!vars)
      BY RunnerRefines, EnvironmentRefines DEF Next
    <2>2. UNCHANGED vars => UNCHANGED Outcomes!vars
      BY DEF vars, Outcomes!vars
    <2> QED
      BY <2>1, <2>2
  <1> QED
    BY <1>1, <1>2, Invariant, PTL DEF Spec, Outcomes!Spec, ImplementsOutcome

-----------------------------------------------------------------------------
(* The kinds do not disturb each other *)

\* Every step is a step of the pair or leaves the pair alone.
LEMMA StepOfPair == [KindsNext]_<<kind, lifecycle, pairVars, basketVars, evVars>> => [Next]_vars
  BY DEF KindsNext, PairSteps, BasketSteps, EvSteps, EventSteps, pairVars, vars

\* So it is with the basket,
LEMMA StepOfBasket ==
    [KindsNext]_<<kind, lifecycle, pairVars, basketVars, evVars>> => [Basket!Next]_basketVars
  BY DEF KindsNext, PairSteps, BasketSteps, EvSteps, EventSteps

\* with the single leg,
LEMMA StepOfEv ==
    [KindsNext]_<<kind, lifecycle, pairVars, basketVars, evVars>> => [Ev!Next]_evVars
  BY DEF KindsNext, PairSteps, BasketSteps, EvSteps, EventSteps

\* and with the table.
LEMMA StepOfEvents ==
    [KindsNext]_<<kind, lifecycle, pairVars, basketVars, evVars>> =>
        [Events!LifecycleNext]_lifecycle
  BY DEF KindsNext, PairSteps, BasketSteps, EvSteps, EventSteps

\* The pair of the composition behaves as a pair on its own, whose theorems hold of it.
THEOREM KindsKeepPairs == KindsSpec => Spec
  <1>1. KindsInit => Init
    BY DEF KindsInit
  <1> QED
    BY <1>1, StepOfPair, PTL DEF KindsSpec, Spec

-----------------------------------------------------------------------------
(* The lifecycle table *)

\* What the table keeps of a lifecycle: "both" is said of both legs only.
TableInv ==
    /\ lifecycle \in Events!Execution /\ lifecycle.state # "illegal"
    /\ lifecycle.state = "both_pending" => lifecycle.submitted = Events!Legs
    /\ lifecycle.state = "both_acked" => lifecycle.acked = Events!Legs

\* An accepted event of one leg leads to a record of the table of the same or a later phase.
LEMMA LegEventsGoForward ==
    ASSUME TableInv, NEW l \in Events!Legs,
           \/ Events!Accept(Events!Submitted(lifecycle, l))
           \/ Events!Accept(Events!Ack(lifecycle, l))
           \/ Events!Accept(Events!Fill(lifecycle, l))
    PROVE  TableInv' /\ Events!Rank(lifecycle'.state) >= Events!Rank(lifecycle.state)
  <1> USE DEF TableInv, Events!Accept, Events!Rank, Events!Move, Events!Execution, Events!States,
              Events!PendingStates, Events!AckedStates, Events!HalfFilled, Events!TerminalStates,
              Events!Legs, Events!Other
  <1>1. CASE Events!Accept(Events!Submitted(lifecycle, l))
    <2>1. /\ lifecycle.state \in Events!SubmitPendingStates /\ lifecycle' \in Events!Execution
          /\ lifecycle'.submitted = lifecycle.submitted \cup {l}
          /\ lifecycle'.state = IF Events!Other(l) \in lifecycle.submitted THEN "both_pending"
                                ELSE Events!Pending(l)
      BY <1>1 DEF Events!Submitted, Events!Pending
    <2>2. TableInv'
      BY <2>1 DEF Events!Pending
    <2>3. lifecycle.state = "both_pending" => lifecycle'.state = "both_pending"
      BY <2>1
    <2>4. Events!Rank(lifecycle'.state) \in {2, 3} /\ Events!Rank(lifecycle.state) \in 0 .. 3
      BY <2>1 DEF Events!SubmitPendingStates, Events!Pending
    <2>5. lifecycle.state # "both_pending" => Events!Rank(lifecycle.state) \in 0 .. 2
      BY <2>1 DEF Events!SubmitPendingStates
    <2> QED
      BY <2>2, <2>3, <2>4, <2>5
  <1>2. CASE Events!Accept(Events!Ack(lifecycle, l))
    <2>1. /\ lifecycle.state \in Events!AckStates /\ lifecycle' \in Events!Execution
          /\ lifecycle'.acked = lifecycle.acked \cup {l}
          /\ lifecycle'.state = IF Events!Other(l) \in lifecycle.acked THEN "both_acked"
                                ELSE Events!Acked(l)
      BY <1>2 DEF Events!Ack, Events!Acked
    <2>2. TableInv'
      BY <2>1 DEF Events!Acked
    <2>3. lifecycle.state = "both_acked" => lifecycle'.state = "both_acked"
      BY <2>1
    <2>4. Events!Rank(lifecycle'.state) \in {4, 5} /\ Events!Rank(lifecycle.state) \in 2 .. 5
      BY <2>1 DEF Events!AckStates, Events!Acked
    <2>5. lifecycle.state # "both_acked" => Events!Rank(lifecycle.state) \in 2 .. 4
      BY <2>1 DEF Events!AckStates
    <2> QED
      BY <2>2, <2>3, <2>4, <2>5
  <1>3. CASE Events!Accept(Events!Fill(lifecycle, l))
    <2>1. /\ lifecycle.state \in Events!FillStates /\ lifecycle' \in Events!Execution
          /\ lifecycle'.state \in {"both_filled", "yes_filled", "no_filled"}
      BY <1>3 DEF Events!Fill, Events!Filled
    <2>2. TableInv'
      BY <2>1
    <2>3. Events!Rank(lifecycle'.state) \in {6, 7} /\ Events!Rank(lifecycle.state) \in 2 .. 6
      BY <2>1 DEF Events!FillStates, Events!AckStates
    <2> QED
      BY <2>2, <2>3
  <1> QED
    BY <1>1, <1>2, <1>3

\* So does every other accepted event.
LEMMA EventsGoForward ==
    ASSUME TableInv, Events!LifecycleNext
    PROVE  TableInv' /\ Events!Rank(lifecycle'.state) >= Events!Rank(lifecycle.state)
  <1>1. CASE \E l \in Events!Legs :
               \/ Events!Accept(Events!Submitted(lifecycle, l))
               \/ Events!Accept(Events!Ack(lifecycle, l))
               \/ Events!Accept(Events!Fill(lifecycle, l))
    BY <1>1, LegEventsGoForward
  <1> USE DEF TableInv, Events!Accept, Events!Rank, Events!Move, Events!Execution, Events!States,
              Events!PendingStates, Events!AckedStates, Events!HalfFilled, Events!TerminalStates
  <1>2. CASE \/ Events!Accept(Events!SubmitStarted(lifecycle))
             \/ Events!Accept(Events!PartialFill(lifecycle))
    BY <1>2 DEF Events!SubmitStarted, Events!PartialFill
  <1>3. CASE \/ Events!Accept(Events!StartUnwind(lifecycle))
             \/ Events!Accept(Events!UnwindComplete(lifecycle))
             \/ Events!Accept(Events!UnwindFailed(lifecycle))
             \/ Events!Accept(Events!Cancelled(lifecycle))
             \/ Events!Accept(Events!Complete(lifecycle))
    BY <1>3 DEF Events!StartUnwind, Events!UnwindComplete, Events!UnwindFailed,
       Events!Cancelled, Events!Complete, Events!FinalizeStates
  <1>4. CASE Events!Accept(Events!CancelStarted(lifecycle))
    BY <1>4 DEF Events!CancelStarted, Events!CancellableStates, Events!FillStates,
       Events!AckStates
  <1>5. CASE Events!Accept(Events!Failed(lifecycle)) \/ Events!Accept(Events!TimedOut(lifecycle))
    BY <1>5 DEF Events!Failed, Events!TimedOut, Events!FailableStates,
       Events!CancellableStates, Events!FillStates, Events!AckStates
  <1> QED
    BY <1>1, <1>2, <1>3, <1>4, <1>5 DEF Events!LifecycleNext

\* No sequence of events the table accepts, from whomever and however late, takes an execution
\* back to an earlier phase.
THEOREM TableNeverBackwards == KindsSpec => NeverBackwards
  <1>1. KindsInit => TableInv
    BY DEF KindsInit, Events!LifecycleInit, TableInv, Events!NewExecution,
       Events!Execution, Events!States, Events!Legs
  <1>2. TableInv /\ [Events!LifecycleNext]_lifecycle => TableInv'
    BY EventsGoForward DEF TableInv
  <1>3. TableInv /\ [Events!LifecycleNext]_lifecycle =>
          [Events!Rank(lifecycle'.state) >= Events!Rank(lifecycle.state)]_lifecycle
    BY EventsGoForward
  <1> QED
    BY <1>1, <1>2, <1>3, StepOfEvents, PTL
       DEF KindsSpec, NeverBackwards, Events!NeverBackwards

-----------------------------------------------------------------------------
(* Single legs *)

\* Where a single-leg execution is, and what it has left when it has failed.
EvInv ==
    /\ ePc \in {"start", "submit", "fills", "done"}
    /\ ePc # "done" => eResult = "none"
    /\ FailureSettled

\* A single-leg execution that fails has left an incident and no record that a second attempt
\* would take up, at whatever await and whether or not its record was pruned.
THEOREM EvFailuresSettled == KindsSpec => []FailureSettled
  <1>1. KindsInit => EvInv
    BY DEF KindsInit, Ev!Init, EvInv, FailureSettled, Ev!FailureSettled
  <1>2. EvInv /\ [Ev!Next]_evVars => EvInv'
    <2> SUFFICES ASSUME EvInv, [Ev!Next]_evVars
                 PROVE  EvInv'
      OBVIOUS
    <2> USE DEF EvInv, FailureSettled, Ev!FailureSettled
    <2>1. CASE Ev!BlockedAtOnce \/ Ev!BlockedLate
      BY <2>1 DEF Ev!BlockedAtOnce, Ev!BlockedLate, Ev!Block
    <2>2. CASE Ev!Submit
      BY <2>2 DEF Ev!Submit
    <2>3. ASSUME NEW r \in {"order_timeout", "order_failed"}, Ev!SubmitFails(r) \/ Ev!NotFilled(r)
          PROVE  EvInv'
      BY <2>3 DEF Ev!SubmitFails, Ev!NotFilled, Ev!Fail, Ev!MarkFailed
    <2>4. ASSUME NEW a \in {"ok", "delayed", "rejected"}, NEW hasId \in BOOLEAN,
                 Ev!Answered(a, hasId)
          PROVE  EvInv'
      BY <2>4 DEF Ev!Answered, Ev!Fail, Ev!MarkFailed
    <2>5. CASE Ev!Filled \/ Ev!Prune
      BY <2>5 DEF Ev!Filled, Ev!Prune
    <2>6. ASSUME NEW outcome \in {"matched", "dead"}, Ev!Decide(outcome)
          PROVE  EvInv'
      BY <2>6 DEF Ev!Decide
    <2>7. CASE UNCHANGED evVars
      BY <2>7 DEF evVars
    <2> QED
      BY <2>1, <2>2, <2>3, <2>4, <2>5, <2>6, <2>7 DEF Ev!Next
  <1> QED
    BY <1>1, <1>2, StepOfEv, PTL DEF KindsSpec, EvInv

-----------------------------------------------------------------------------
(* Baskets *)

\* What is known of an order has happened at the venue, and only awaited fills are open.
TrackerTrue ==
    /\ \A k \in Basket!Orders : bOutcome[k] \in {"full", "some"} => bOrder[k] = "matched"
    /\ \A k \in Basket!Orders : bOutcome[k] = "waiting" => bPc = "fills" /\ k \in bIds

\* The orders of S that were not seen to fill have been cancelled, or the failure was reported.
SettledOrders(S) ==
    \A k \in S : bOutcome[k] # "full" =>
        \/ bRecord[k] = "failed"
        \/ [market |-> Basket!MarketOf(k), reason |-> "order_cancel_failed"] \in bIncidents

\* Where the runner of a basket is: before the batch is answered nothing is known of any
\* order; pairs are traded one by one from the first; fills are awaited of an accepted batch;
\* there is a next order to cancel, a next market to unwind, and those before them are done with.
BasketAt ==
    /\ bPc \in {"start", "batch", "pair"} =>
         bIds = {} /\ \A k \in Basket!Orders : bOutcome[k] = "none"
    /\ bPc \in {"start", "batch", "fills", "cancel"} =>
         \A m \in Basket!Markets : bLeg[m] # "filled"
    /\ bPc = "pair" =>
         /\ bTodo # {} /\ bTodo \subseteq Basket!Markets
         /\ \A m \in Basket!Markets : m \in bTodo <=> bLeg[m] # "filled"
    /\ bPc = "fills" =>
         /\ \A k \in Basket!Orders : bRecord[k] = "submitted"
         /\ \A k \in bIds : bOutcome[k] # "none"
    /\ bPc = "cancel" =>
         /\ bTodo # {} /\ bTodo \subseteq bIds
         /\ SettledOrders(bIds \ bTodo)
    /\ bPc = "unwind" =>
         /\ bTodo # {} /\ bTodo \subseteq Basket!Markets
         /\ \A m \in Basket!Exposed : m \in bTodo \cup bUnwound
         /\ \A m \in Basket!Markets : bLeg[m] = "filled" => m \in bTodo \cup bUnwound
         /\ SettledOrders(bIds)

BasketInv ==
    /\ Basket!TypeOK
    /\ TrackerTrue
    /\ BasketAt
    /\ bPc # "done" => bResult = "none"
    /\ SubmittedMeansWhole
    /\ NothingLeftBehind

USE KindsAssumption

\* Every order belongs to a market of the basket.
LEMMA MarketsOfBasket ==
    /\ Basket!Markets \subseteq Basket!Orders
    /\ \A k \in Basket!Orders : Basket!MarketOf(k) \in Basket!Markets
  BY DEF Basket!Markets, Basket!Orders, Basket!MarketOf

\* Nothing is submitted initially.
LEMMA BasketInit == Basket!Init => BasketInv
  BY DEF Basket!Init, BasketInv, Basket!TypeOK, Basket!Modes, Basket!Stops, Basket!LegStates,
     Basket!Statuses, Basket!Records, Basket!Answers, Basket!Incidents, Basket!Results,
     TrackerTrue, BasketAt, SubmittedMeansWhole, Basket!SubmittedMeansWhole, NothingLeftBehind,
     Basket!NothingLeftBehind

\* The beginning of a basket keeps the invariant.
LEMMA BasketStarts ==
    ASSUME BasketInv, Basket!Block \/ Basket!SubmitBatch \/ Basket!StartSequential
    PROVE  BasketInv'
  <1> USE DEF BasketInv, TrackerTrue, BasketAt, SubmittedMeansWhole, Basket!SubmittedMeansWhole,
              NothingLeftBehind, Basket!NothingLeftBehind
  <1>1. Basket!TypeOK'
    BY MarketsOfBasket DEF Basket!Block, Basket!SubmitBatch, Basket!StartSequential,
       Basket!StartPairs, Basket!Answer, Basket!TypeOK, Basket!Stops, Basket!Statuses,
       Basket!Records, Basket!Results
  <1>2. CASE Basket!Block
    BY <1>1, <1>2 DEF Basket!Block, Basket!Answer
  <1>3. CASE Basket!SubmitBatch
    BY <1>1, <1>3 DEF Basket!SubmitBatch
  <1>4. CASE Basket!StartSequential
    BY <1>1, <1>4 DEF Basket!StartSequential, Basket!StartPairs, Basket!Markets
  <1> QED
    BY <1>2, <1>3, <1>4

\* A failed batch, or one of which nothing was accepted, is followed by the pairs one by one.
LEMMA FallsBack ==
    ASSUME BasketInv, bPc = "batch", Basket!LegsAnswered({}), Basket!StartPairs, bIds' = {},
           UNCHANGED <<bMode, bOrder, bOutcome, bUnwound, bIncidents>>
    PROVE  BasketInv'
  <1>1. /\ Basket!TypeOK' /\ \A m \in Basket!Markets : bLeg'[m] = "failed"
        /\ bPc' = "pair" /\ bTodo' = Basket!Markets /\ bTodo' # {} /\ bResult' = "none"
    BY MarketsOfBasket DEF BasketInv, Basket!LegsAnswered, Basket!StartPairs, Basket!TypeOK,
       Basket!Stops, Basket!Records, Basket!LegStates, Basket!OrdersOf, Basket!Markets
  <1> QED
    BY <1>1 DEF BasketInv, TrackerTrue, BasketAt, SubmittedMeansWhole,
       Basket!SubmittedMeansWhole, NothingLeftBehind, Basket!NothingLeftBehind

\* Every answer to the batch keeps the invariant.
LEMMA BatchIsAnswered ==
    ASSUME BasketInv,
           \/ \E accepted, known \in SUBSET Basket!Orders : Basket!BatchAnswered(accepted, known)
           \/ Basket!BatchAnsweredBlindly \/ Basket!BatchFails
    PROVE  BasketInv'
  <1>1. CASE Basket!BatchFails
    BY <1>1, FallsBack DEF Basket!BatchFails, BasketInv, BasketAt
  <1>2. CASE Basket!BatchAnsweredBlindly
    <2>1. Basket!TypeOK' /\ bPc' = "done" /\ bResult' = "batch_partial_accepted"
      BY <1>2 DEF Basket!BatchAnsweredBlindly, Basket!LegsAnswered, Basket!Answer, BasketInv,
         Basket!TypeOK, Basket!Stops, Basket!Records, Basket!LegStates, Basket!Results
    <2> QED
      BY <1>2, <2>1 DEF Basket!BatchAnsweredBlindly, BasketInv, TrackerTrue, BasketAt,
         SubmittedMeansWhole, Basket!SubmittedMeansWhole, NothingLeftBehind,
         Basket!NothingLeftBehind
  <1>3. ASSUME NEW accepted \in SUBSET Basket!Orders, NEW known \in SUBSET Basket!Orders,
               Basket!BatchAnswered(accepted, known)
        PROVE  BasketInv'
    <2>1. /\ bPc = "batch" /\ Basket!LegsAnswered(accepted) /\ bIds' = known
          /\ known \subseteq accepted
          /\ UNCHANGED <<bMode, bOrder, bUnwound, bIncidents>>
      BY <1>3 DEF Basket!BatchAnswered
    <2>2. bLeg' \in [Basket!Markets -> {"acked", "failed"}]
          /\ bRecord' \in [Basket!Orders -> {"submitted", "failed"}]
      BY <2>1 DEF Basket!LegsAnswered
    <2>3. CASE accepted = {}
      <3>1. Basket!Outcome(accepted) = "fallback"
        BY <2>3 DEF Basket!Outcome, Basket!Orders
      <3>2. Basket!StartPairs /\ UNCHANGED bOutcome
        BY <1>3, <3>1 DEF Basket!BatchAnswered
      <3> QED
        BY <2>1, <2>3, <3>2, FallsBack
    <2>4. CASE accepted # {} /\ accepted # Basket!Orders
      <3>1. Basket!Outcome(accepted) = "partial"
        BY <2>4 DEF Basket!Outcome
      <3>2. Basket!Answer("batch_partial_accepted") /\ UNCHANGED bOutcome
        BY <1>3, <3>1 DEF Basket!BatchAnswered
      <3>3. Basket!TypeOK' /\ bPc' = "done" /\ bResult' = "batch_partial_accepted"
        BY <2>1, <2>2, <3>2 DEF Basket!Answer, BasketInv, Basket!TypeOK, Basket!Stops,
           Basket!Records, Basket!LegStates, Basket!Results
      <3> QED
        BY <2>1, <3>2, <3>3 DEF BasketInv, TrackerTrue, BasketAt, SubmittedMeansWhole,
           Basket!SubmittedMeansWhole, NothingLeftBehind, Basket!NothingLeftBehind
    <2>5. CASE accepted = Basket!Orders
      <3>1. Basket!Outcome(accepted) = "submitted"
        BY <2>5 DEF Basket!Outcome
      <3>2. \A k \in Basket!Orders : bRecord'[k] = "submitted"
        BY <2>1, <2>5 DEF Basket!LegsAnswered
      <3>3. CASE Basket!Answer("submitted") /\ UNCHANGED bOutcome
        <4>1. Basket!TypeOK' /\ bPc' = "done" /\ bResult' = "submitted"
          BY <2>1, <2>2, <3>3 DEF Basket!Answer, BasketInv, Basket!TypeOK, Basket!Stops,
             Basket!Records, Basket!LegStates, Basket!Results
        <4>2. \A k \in Basket!Orders : bOutcome'[k] = "none"
          BY <2>1, <3>3 DEF BasketInv, BasketAt
        <4> QED
          BY <2>1, <3>2, <4>1, <4>2 DEF BasketInv, TrackerTrue, BasketAt, SubmittedMeansWhole,
             Basket!SubmittedMeansWhole, NothingLeftBehind, Basket!NothingLeftBehind
      <3>4. CASE /\ bPc' = "fills"
                 /\ bOutcome' = [k \in Basket!Orders |-> IF k \in known THEN "waiting" ELSE "none"]
                 /\ UNCHANGED <<bTodo, bResult>>
        <4>1. Basket!TypeOK'
          BY <2>1, <2>2, <3>4 DEF BasketInv, Basket!TypeOK, Basket!Stops, Basket!Records,
             Basket!LegStates, Basket!Answers
        <4> QED
          BY <2>1, <2>2, <3>2, <3>4, <4>1 DEF BasketInv, TrackerTrue, BasketAt,
             SubmittedMeansWhole, Basket!SubmittedMeansWhole, NothingLeftBehind,
             Basket!NothingLeftBehind
      <3> QED
        BY <1>3, <3>1, <3>3, <3>4 DEF Basket!BatchAnswered
    <2> QED
      BY <2>3, <2>4, <2>5
  <1> QED
    BY <1>1, <1>2, <1>3

\* The end of the wait for the fills of a batch keeps the invariant.
LEMMA FillsAreKnown ==
    ASSUME BasketInv, Basket!AllFilled \/ Basket!NotAllFilled
    PROVE  BasketInv'
  <1>1. CASE Basket!AllFilled
    <2>1. /\ bPc = "fills" /\ \A k \in bIds : bOutcome[k] = "full"
          /\ bRecord' = [k \in Basket!Orders |-> IF k \in bIds THEN "confirmed" ELSE bRecord[k]]
          /\ UNCHANGED <<bMode, bOrder, bIds, bOutcome, bUnwound, bIncidents>>
          /\ bPc' = "done" /\ bTodo' = {} /\ bResult' = "submitted"
      BY <1>1 DEF Basket!AllFilled, Basket!FillsKnown, Basket!Unfilled, Basket!Answer
    <2>2. Basket!TypeOK'
      BY <1>1, <2>1 DEF Basket!AllFilled, BasketInv, Basket!TypeOK, Basket!Stops,
         Basket!Records, Basket!LegStates, Basket!Results
    <2>3. \A k \in Basket!Orders : bRecord'[k] \in {"submitted", "confirmed"}
      BY <2>1 DEF BasketInv, BasketAt
    <2>4. \A k \in bIds : bOrder[k] = "matched"
      BY <2>1 DEF BasketInv, TrackerTrue, Basket!TypeOK
    <2>5. TrackerTrue'
      BY <2>1 DEF BasketInv, TrackerTrue
    <2> QED
      BY <2>1, <2>2, <2>3, <2>4, <2>5 DEF BasketInv, BasketAt, SubmittedMeansWhole,
         Basket!SubmittedMeansWhole, NothingLeftBehind, Basket!NothingLeftBehind
  <1>2. CASE Basket!NotAllFilled
    <2>1. /\ bPc = "fills" /\ bPc' = "cancel" /\ bTodo' = Basket!Unfilled /\ bTodo' # {}
          /\ bTodo' \subseteq bIds /\ \A k \in bIds \ bTodo' : bOutcome[k] = "full"
          /\ UNCHANGED <<bMode, bLeg, bOrder, bRecord, bIds, bOutcome, bUnwound, bIncidents, bResult>>
      BY <1>2 DEF Basket!NotAllFilled, Basket!FillsKnown, Basket!Unfilled
    <2>2. Basket!TypeOK' /\ TrackerTrue'
      BY <1>2, <2>1 DEF Basket!NotAllFilled, Basket!FillsKnown, BasketInv, TrackerTrue,
         Basket!TypeOK, Basket!Stops
    <2> QED
      BY <2>1, <2>2 DEF BasketInv, BasketAt, SettledOrders, SubmittedMeansWhole,
         Basket!SubmittedMeansWhole, NothingLeftBehind, Basket!NothingLeftBehind
  <1> QED
    BY <1>1, <1>2

\* What follows the cancel of order k, once it is settled: the next one, the unwinds of what
\* filled, or the answer.
LEMMA NextIsCancelled ==
    ASSUME BasketInv, bPc = "cancel", NEW k \in Basket!Orders, Basket!First(k),
           Basket!NextCancel(k), Basket!TypeOK', TrackerTrue',
           \A i \in (bIds \ bTodo) \cup {k} : bOutcome[i] # "full" =>
              \/ bRecord'[i] = "failed"
              \/ [market |-> Basket!MarketOf(i), reason |-> "order_cancel_failed"]
                    \in bIncidents',
           UNCHANGED <<bMode, bLeg, bIds, bOutcome, bUnwound>>
    PROVE  BasketInv'
  <1>1. /\ bResult = "none" /\ k \in bTodo /\ bTodo \subseteq bIds /\ bIds \subseteq Basket!Orders
        /\ \A m \in Basket!Markets : bLeg'[m] # "filled"
    BY DEF BasketInv, BasketAt, Basket!First, Basket!TypeOK
  <1>2. CASE bTodo # {k}
    <2>1. /\ bPc' = "cancel" /\ bResult' = "none" /\ bTodo' # {} /\ bTodo' \subseteq bIds'
          /\ bIds' \ bTodo' = (bIds \ bTodo) \cup {k}
      BY <1>1, <1>2 DEF Basket!NextCancel
    <2> QED
      BY <1>1, <2>1 DEF BasketInv, BasketAt, SettledOrders, SubmittedMeansWhole,
         Basket!SubmittedMeansWhole, NothingLeftBehind, Basket!NothingLeftBehind
  <1>3. CASE bTodo = {k}
    <2>1. SettledOrders(bIds)'
      BY <1>1, <1>3 DEF SettledOrders
    <2>2. Basket!Exposed' = Basket!Exposed
      BY DEF Basket!Exposed
    <2>3. CASE Basket!Exposed = {}
      <3>1. bPc' = "done" /\ bResult' = "partial_fill" /\ bTodo' = {}
        BY <1>3, <2>3 DEF Basket!NextCancel, Basket!UnwindAll, Basket!Answer
      <3>2. \A i \in bIds' : bOutcome'[i] \notin {"full", "some"}
        BY <2>3 DEF Basket!Exposed
      <3> QED
        BY <1>1, <2>1, <3>1, <3>2 DEF BasketInv, BasketAt, SettledOrders, SubmittedMeansWhole,
           Basket!SubmittedMeansWhole, NothingLeftBehind, Basket!NothingLeftBehind
    <2>4. CASE Basket!Exposed # {}
      <3>1. bPc' = "unwind" /\ bResult' = "none" /\ bTodo' = Basket!Exposed /\ bTodo' # {}
        BY <1>1, <1>3, <2>4 DEF Basket!NextCancel, Basket!UnwindAll
      <3>2. bTodo' \subseteq Basket!Markets
        BY <1>1, <3>1, MarketsOfBasket DEF Basket!Exposed
      <3> QED
        BY <1>1, <2>1, <2>2, <3>1, <3>2 DEF BasketInv, BasketAt, SubmittedMeansWhole,
           Basket!SubmittedMeansWhole, NothingLeftBehind, Basket!NothingLeftBehind
    <2> QED
      BY <2>3, <2>4
  <1> QED
    BY <1>2, <1>3

\* A cancel keeps the invariant, whatever became of it.
LEMMA CancelsKeep ==
    ASSUME BasketInv, NEW k \in Basket!Orders, Basket!Cancelled(k) \/ Basket!CancelThrows(k)
    PROVE  BasketInv'
  <1>1. /\ bPc = "cancel" /\ Basket!First(k) /\ Basket!NextCancel(k)
        /\ UNCHANGED <<bMode, bLeg, bIds, bOutcome, bUnwound>>
        /\ bResult = "none" /\ k \in bTodo /\ bTodo \subseteq bIds /\ bIds \subseteq Basket!Orders
        /\ Basket!MarketOf(k) \in Basket!Markets
    BY MarketsOfBasket DEF Basket!Cancelled, Basket!CancelThrows, BasketInv, BasketAt,
       Basket!First, Basket!TypeOK
  <1>2. \/ UNCHANGED bOrder
        \/ bOrder[k] = "live" /\ bOrder' = [bOrder EXCEPT ![k] = "dead"]
    BY DEF Basket!Cancelled, Basket!CancelThrows
  <1>3. /\ bRecord' \in [Basket!Orders -> Basket!Records]
        /\ bIncidents \subseteq bIncidents' /\ bIncidents' \subseteq Basket!Incidents
        /\ \A i \in Basket!Orders : bRecord[i] = "failed" => bRecord'[i] = "failed"
        /\ \/ bRecord'[k] = "failed"
           \/ [market |-> Basket!MarketOf(k), reason |-> "order_cancel_failed"] \in bIncidents'
    BY <1>1 DEF Basket!Cancelled, Basket!CancelThrows, BasketInv, Basket!TypeOK,
       Basket!Records, Basket!Incidents
  <1>4. bOrder' \in [Basket!Orders -> Basket!Statuses] /\ TrackerTrue'
    <2>1. \A i \in Basket!Orders : bOutcome[i] # "waiting"
      BY <1>1 DEF BasketInv, TrackerTrue
    <2> QED
      BY <1>1, <1>2, <2>1 DEF BasketInv, Basket!TypeOK, Basket!Statuses, TrackerTrue
  <1>5. /\ bTodo' \subseteq Basket!Orders /\ bPc' \in Basket!Stops /\ bResult' \in Basket!Results
    <2>1. Basket!Exposed \subseteq Basket!Orders
      BY <1>1, MarketsOfBasket DEF Basket!Exposed
    <2> QED
      BY <1>1, <2>1 DEF Basket!NextCancel, Basket!UnwindAll, Basket!Answer, Basket!Stops,
         Basket!Results
  <1>6. Basket!TypeOK'
    BY <1>1, <1>3, <1>4, <1>5 DEF BasketInv, Basket!TypeOK
  <1>7. \A i \in (bIds \ bTodo) \cup {k} : bOutcome[i] # "full" =>
           \/ bRecord'[i] = "failed"
           \/ [market |-> Basket!MarketOf(i), reason |-> "order_cancel_failed"] \in bIncidents'
    BY <1>1, <1>3 DEF BasketInv, BasketAt, SettledOrders
  <1> QED
    BY <1>1, <1>4, <1>6, <1>7, NextIsCancelled

\* So does an unwind.
LEMMA UnwindsKeep ==
    ASSUME BasketInv, NEW m \in Basket!Markets, NEW ok \in BOOLEAN, Basket!Unwound(m, ok)
    PROVE  BasketInv'
  <1>1. /\ bPc = "unwind" /\ m \in bTodo /\ bUnwound' = bUnwound \cup {m}
        /\ bIncidents \subseteq bIncidents'
        /\ UNCHANGED <<bMode, bLeg, bOrder, bRecord, bIds, bOutcome>>
        /\ Basket!Exposed' = Basket!Exposed
    BY DEF Basket!Unwound, Basket!First, Basket!Exposed
  <1>2. SettledOrders(bIds)'
    BY <1>1 DEF BasketInv, BasketAt, SettledOrders
  <1>3. CASE bTodo = {m}
    <2>1. bPc' = "done" /\ bTodo' = {} /\ bResult' = "partial_fill"
      BY <1>3 DEF Basket!Unwound, Basket!Answer
    <2>2. Basket!TypeOK'
      BY <1>1, <2>1 DEF Basket!Unwound, BasketInv, Basket!TypeOK, Basket!Stops,
         Basket!Results, Basket!Incidents
    <2>3. \A k \in bIds : bOutcome[k] \in {"full", "some"} =>
             Basket!MarketOf(k) \in bTodo \cup bUnwound
      BY <1>1 DEF BasketInv, BasketAt, Basket!Exposed
    <2>4. \A n \in Basket!Markets : bLeg[n] = "filled" => n \in bTodo \cup bUnwound
      BY <1>1 DEF BasketInv, BasketAt
    <2> QED
      BY <1>1, <1>2, <1>3, <2>1, <2>2, <2>3, <2>4 DEF BasketInv, BasketAt, SettledOrders,
         TrackerTrue, SubmittedMeansWhole, Basket!SubmittedMeansWhole, NothingLeftBehind,
         Basket!NothingLeftBehind
  <1>4. CASE bTodo # {m}
    <2>1. bPc' = "unwind" /\ bTodo' = bTodo \ {m} /\ bTodo' # {} /\ bResult' = "none"
      BY <1>1, <1>4 DEF Basket!Unwound, BasketInv
    <2>2. Basket!TypeOK'
      BY <1>1, <2>1 DEF Basket!Unwound, BasketInv, Basket!TypeOK, Basket!Stops,
         Basket!Results, Basket!Incidents
    <2> QED
      BY <1>1, <1>2, <2>1, <2>2 DEF BasketInv, BasketAt, TrackerTrue, SubmittedMeansWhole,
         Basket!SubmittedMeansWhole, NothingLeftBehind, Basket!NothingLeftBehind
  <1> QED
    BY <1>3, <1>4

\* So do the pairs of a basket, traded one by one.
LEMMA PairsKeep ==
    ASSUME BasketInv, NEW m \in Basket!Markets, NEW blocked \in BOOLEAN,
           Basket!PairTraded(m) \/ Basket!PairFails(m, blocked)
    PROVE  BasketInv'
  <1>1. /\ bPc = "pair" /\ m \in bTodo /\ bIds = {} /\ bResult = "none"
        /\ UNCHANGED <<bMode, bOrder, bRecord, bIds, bOutcome, bUnwound, bIncidents>>
        /\ \A k \in Basket!Orders : bOutcome[k] = "none"
        /\ \A n \in Basket!Markets : n \in bTodo <=> bLeg[n] # "filled"
        /\ TrackerTrue'
    BY DEF Basket!PairTraded, Basket!PairFails, Basket!First, BasketInv, BasketAt, TrackerTrue
  <1> USE DEF BasketInv, BasketAt, SettledOrders, SubmittedMeansWhole,
              Basket!SubmittedMeansWhole, NothingLeftBehind, Basket!NothingLeftBehind
  <1>2. CASE Basket!PairTraded(m)
    <2>1. bLeg' = [bLeg EXCEPT ![m] = "filled"]
      BY <1>2 DEF Basket!PairTraded
    <2>2. CASE bTodo = {m}
      <3>1. bPc' = "done" /\ bTodo' = {} /\ bResult' = "submitted"
        BY <1>2, <2>2 DEF Basket!PairTraded, Basket!Answer
      <3>2. Basket!TypeOK'
        BY <1>1, <2>1, <3>1 DEF Basket!TypeOK, Basket!Stops, Basket!Results, Basket!LegStates
      <3>3. \A n \in Basket!Markets : bLeg'[n] = "filled"
        BY <1>1, <2>1, <2>2 DEF Basket!TypeOK
      <3> QED
        BY <1>1, <3>1, <3>2, <3>3
    <2>3. CASE bTodo # {m}
      <3>1. bPc' = "pair" /\ bTodo' = bTodo \ {m} /\ bTodo' # {} /\ bResult' = "none"
        BY <1>1, <1>2, <2>3 DEF Basket!PairTraded
      <3>2. Basket!TypeOK'
        BY <1>1, <2>1, <3>1 DEF Basket!TypeOK, Basket!LegStates
      <3>3. \A n \in Basket!Markets : n \in bTodo' <=> bLeg'[n] # "filled"
        BY <1>1, <2>1, <3>1 DEF Basket!TypeOK
      <3> QED
        BY <1>1, <3>1, <3>2, <3>3
    <2> QED
      BY <2>2, <2>3
  <1>3. CASE Basket!PairFails(m, blocked)
    <2>1. /\ bLeg' \in [Basket!Markets -> Basket!LegStates]
          /\ \A n \in Basket!Markets : bLeg'[n] = "filled" => n \in Basket!Traded
      BY <1>1, <1>3 DEF Basket!PairFails, Basket!TypeOK, Basket!LegStates, Basket!Traded
    <2>2. CASE Basket!Traded = {}
      <3>1. bPc' = "done" /\ bTodo' = {} /\ bResult' = "leg_failed"
        BY <1>3, <2>2 DEF Basket!PairFails, Basket!Answer
      <3>2. Basket!TypeOK'
        BY <1>1, <2>1, <3>1 DEF Basket!TypeOK, Basket!Stops, Basket!Results
      <3> QED
        BY <1>1, <3>1, <3>2
    <2>3. CASE Basket!Traded # {}
      <3>1. bPc' = "unwind" /\ bTodo' = Basket!Traded /\ bResult' = "none"
        BY <1>1, <1>3, <2>3 DEF Basket!PairFails, Basket!UnwindAll
      <3>2. bTodo' # {} /\ bTodo' \subseteq Basket!Markets
        BY <2>3, <3>1 DEF Basket!Traded
      <3>3. Basket!TypeOK'
        BY <1>1, <2>1, <3>1, <3>2, MarketsOfBasket DEF Basket!TypeOK, Basket!Stops
      <3>4. Basket!Exposed' = {}
        BY <1>1 DEF Basket!Exposed
      <3> QED
        BY <1>1, <2>1, <3>1, <3>2, <3>3, <3>4
    <2> QED
      BY <2>2, <2>3
  <1> QED
    BY <1>2, <1>3

\* So do the venue and the tracker.
LEMMA BasketVenueKeeps ==
    ASSUME BasketInv, NEW k \in Basket!Orders, NEW a \in Basket!Answers,
           Basket!Arrive(k) \/ Basket!Decide(k) \/ Basket!Told(k, a)
    PROVE  BasketInv'
  <1>1. UNCHANGED <<bMode, bPc, bLeg, bRecord, bIds, bTodo, bUnwound, bIncidents, bResult>>
    BY DEF Basket!Arrive, Basket!Decide, Basket!Told, Basket!runnerVars
  <1> USE DEF BasketInv, TrackerTrue, BasketAt, SettledOrders, SubmittedMeansWhole,
              Basket!SubmittedMeansWhole, NothingLeftBehind, Basket!NothingLeftBehind
  <1>2. CASE Basket!Arrive(k) \/ Basket!Decide(k)
    <2>1. /\ bOrder' \in [Basket!Orders -> Basket!Statuses] /\ UNCHANGED bOutcome
          /\ \A i \in Basket!Orders : bOrder[i] = "matched" => bOrder'[i] = "matched"
      BY <1>2 DEF Basket!Arrive, Basket!Decide, Basket!TypeOK, Basket!Statuses
    <2>2. Basket!Exposed' = Basket!Exposed
      BY <1>1, <2>1 DEF Basket!Exposed
    <2>3. Basket!TypeOK'
      BY <1>1, <2>1 DEF Basket!TypeOK
    <2> QED
      BY <1>1, <2>1, <2>2, <2>3 DEF Basket!TypeOK
  <1>3. CASE Basket!Told(k, a)
    <2>1. /\ bOutcome[k] = "waiting" /\ bPc = "fills" /\ k \in bIds /\ UNCHANGED bOrder
          /\ bOutcome' = [bOutcome EXCEPT ![k] = a] /\ a \in {"full", "some", "nothing"}
          /\ a \in {"full", "some"} => bOrder[k] = "matched"
      BY <1>3 DEF Basket!Told
    <2>2. Basket!TypeOK'
      BY <1>1, <2>1 DEF Basket!TypeOK, Basket!Answers
    <2> QED
      BY <1>1, <2>1, <2>2 DEF Basket!TypeOK
  <1> QED
    BY <1>2, <1>3

\* What every basket keeps.
THEOREM BasketsAccounted == KindsSpec => []BasketInv
  <1>1. KindsInit => BasketInv
    BY BasketInit DEF KindsInit
  <1>2. BasketInv /\ [Basket!Next]_basketVars => BasketInv'
    <2> SUFFICES ASSUME BasketInv, [Basket!Next]_basketVars
                 PROVE  BasketInv'
      OBVIOUS
    <2>1. CASE Basket!Runner
      BY <2>1, BasketStarts, BatchIsAnswered, FillsAreKnown, CancelsKeep, UnwindsKeep, PairsKeep
         DEF Basket!Runner
    <2>2. CASE Basket!Environment
      <3>1. "none" \in Basket!Answers
        BY DEF Basket!Answers
      <3> QED
        BY <2>2, <3>1, BasketVenueKeeps DEF Basket!Environment
    <2>3. CASE UNCHANGED basketVars
      <3>1. Basket!Exposed' = Basket!Exposed
        BY <2>3 DEF basketVars, Basket!Exposed
      <3> QED
        BY <2>3, <3>1 DEF basketVars, BasketInv, Basket!TypeOK, TrackerTrue, BasketAt,
           SettledOrders, SubmittedMeansWhole, Basket!SubmittedMeansWhole, NothingLeftBehind,
           Basket!NothingLeftBehind
    <2> QED
      BY <2>1, <2>2, <2>3 DEF Basket!Next
  <1> QED
    BY <1>1, <1>2, StepOfBasket, PTL DEF KindsSpec

\* A basket is "submitted" only as a whole, whichever orders of the batch were accepted,
\* in whatever order their fills were told, and also when the batch failed and its pairs
\* were traded one by one.
THEOREM BasketsWhole == KindsSpec => []SubmittedMeansWhole
  BY BasketsAccounted, PTL DEF BasketInv

\* A basket that traded in part has asked for the unwind of every market it saw fill, and
\* cancelled every order it did not see fill or reported that it could not.
THEOREM BasketsLeaveNothing == KindsSpec => []NothingLeftBehind
  BY BasketsAccounted, PTL DEF BasketInv

=============================================================================

--------------------------- MODULE BasketExecution ---------------------------
(***************************************************************************)
(* One basket: YES/NO pairs on several markets, to be traded together      *)
(* (src/src/agents/execution/ExecutionBasketRunner.ts and the basket part  *)
(* of ExecutionAgentSupport.ts).  A basket is submitted as one batch of    *)
(* fill-or-kill orders, or market by market, each pair an execution of its *)
(* own (PairedExecution, here only its outcome); a batch of which nothing  *)
(* was accepted falls back to the latter.                                  *)
(*                                                                         *)
(* An action of the runner goes from one await to the next.  Orders are    *)
(* numbered as in the batch: 2m - 1 is the YES order of market m, 2m its   *)
(* NO order.  What the order tracker says of an order is an outcome that   *)
(* is never ahead of the venue (FillTracking).                             *)
(***************************************************************************)
EXTENDS Naturals, FiniteSets

CONSTANT N           \* the markets of the basket are 1 .. N, in its order

Markets == 1 .. N
Orders  == 1 .. 2 * N

VARIABLES
    mode,            \* executionMode
    pc,              \* what the runner awaits
    leg,             \* the state of each market's leg, as reported
    order,           \* each batch order at the venue
    record,          \* the idempotency record of each batch order
    ids,             \* the accepted orders whose id is known
    outcome,         \* what the tracker answered for each of them
    todo,            \* what is left of the loop the runner is in
    unwound,         \* the markets whose unwind was asked for
    incidents,       \* [market, reason] of the incidents recorded
    result           \* what the caller gets

vars == <<mode, pc, leg, order, record, ids, outcome, todo, unwound, incidents, result>>

MarketOf(k) == (k + 1) \div 2
OrdersOf(m) == {2 * m - 1, 2 * m}

Modes     == {"batch", "sequential"}
Stops     == {"start", "batch", "fills", "cancel", "unwind", "pair", "done"}
LegStates == {"pending", "acked", "filled", "failed", "cancelled"}
Statuses  == {"none", "inflight", "live", "matched", "dead"}
Records   == {"none", "pending", "submitted", "confirmed", "failed"}
Answers   == {"none", "waiting", "full", "some", "nothing"}
Results   == {"none", "submitted", "blocked", "partial_fill", "batch_partial_accepted", "leg_failed"}
Incidents == [market : Markets, reason : {"order_cancel_failed", "unwind_failed"}]

TypeOK ==
    /\ mode \in Modes
    /\ pc \in Stops
    /\ leg \in [Markets -> LegStates]
    /\ order \in [Orders -> Statuses]
    /\ record \in [Orders -> Records]
    /\ ids \subseteq Orders
    /\ outcome \in [Orders -> Answers]
    /\ todo \subseteq Orders
    /\ unwound \subseteq Markets
    /\ incidents \subseteq Incidents
    /\ result \in Results

Init ==
    /\ mode \in Modes
    /\ pc = "start"
    /\ leg = [m \in Markets |-> "pending"]
    /\ order = [k \in Orders |-> "none"]
    /\ record = [k \in Orders |-> "none"]
    /\ ids = {}
    /\ outcome = [k \in Orders |-> "none"]
    /\ todo = {}
    /\ unwound = {}
    /\ incidents = {}
    /\ result = "none"

-----------------------------------------------------------------------------
(* Helpers *)

First(i) == i \in todo /\ \A j \in todo : i <= j

\* finalizeBasketSuccess and finalizeBasketFailure.  The record of the basket itself
\* becomes confirmed or failed with the result, and is not kept apart.
Answer(r) ==
    /\ pc' = "done"
    /\ todo' = {}
    /\ result' = r

Arrived == {k \in Orders : order[k] \in {"live", "matched", "dead"}}

\* Mutant of Outcome: one accepted order stands for the batch.
OutcomeOfAny(accepted) == IF accepted # {} THEN "submitted" ELSE "fallback"

\* parseBatchOutcome
Outcome(accepted) ==
    IF accepted = Orders THEN "submitted" ELSE IF accepted # {} THEN "partial" ELSE "fallback"

\* The pairs are executed in the order of the markets.
StartPairs ==
    /\ pc' = "pair"
    /\ todo' = Markets
    /\ UNCHANGED result

\* Mutant of Exposed: an order that was not seen to fill in full counts as empty.
ExposedInFull == {MarketOf(k) : k \in {i \in ids : outcome[i] = "full"}}

\* The markets of which something was seen to fill.
Exposed == {MarketOf(k) : k \in {i \in ids : outcome[i] \in {"full", "some"}}}

\* Unwind the markets of S, if there are any, and answer.
UnwindAll(S) ==
    IF S = {} THEN Answer("partial_fill")
    ELSE /\ pc' = "unwind"
         /\ todo' = S
         /\ UNCHANGED result

-----------------------------------------------------------------------------
(* The runner *)

\* Not a basket, trading disabled, or not in live mode.
Block ==
    /\ pc = "start"
    /\ Answer("blocked")
    /\ UNCHANGED <<mode, leg, order, record, ids, outcome, unwound, incidents>>

SubmitBatch ==
    /\ pc = "start" /\ mode = "batch"
    /\ pc' = "batch"
    /\ order' = [k \in Orders |-> "inflight"]
    /\ record' = [k \in Orders |-> "pending"]
    /\ UNCHANGED <<mode, leg, ids, outcome, todo, unwound, incidents, result>>

StartSequential ==
    /\ pc = "start" /\ mode = "sequential"
    /\ StartPairs
    /\ UNCHANGED <<mode, leg, order, record, ids, outcome, unwound, incidents>>

\* A leg whose two orders were accepted is acknowledged, any other has failed.
LegsAnswered(accepted) ==
    /\ record' = [k \in Orders |-> IF k \in accepted THEN "submitted" ELSE "failed"]
    /\ leg' = [m \in Markets |-> IF OrdersOf(m) \subseteq accepted THEN "acked" ELSE "failed"]

\* The batch is answered: order by order, or with a number of accepted orders only,
\* which is taken for the first ones.  With the user channel connected the fills of
\* the orders whose ids are known are awaited; otherwise the batch counts as traded.
BatchAnswered(accepted, known) ==
    /\ pc = "batch"
    /\ \/ accepted \subseteq Arrived /\ known \subseteq accepted
       \/ /\ \E n \in 0 .. Cardinality(Arrived) : accepted = 1 .. n
          /\ known = {}
    /\ LegsAnswered(accepted)
    /\ ids' = known
    /\ CASE Outcome(accepted) = "fallback" -> StartPairs /\ UNCHANGED outcome
         [] Outcome(accepted) = "partial"  -> Answer("batch_partial_accepted") /\ UNCHANGED outcome
         [] OTHER ->
              \/ /\ known # {}
                 /\ pc' = "fills"
                 /\ outcome' = [k \in Orders |-> IF k \in known THEN "waiting" ELSE "none"]
                 /\ UNCHANGED <<todo, result>>
              \/ Answer("submitted") /\ UNCHANGED outcome
    /\ UNCHANGED <<mode, order, unwound, incidents>>

\* { success: true } and nothing else.
BatchAnsweredBlindly ==
    /\ pc = "batch"
    /\ LegsAnswered({})
    /\ Answer("batch_partial_accepted")
    /\ UNCHANGED <<mode, order, ids, outcome, unwound, incidents>>

\* The batch fails or times out, whether or not it reached the venue.
BatchFails ==
    /\ pc = "batch"
    /\ LegsAnswered({})
    /\ StartPairs
    /\ UNCHANGED <<mode, order, ids, outcome, unwound, incidents>>

FillsKnown == pc = "fills" /\ \A k \in ids : outcome[k] # "waiting"

Unfilled == {k \in ids : outcome[k] # "full"}

AllFilled ==
    /\ FillsKnown
    /\ Unfilled = {}
    /\ leg' = [m \in Markets |-> IF OrdersOf(m) \cap ids # {} THEN "filled" ELSE leg[m]]
    /\ record' = [k \in Orders |-> IF k \in ids THEN "confirmed" ELSE record[k]]
    /\ Answer("submitted")
    /\ UNCHANGED <<mode, order, ids, outcome, unwound, incidents>>

NotAllFilled ==
    /\ FillsKnown
    /\ Unfilled # {}
    /\ pc' = "cancel"
    /\ todo' = Unfilled
    /\ UNCHANGED <<mode, leg, order, record, ids, outcome, unwound, incidents, result>>

\* The loop goes on whatever became of the cancel of k.
NextCancel(k) ==
    IF todo # {k}
    THEN todo' = todo \ {k} /\ UNCHANGED <<pc, result>>
    ELSE UnwindAll(Exposed)

\* The cancel of an outstanding order is answered, one way or the other: the answer
\* is not looked at, and the order may be live or matched.
Cancelled(k) ==
    /\ pc = "cancel" /\ First(k)
    /\ record' = [record EXCEPT ![k] = "failed"]
    /\ \/ UNCHANGED order
       \/ order[k] = "live" /\ order' = [order EXCEPT ![k] = "dead"]
    /\ NextCancel(k)
    /\ UNCHANGED <<mode, leg, ids, outcome, unwound, incidents>>

\* It throws or times out.
CancelThrows(k) ==
    /\ pc = "cancel" /\ First(k)
    /\ incidents' = incidents \cup {[market |-> MarketOf(k), reason |-> "order_cancel_failed"]}
    /\ \/ UNCHANGED order
       \/ order[k] = "live" /\ order' = [order EXCEPT ![k] = "dead"]
    /\ NextCancel(k)
    /\ UNCHANGED <<mode, leg, record, ids, outcome, unwound>>

\* Both sells of a market are answered, or one of them throws; the next market is
\* unwound in any case.
Unwound(m, ok) ==
    /\ pc = "unwind" /\ First(m)
    /\ unwound' = unwound \cup {m}
    /\ incidents' = IF ok THEN incidents
                    ELSE incidents \cup {[market |-> m, reason |-> "unwind_failed"]}
    /\ IF todo = {m} THEN Answer("partial_fill")
       ELSE todo' = todo \ {m} /\ UNCHANGED <<pc, result>>
    /\ UNCHANGED <<mode, leg, order, record, ids, outcome>>

-----------------------------------------------------------------------------
(* Market by market *)

Traded == {m \in Markets : pc = "pair" /\ m \notin todo}

\* The pair of market m is traded.
PairTraded(m) ==
    /\ pc = "pair" /\ First(m)
    /\ leg' = [leg EXCEPT ![m] = "filled"]
    /\ IF todo = {m} THEN Answer("submitted")
       ELSE todo' = todo \ {m} /\ UNCHANGED <<pc, result>>
    /\ UNCHANGED <<mode, order, record, ids, outcome, unwound, incidents>>

\* The pair of market m is blocked or fails: the pairs traded before it are unwound
\* and those after it not tried.
PairFails(m, blocked) ==
    /\ pc = "pair" /\ First(m)
    /\ leg' = [leg EXCEPT ![m] = IF blocked THEN "cancelled" ELSE "failed"]
    /\ IF Traded = {} THEN Answer("leg_failed") ELSE UnwindAll(Traded)
    /\ UNCHANGED <<mode, order, record, ids, outcome, unwound, incidents>>

-----------------------------------------------------------------------------
(* The venue, external to the code, and the order tracker *)

runnerVars == <<mode, pc, leg, record, ids, todo, unwound, incidents, result>>

Arrive(k) ==
    /\ order[k] = "inflight"
    /\ \E s \in {"live", "matched", "dead"} : order' = [order EXCEPT ![k] = s]
    /\ UNCHANGED <<runnerVars, outcome>>

Decide(k) ==
    /\ order[k] = "live"
    /\ \E s \in {"matched", "dead"} : order' = [order EXCEPT ![k] = s]
    /\ UNCHANGED <<runnerVars, outcome>>

\* The tracker answers: filled in full, in part as far as its trades were told, or not
\* at all, for a cancellation or because the timer fired.
Told(k, a) ==
    /\ outcome[k] = "waiting"
    /\ a \in {"full", "some"} => order[k] = "matched"
    /\ a \in {"full", "some", "nothing"}
    /\ outcome' = [outcome EXCEPT ![k] = a]
    /\ UNCHANGED <<runnerVars, order>>

-----------------------------------------------------------------------------

Runner ==
    \/ Block \/ SubmitBatch \/ StartSequential
    \/ \E accepted, known \in SUBSET Orders : BatchAnswered(accepted, known)
    \/ BatchAnsweredBlindly \/ BatchFails
    \/ AllFilled \/ NotAllFilled
    \/ \E k \in Orders : Cancelled(k) \/ CancelThrows(k)
    \/ \E m \in Markets :
         \/ PairTraded(m)
         \/ \E b \in BOOLEAN : Unwound(m, b) \/ PairFails(m, b)

Environment == \E k \in Orders : Arrive(k) \/ Decide(k) \/ \E a \in Answers : Told(k, a)

Next == Runner \/ Environment

Spec == Init /\ [][Next]_vars

\* The runner's turns are run, pairs end (PairedExecution), and the timers of the
\* batch, the fills, the cancels and the unwinds fire.
Fairness == WF_vars(Runner) /\ \A k \in Orders : WF_vars(Told(k, "nothing"))

FairSpec == Spec /\ Fairness

-----------------------------------------------------------------------------
(* Properties *)

\* A basket is "submitted" only as a whole: every pair was traded, or every order of
\* the batch was accepted and those whose fills were awaited have matched.
SubmittedMeansWhole ==
    result = "submitted" =>
        \/ \A m \in Markets : leg[m] = "filled"
        \/ /\ \A k \in Orders : record[k] \in {"submitted", "confirmed"}
           /\ \A k \in ids : outcome[k] # "none" => order[k] = "matched"

\* A basket that traded in part leaves nothing it knows of behind: every market that
\* was seen to fill was asked to be unwound, and every order that was not seen to fill
\* was cancelled or its failed cancel reported.
NothingLeftBehind ==
    result = "partial_fill" =>
        /\ \A k \in ids : outcome[k] \in {"full", "some"} => MarketOf(k) \in unwound
        /\ \A m \in Markets : leg[m] = "filled" => m \in unwound
        /\ \A k \in ids : outcome[k] # "full" =>
             \/ record[k] = "failed"
             \/ [market |-> MarketOf(k), reason |-> "order_cancel_failed"] \in incidents

\* Every basket answers, whatever the venue and the network do.
Finishes == <>(pc = "done")
=============================================================================

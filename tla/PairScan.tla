------------------------------- MODULE PairScan -------------------------------
(***************************************************************************)
(* What one YES/NO pair offers (src/src/agents/scanner/ScannerAgent.ts,    *)
(* ScannerPairEvaluator.ts), as pure operators: nothing, a pair that costs *)
(* less than its payout (near_zero), or a side that is worth more than it  *)
(* costs (ev).  Probabilities are in the unit of prices, confidences in    *)
(* percent.                                                                *)
(***************************************************************************)
EXTENDS TradeGates
LOCAL INSTANCE FiniteSetsExt

CONSTANT Calibrated(_)   \* the calibration of a probability: none, or a curve

\* No signal that may be used, no opportunity.
NoSignal == -1
Nothing == [type |-> "none"]

clamp01(p) == Max({0, Min({One, p})})

\* An insight is [value, confidence, expiresAtMs]; a lapsed one is none.
getInsight(insight, now) ==
    IF now >= insight.expiresAtMs THEN [value |-> NoSignal, confidence |-> 0] ELSE insight

\* Twice the middle of a book; the best ask stands for a bid that is missing.
Mid2(book) == IF BestBid(book) > 0 THEN BestAsk(book) + BestBid(book) ELSE 2 * BestAsk(book)

computeMarketPrior(yes, no) == clamp01((Mid2(yes) + 2 * One - Mid2(no)) \div 4)

computeFinalProbability(pMarket, signal, policy) ==
    LET w == Max({0, Min({100, signal.confidence})})
        combined == CASE signal.p = NoSignal -> pMarket
                      [] policy.evModelMode = "llm_only" -> signal.p
                      [] policy.evModelMode = "hybrid" ->
                           ((100 - w) * pMarket + w * signal.p) \div 100
                      [] OTHER -> pMarket
    IN  clamp01(Calibrated(clamp01(combined)))

\* The signal the model may use: one that is confident enough.
Signal(insight, policy) ==
    IF insight.value # NoSignal /\ insight.confidence >= policy.evModelConfidenceFloor
    THEN [p |-> clamp01(insight.value), confidence |-> insight.confidence]
    ELSE [p |-> NoSignal, confidence |-> 0]

\* Mutant of CoolingDown: the cooldown is counted in one unit less.
CoolingDownShort(lastEvAt, policy, now) == now - lastEvAt < policy.evCooldownMs - 1

CoolingDown(lastEvAt, policy, now) ==
    policy.evCooldownMs > 0 /\ now - lastEvAt < policy.evCooldownMs

Leg(marketId, cost, maxSize, minOrderSize, tickSize) ==
    [marketId |-> marketId, costPerSet |-> cost, maxSizeByDepth |-> maxSize,
     minOrderSize |-> minOrderSize, tickSize |-> tickSize, edgeLowerBound |-> 0]

NoProjection ==
    [edgeLowerBound |-> 0, dependencyConfidence |-> 0, projectionAgeMs |-> 0, converged |-> FALSE,
     solverStatus |-> "none"]

\* An opportunity on one market, at the best asks.
Opportunity(type, side, marketId, yes, no, gate, minOrderSize, confidence, now) ==
    [type |-> type, side |-> side, marketId |-> marketId,
     yesPrice |-> BestAsk(yes), noPrice |-> BestAsk(no),
     edge |-> gate.edge, confidence |-> confidence,
     tickSize |-> Max({yes.tickSize, no.tickSize}), minOrderSize |-> minOrderSize,
     legs |-> {Leg(marketId, gate.costPerSet, gate.maxSizeByDepth, minOrderSize,
                   Max({yes.tickSize, no.tickSize}))},
     projection |-> NoProjection, detectedAt |-> now]

NearZeroOpportunity(marketId, yes, no, gate, policy, now) ==
    IF policy.signalMode = "ev" \/ ~Passed(gate) THEN Nothing
    ELSE Opportunity("near_zero", "none", marketId, yes, no, gate,
                     Max({yes.minOrderSize, no.minOrderSize}), 0, now)

\* What fees and slippage take from an expected value.
EvCosts(policy) ==
    (One * (Max({0, policy.evFeeBps}) + policy.entrySlippageToleranceBps)) \div 10000

\* An opportunity on one side, when its gates pass.
EvOnSide(side, marketId, yes, no, signal, gate, now) ==
    IF ~Passed(gate) THEN Nothing
    ELSE Opportunity("ev", side, marketId, yes, no, gate,
                     Max({0, IF side = "yes" THEN yes.minOrderSize ELSE no.minOrderSize}),
                     signal.confidence, now)

\* The better of the two sides, its value net of fees and slippage.
BetterSide(evYes, evNo, marketId, yes, no, policy, signal, now) ==
    LET side == IF evYes >= evNo THEN "yes" ELSE "no"
    IN  EvOnSide(side, marketId, yes, no, signal,
                 evaluateEvGates(yes, no, policy, now, side, Max({evYes, evNo}) - EvCosts(policy),
                                 signal.confidence, NoSize), now)

EvOpportunity(marketId, yes, no, policy, signal, lastEvAt, now) ==
    LET p == computeFinalProbability(computeMarketPrior(yes, no), signal, policy)
    IN  IF \/ policy.signalMode = "near_zero"
           \/ policy.evModelMode = "llm_only" /\ signal.p = NoSignal
           \/ NoPrice \in {BestAsk(yes), BestAsk(no)}
           \/ CoolingDown(lastEvAt, policy, now)
        THEN Nothing
        ELSE BetterSide(p - BestAsk(yes), One - p - BestAsk(no), marketId, yes, no, policy, signal,
                        now)

\* The larger edge wins, the pair when they are equal.
LargerEdge(pair, ev) ==
    IF ev # Nothing /\ (pair = Nothing \/ ev.edge > pair.edge) THEN ev ELSE pair

evaluateScannerPair(marketId, yes, no, policy, fee, insight, lastEvAt, now) ==
    LargerEdge(
      NearZeroOpportunity(marketId, yes, no, evaluateGatesWithFees(yes, no, policy, now, NoSize, fee),
                          policy, now),
      EvOpportunity(marketId, yes, no, policy, Signal(insight, policy), lastEvAt, now))
=============================================================================

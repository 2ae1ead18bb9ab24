-------------------------- MODULE MCDecisionPipeline --------------------------
(* An instance of DecisionPipeline for TLC.  A price of 1 is 20 units. *)
EXTENDS DecisionPipeline, TLC

Symmetry == Permutations(Jobs)

Uncalibrated(p) == p

BothModes ==
    [signalMode |-> "both", nearZeroRiskMode |-> TRUE, rejectDelayed |-> TRUE,
     edgeRequired |-> 1, maxEdge |-> 8, maxSpread |-> 4,
     requireFreshBook |-> TRUE, maxBookStalenessMs |-> 2, maxLegSkewMs |-> 2,
     topOfBookStabilityMs |-> 0, minDepthLevels |-> 2, depthHeadroomPct |-> 100,
     depthBufferPct |-> 0, minEdgeTicks |-> 0, fallbackTickSize |-> 1,
     entrySlippageToleranceBps |-> 500,
     evModelMode |-> "llm_only", evModelConfidenceFloor |-> 20, evEdgeRequired |-> 1,
     evMaxEdge |-> 8, evFeeBps |-> 0, evConfidenceMin |-> 60, evConfidenceMinFloor |-> 40,
     evCooldownMs |-> 2,
     fwDependencyMinConfidence |-> 50, fwMaxProjectionAgeMs |-> 1, fwMinEdgeThreshold |-> 1,
     fwRequireConverged |-> TRUE, fwBasketMinMarkets |-> 1, fwBasketMaxMarkets |-> 2,
     fwBasketExecutionMode |-> "batch_best_effort",
     maxDecisionLatencyMs |-> 2, orderToTradeWindowMs |-> 2, maxOrderToTradeRatio |-> 4,
     maxOrdersPerMinute |-> 3, orderVelocityWindowMs |-> 1, maxDelayedAckPct |-> 50,
     priceBandBps |-> 1000]

EvOnly == [BothModes EXCEPT !.signalMode = "ev", !.evModelMode = "hybrid",
                             !.maxBookStalenessMs = 1, !.maxLegSkewMs = 1,
                             !.fwBasketExecutionMode = "sequential_failfast"]

MCPolicies == {BothModes, EvOnly}
EvOnlyPolicies == {[EvOnly EXCEPT !.maxBookStalenessMs = 2, !.maxLegSkewMs = 2]}

MCRisk ==
    [fallbackTickSize |-> 1, maxUnwindLossTicks |-> 1, maxMarketExposurePct |-> 50,
     targetTradePct |-> 50, maxTradePct |-> 50, maxAttemptLossPct |-> 5, depthBufferPct |-> 0,
     maxUnwindLossPct |-> 10, maxPerTradeLoss |-> 10, dailyLossLimitPct |-> 5,
     maxDailyDrawdownPct |-> 5, maxOpenInventoryMs |-> 2, unwindSlippageToleranceBps |-> 2000,
     evMaxPerMarketNotional |-> 20, evMaxPortfolioNotional |-> 60,
     fwMaxPerMarketNotional |-> 60, fwMaxPortfolioNotional |-> 80]

Raw(asks, bids) == [asks |-> asks, bids |-> bids, tickSize |-> 0, minOrderSize |-> 2]

MCSnapshots == {Raw((9 :> 2) @@ (12 :> 3), 8 :> 5), Raw(11 :> 4, 9 :> 5)}

MCInsights == {[value |-> 14, confidence |-> 80, ttl |-> 3]}

MCProjections == {[edgeLowerBound |-> 2, dependencyConfidence |-> 80, projectionAgeMs |-> 0,
                   converged |-> TRUE, solverStatus |-> "optimal"]}

\* The books have come, and an insight on each market, and nothing else has happened yet: a state
\* that behaviours of Spec reach, from which few changes are enough for two executions at once.
WarmInit ==
    \E raw \in MCSnapshots, i \in MCInsights :
      LET book == normalizeOrderBook(raw, 0, Defaults, NoBook)
          insight == [value |-> i.value, confidence |-> i.confidence, expiresAtMs |-> i.ttl]
      IN  /\ mode = "live"
          /\ StartsWith([t \in Tokens |-> book], [m \in Markets |-> insight])

WarmSpec == WarmInit /\ [][Next]_vars
=============================================================================

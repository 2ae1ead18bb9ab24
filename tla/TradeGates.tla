------------------------------ MODULE TradeGates ------------------------------
(***************************************************************************)
(* The gates an opportunity has to pass, before it is announced and again  *)
(* when it is admitted (src/src/domain/gates.ts, gateSupport.ts,           *)
(* feeModel.ts), as pure operators.                                        *)
(*                                                                         *)
(* A price of 1 is One units; fractions of the policy are in percent and   *)
(* basis points.  A decision is the set of the reasons to refuse, with the *)
(* cost, edge and size the later steps use.                                *)
(***************************************************************************)
EXTENDS OrderBook
LOCAL INSTANCE FiniteSetsExt

CONSTANT One          \* the price of a certain outcome

ASSUME OneAssumption == One \in Nat \ {0}

\* No size was asked for (desiredSize = undefined).
NoSize == -1

\* The reasons whose condition, named beside them, holds.
Reasons(conditions) == {c[1] : c \in {d \in conditions : d[2]}}

Refused(reasons) == [reasons |-> reasons, costPerSet |-> 0, edge |-> 0, maxSizeByDepth |-> 0]

Passed(decision) == decision.reasons = {}

Invalid(price) == price <= 0 \/ price > One

\* The gates without which nothing else can be evaluated.
FatalReasons(yes, no) ==
    IF NoPrice \in {BestAsk(yes), BestAsk(no)} THEN {"missing_best_ask"}
    ELSE Reasons({<<"yes_best_ask_invalid", Invalid(BestAsk(yes))>>,
                  <<"no_best_ask_invalid", Invalid(BestAsk(no))>>})

Stale(book, policy, now) == Max({0, now - book.lastUpdateMs}) > policy.maxBookStalenessMs

LegSkew(yes, no) ==
    Max({yes.lastUpdateMs, no.lastUpdateMs}) - Min({yes.lastUpdateMs, no.lastUpdateMs})

Unstable(book, policy, now) == now - book.stableSinceMs < policy.topOfBookStabilityMs

TooWide(book, policy) == HasSpread(book) /\ spread(book) > policy.maxSpread

Crossed(book) == BestBid(book) # NoPrice /\ BestBid(book) > BestAsk(book)

BothSpread(yes, no) == HasSpread(yes) /\ HasSpread(no)

evaluateBaseGates(yes, no, policy, now) ==
    Reasons({
      <<"yes_book_crossed", Crossed(yes)>>,
      <<"no_book_crossed", Crossed(no)>>,
      <<"missing_spread", ~BothSpread(yes, no)>>,
      <<"yes_spread_too_wide", BothSpread(yes, no) /\ TooWide(yes, policy)>>,
      <<"no_spread_too_wide", BothSpread(yes, no) /\ TooWide(no, policy)>>,
      <<"yes_book_stale", policy.requireFreshBook /\ Stale(yes, policy, now)>>,
      <<"no_book_stale", policy.requireFreshBook /\ Stale(no, policy, now)>>,
      <<"leg_sync_skew", policy.maxLegSkewMs > 0 /\ LegSkew(yes, no) > policy.maxLegSkewMs>>,
      <<"unstable_top_of_book", Unstable(yes, policy, now) \/ Unstable(no, policy, now)>>,
      <<"yes_tick_misaligned", ~isAlignedToTick(BestAsk(yes), yes.tickSize)>>,
      <<"no_tick_misaligned", ~isAlignedToTick(BestAsk(no), no.tickSize)>>})

Depth(book, policy) == depthAtTopLevels(book.asks, Max({1, policy.minDepthLevels}))

Headroom(depth, policy) == (depth * policy.depthHeadroomPct) \div 100

DepthGates(maxSize, minOrderSize, desired, policy) ==
    Reasons({
      <<"insufficient_depth", maxSize <= 0>>,
      <<"below_min_order_size", maxSize < minOrderSize>>,
      <<"desired_size_exceeds_depth", desired # NoSize /\ desired > maxSize>>,
      <<"insufficient_depth_buffer",
        desired # NoSize /\ desired > 0 /\ policy.depthBufferPct > 0
          /\ 100 * maxSize < desired * policy.depthBufferPct>>})

EdgeGates(edge, policy) ==
    Reasons({<<"edge_below_threshold", edge < policy.edgeRequired>>,
             <<"edge_above_max", edge > policy.maxEdge>>})

\* The tick that edges are counted in: the largest of the books and the fallback.
resolveTickSize(yes, no, policy) == Max({yes.tickSize, no.tickSize, policy.fallbackTickSize, 0})

TickGates(edge, yes, no, policy) ==
    LET tick == resolveTickSize(yes, no, policy)
    IN  Reasons({<<"edge_below_min_ticks",
                   policy.minEdgeTicks > 0 /\ tick > 0 /\ edge < policy.minEdgeTicks * tick>>})

\* Sweeping the asks for the size costs more than the tolerance above the best ask.
SweptTooDear(sweep, bestAsk, policy) ==
    Reasons({<<"depth_exhausted", sweep.exhausted>>,
             <<"slippage_exceeded",
               (sweep.totalCost - bestAsk * sweep.filledSize) * 10000
                 > policy.entrySlippageToleranceBps * bestAsk * sweep.filledSize>>})

SlippageGates(book, desired, policy) ==
    IF desired <= 0 THEN {} ELSE SweptTooDear(sweepCost(book.asks, desired), BestAsk(book), policy)

evaluateGates(yes, no, policy, now, desired) ==
    LET fatal == FatalReasons(yes, no)
        cost == BestAsk(yes) + BestAsk(no)
        maxSize == Headroom(Min({Depth(yes, policy), Depth(no, policy)}), policy)
        minOrderSize == Max({yes.minOrderSize, no.minOrderSize})
    IN  IF fatal # {} THEN Refused(fatal)
        ELSE [reasons |-> evaluateBaseGates(yes, no, policy, now)
                            \cup EdgeGates(One - cost, policy)
                            \cup DepthGates(maxSize, minOrderSize, desired, policy)
                            \cup TickGates(One - cost, yes, no, policy)
                            \cup SlippageGates(yes, desired, policy)
                            \cup SlippageGates(no, desired, policy),
              costPerSet |-> cost, edge |-> One - cost, maxSizeByDepth |-> maxSize]

\* The confidence an edge asks for falls from the minimum to the floor as it grows.
BelowConfidence(confidence, evEdge, policy) ==
    LET span == Max({0, policy.evMaxEdge - policy.evEdgeRequired})
        floor == Max({0, Min({policy.evConfidenceMinFloor, policy.evConfidenceMin})})
        above == Max({0, Min({span, evEdge - policy.evEdgeRequired})})
    IN  IF span = 0 THEN confidence < policy.evConfidenceMin
        ELSE confidence * span < policy.evConfidenceMin * span
                                   - above * (policy.evConfidenceMin - floor)

EvThresholds(evEdge, confidence, policy) ==
    Reasons({<<"ev_edge_below_threshold", evEdge < policy.evEdgeRequired>>,
             <<"ev_edge_above_max", evEdge > policy.evMaxEdge>>,
             <<"ev_confidence_below_min", BelowConfidence(confidence, evEdge, policy)>>})

evaluateEvGates(yes, no, policy, now, side, evEdge, confidence, desired) ==
    LET fatal == FatalReasons(yes, no)
        book == IF side = "yes" THEN yes ELSE no
        maxSize == Headroom(Depth(book, policy), policy)
    IN  IF fatal # {} THEN Refused(fatal)
        ELSE [reasons |-> evaluateBaseGates(yes, no, policy, now)
                            \cup DepthGates(maxSize, book.minOrderSize, desired, policy)
                            \cup EvThresholds(evEdge, confidence, policy)
                            \cup TickGates(evEdge, yes, no, policy)
                            \cup SlippageGates(book, desired, policy),
              costPerSet |-> BestAsk(book), edge |-> evEdge, maxSizeByDepth |-> maxSize]

\* A projected edge replaces the edge of the books; its own gates replace theirs.
evaluateFwProjectionGates(yes, no, policy, now, projection, desired) ==
    LET base == evaluateGates(yes, no, policy, now, desired)
    IN  [base EXCEPT
           !.edge = projection.edgeLowerBound,
           !.reasons =
             (@ \ {"edge_below_threshold", "edge_above_max", "edge_below_min_ticks"})
               \cup Reasons({
                      <<"fw_dependency_low_confidence",
                        projection.dependencyConfidence < policy.fwDependencyMinConfidence>>,
                      <<"fw_projection_stale",
                        projection.projectionAgeMs > policy.fwMaxProjectionAgeMs>>,
                      <<"fw_edge_lower_bound_fail",
                        projection.edgeLowerBound < policy.fwMinEdgeThreshold>>,
                      <<"fw_requires_converged", policy.fwRequireConverged /\ ~projection.converged>>,
                      <<"fw_solver_status",
                        projection.solverStatus \notin {"optimal", "feasible"}>>})]

BasketReasons(basket, policy) ==
    Reasons({
      <<"fw_basket_min_markets", Cardinality(basket.markets) < policy.fwBasketMinMarkets>>,
      <<"fw_basket_max_markets", Cardinality(basket.markets) > policy.fwBasketMaxMarkets>>,
      <<"fw_basket_projection_stale", basket.projectionAgeMs > policy.fwMaxProjectionAgeMs>>,
      <<"fw_basket_edge_lower_bound_fail", basket.edgeLowerBound < policy.fwMinEdgeThreshold>>,
      <<"fw_basket_requires_converged", policy.fwRequireConverged /\ ~basket.converged>>})

\* A market of a basket is projected with the certainty of the loop that found it.
MarketProjection(market, basket) ==
    [edgeLowerBound |-> market.edgeLowerBound, dependencyConfidence |-> 100,
     projectionAgeMs |-> basket.projectionAgeMs, converged |-> basket.converged,
     solverStatus |-> IF basket.converged THEN "optimal" ELSE "feasible"]

\* gate[m] decides on market m of the basket; the markets without books are missing.
BasketDecision(basket, gate, own, desired) ==
    LET known == DOMAIN gate
        maxSize == IF known = {} THEN 0 ELSE Min({gate[m].maxSizeByDepth : m \in known})
    IN  [edge |-> basket.edgeLowerBound, maxSizeByDepth |-> maxSize,
         costPerSet |-> MapThenSumSet(LAMBDA m : m.costPerSet, known),
         reasons |->
           IF "fw_basket_requires_converged" \in own THEN own
           ELSE own
             \cup Reasons({<<"missing_orderbook", known # basket.markets>>})
             \cup UNION {gate[m].reasons : m \in known}
             \cup Reasons({<<"fw_basket_desired_size_exceeds_depth", desired > maxSize>>})]

\* books(m) is the pair of books of market m, or <<>> while one is missing.  The code
\* puts the market's name before each of its reasons.
evaluateFwBasketGates(basket, policy, now, books(_), desired) ==
    BasketDecision(
      basket,
      [m \in {l \in basket.markets : books(l.marketId) # <<>>} |->
         evaluateFwProjectionGates(books(m.marketId)[1], books(m.marketId)[2], policy, now,
                                   MarketProjection(m, basket), desired)],
      BasketReasons(basket, policy), desired)

\* The fee is paid on both legs.
netEdge(edge, fee) == edge - 2 * fee

AfterFees(decision, net, policy) ==
    IF ~Passed(decision) THEN decision
    ELSE [decision EXCEPT
            !.edge = net,
            !.reasons = Reasons({<<"edge_below_threshold_after_fees", net < policy.edgeRequired>>,
                                 <<"edge_above_max_after_fees", net > policy.maxEdge>>})]

evaluateGatesWithFees(yes, no, policy, now, desired, fee) ==
    AfterFees(evaluateGates(yes, no, policy, now, desired),
              netEdge(One - BestAsk(yes) - BestAsk(no), fee), policy)
=============================================================================

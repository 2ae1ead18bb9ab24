------------------------------ MODULE Projection ------------------------------
(***************************************************************************)
(* The projection of a universe of markets (src/src/agents/projection/     *)
(* FwProjectionUniverseSupport.ts, FwProjectionLoopSupport.ts), as pure    *)
(* operators: the entries with their lower bounds and relation signals, the*)
(* constraints for the oracle, the candidates an iterate selects, and the  *)
(* basket or the single opportunity that is announced.                     *)
(*                                                                         *)
(* Books are those of OrderBook, prices and edges in its unit, weights and *)
(* confidences in percent.  An entry is one market with a YES and a NO ask.*)
(***************************************************************************)
EXTENDS TradeGates, Relations
LOCAL INSTANCE FiniteSetsExt
LOCAL INSTANCE SequencesExt

Total(S, f(_)) == MapThenSumSet(f, S)

\* The average of the relations of a market; one that has none is certain.
buildDependencyConfidence(m, edges) ==
    LET own == {e \in edges : m \in Ends(e)}
    IN  IF own = {} THEN 100
        ELSE Total(own, LAMBDA e : clampDependencyConfidence(e.confidence)) \div Cardinality(own)

-----------------------------------------------------------------------------
(* The lower bound of an edge *)

\* How much more than the best ask the smallest order pays.
Slippage(book, size) ==
    LET sweep == sweepCost(book.asks, size)
        best == BestAsk(book) * sweep.filledSize
    IN  IF size <= 0 \/ best <= 0 THEN 0 ELSE Max({0, (One * (sweep.totalCost - best)) \div best})

\* The scale of the penalties: half the threshold, or a quarter of the edge.
adaptivePenaltyScale(edge, policy) ==
    Max({policy.fwMinEdgeThreshold \div 2, Max({0, edge}) \div 4, 0})

StalenessPenalty(age, scale, policy) ==
    LET allowed == Max({1, policy.fwMaxProjectionAgeMs})
    IN  (Min({allowed, Max({0, age - allowed})}) * scale) \div (2 * allowed)

StabilityPenalty(yes, no, scale, policy) ==
    LET required == Max({0, policy.topOfBookStabilityMs})
        stableFor == Max({0, Min({yes.lastUpdateMs, no.lastUpdateMs})
                               - Min({yes.stableSinceMs, no.stableSinceMs})})
    IN  IF required = 0 THEN 0 ELSE (Max({0, required - stableFor}) * scale) \div (2 * required)

estimateLowerBoundComponents(yes, no, policy, edge, age, size) ==
    LET scale == adaptivePenaltyScale(edge, policy)
    IN  [feeCost |-> (One * Max({0, policy.nearZeroFeeBps})) \div 10000,
         sweepSlippageCost |->
           Min({(Slippage(yes, size) + Slippage(no, size)) \div 2,
                (One * Max({0, policy.fwSlippageToleranceBps})) \div 10000}),
         stalenessPenalty |-> StalenessPenalty(age, scale, policy),
         stabilityPenalty |-> StabilityPenalty(yes, no, scale, policy),
         executionRiskBuffer |->
           IF edge <= 0 THEN 0
           ELSE Min({(One * Max({0, policy.fwExecutionRiskBufferBps})) \div 10000,
                     Max({policy.fwMinEdgeThreshold \div 4, (3 * scale) \div 4})})]

Penalties(c) ==
    c.feeCost + c.sweepSlippageCost + c.stalenessPenalty + c.stabilityPenalty
      + c.executionRiskBuffer

computeExecutableLowerBound(edge, components) == edge - Penalties(components)

-----------------------------------------------------------------------------
(* The universe *)

Entry(m, yes, no, edges, policy, now) ==
    LET edge == One - BestAsk(yes) - BestAsk(no)
        age == Max({0, now - Min({yes.lastUpdateMs, no.lastUpdateMs})})
        minOrderSize == Max({yes.minOrderSize, no.minOrderSize, 0})
    IN  [marketId |-> m, yesPrice |-> BestAsk(yes), projectedEdge |-> edge,
         costPerSet |-> BestAsk(yes) + BestAsk(no),
         dependencyConfidence |-> buildDependencyConfidence(m, edges),
         relations |-> {}, relationSignal |-> 0, edgeLowerBound |-> 0,
         selectionWeight |-> 0,
         components |-> estimateLowerBoundComponents(yes, no, policy, edge, age, minOrderSize),
         maxSizeByDepth |-> Headroom(Min({Depth(yes, policy), Depth(no, policy)}), policy),
         minOrderSize |-> minOrderSize,
         tickSize |-> Max({yes.tickSize, no.tickSize, policy.fallbackTickSize}),
         projectionAgeMs |-> age]

\* Only the markets with an ask on both books take part.
HasAsks(m, books) == books[m] # <<>> /\ NoPrice \notin {BestAsk(books[m][1]), BestAsk(books[m][2])}

\* How far the prices of two related markets are from what the relation allows.
computeRelationViolationSignal(type, left, right) ==
    CASE type = "mutual_exclusive" -> Max({0, left + right - One})
      [] type = "implies" -> Max({0, left - right})
      [] type = "partition" -> Max({One - left - right, left + right - One})
      [] type = "complementary" -> Max({left - right, right - left})

\* A violated relation, its signal in the unit of edges.
Violation(e, signal) == [a |-> e.a, b |-> e.b, type |-> e.type, confidence |-> signal]

Violations(price, edges) ==
    {Violation(e, (computeRelationViolationSignal(e.type, price[e.a], price[e.b])
                     * clampDependencyConfidence(e.confidence)) \div 100) :
       e \in {f \in edges : /\ Ends(f) \subseteq DOMAIN price
                            /\ computeRelationViolationSignal(f.type, price[f.a], price[f.b]) > 0}}

\* How alike two markets look, in percent.
computeSemanticAffinity(l, r, priceL, priceR) ==
    LET shared == Cardinality(l.tags \cap r.tags)
        overlap == jaccardScore(l.words, r.words)
        apart == Min({100, (500 * Max({priceL - priceR, priceR - priceL})) \div One})
    IN  IF ~SharedCategory(l, r) /\ shared = 0 /\ overlap < 20 THEN 0
        ELSE Min({100, (IF SharedCategory(l, r) THEN 25 ELSE 0)
                         + (25 * Min({3, shared})) \div 3 + (35 * overlap) \div 100
                         + (15 * (100 - apart)) \div 100 + (IF shared > 0 THEN 5 ELSE 0)})

\* The signal of two markets that look alike: small, whatever their prices.
InferredSignal(affinity, policy) ==
    LET scale == Min({(3 * One) \div 100, Max({One \div 100, 12 * policy.fwMinEdgeThreshold})})
    IN  (affinity * scale * Min({80, 35 + (45 * affinity) \div 100})) \div 10000

InferredViolations(price, violations, text, policy) ==
    {Violation(Relation(p[1], p[2], "complementary", 0),
               InferredSignal(computeSemanticAffinity(text[p[1]], text[p[2]],
                                                      price[p[1]], price[p[2]]), policy)) :
       p \in {q \in (DOMAIN price) \X (DOMAIN price) :
                /\ q[1] < q[2]
                /\ \A v \in violations : Ends(v) # {q[1], q[2]}
                /\ computeSemanticAffinity(text[q[1]], text[q[2]], price[q[1]], price[q[2]]) >= 35}}

\* Three markets or more of which few are in a violated relation: likeness is added.
SparselyRelated(price, violations) ==
    LET markets == DOMAIN price
    IN  /\ Cardinality(markets) >= 3
        /\ 100 * Cardinality(UNION {Ends(v) : v \in violations}) < 35 * Cardinality(markets)

buildRelationViolationCandidates(price, edges, text, policy) ==
    LET explicit == Violations(price, edges)
    IN  IF ~SparselyRelated(price, explicit) THEN explicit
        ELSE explicit \cup {v \in InferredViolations(price, explicit, text, policy) :
                              v.confidence > 0}

\* The strongest violations first, up to the caps per market and in total.
applyRelationSignals(entries, violations, policy) ==
    LET taken == Capped(SetToSortSeq(violations, Before),
                        Max({1, policy.fwRelationCandidatesPerMarketMax}),
                        Max({1, policy.fwRelationCandidatesTotalMax}))
        own(m) == {v \in taken : m \in Ends(v)}
    IN  [m \in DOMAIN entries |->
           [entries[m] EXCEPT !.relations = own(m),
                              !.relationSignal = Total(own(m), LAMBDA v : v.confidence)]]

\* The entries, a function of their markets.  now is when the scan started.
buildProjectionUniverse(universe, books, edges, text, policy, now) ==
    LET entries == [m \in {n \in universe : HasAsks(n, books)} |->
                      Entry(m, books[m][1], books[m][2], edges, policy, now)]
    IN  applyRelationSignals(
          entries,
          buildRelationViolationCandidates([m \in DOMAIN entries |-> entries[m].yesPrice], edges,
                                           text, policy),
          policy)

-----------------------------------------------------------------------------
(* The oracle *)

\* Whether a 0/1 assignment, the set of its ones, satisfies the row of a relation.
Satisfies(ones, e) ==
    CASE e.type \in {"mutual_exclusive", "partition"} -> ~(Ends(e) \subseteq ones)
      [] e.type = "implies" -> e.a \in ones => e.b \in ones
      [] e.type = "complementary" -> e.a \in ones <=> e.b \in ones

\* The assignments buildConstraintRows leaves to the oracle.
FeasibleAssignments(markets, edges) ==
    {ones \in SUBSET markets : \A e \in edges : Ends(e) \subseteq markets => Satisfies(ones, e)}

mapNonConvergedReason(terminalReason) ==
    CASE terminalReason = "runtime_budget" -> "projection_runtime_budget"
      [] terminalReason = "max_iterations" -> "projection_max_iterations"
      [] terminalReason = "contraction_floor" -> "projection_contraction_floor"
      [] OTHER -> "projection_not_converged"

-----------------------------------------------------------------------------
(* The candidates *)

RelationTypesOf(entry) == {v.type : v \in entry.relations}

\* What the violated relations of a market are worth; its own edge when they are silent.
computeRelationBackedExecutableEdge(entry) ==
    IF entry.relationSignal <= 0 THEN entry.projectedEdge
    ELSE (entry.relationSignal * Max({50, entry.dependencyConfidence})
            * Min({100, 50 + 25 * Cardinality(RelationTypesOf(entry))})) \div 10000

resolveExecutableTheoreticalEdge(entry) ==
    IF entry.relations = {} THEN entry.projectedEdge
    ELSE Max({entry.projectedEdge, computeRelationBackedExecutableEdge(entry)})

ScoredBound(entry) ==
    computeExecutableLowerBound(resolveExecutableTheoreticalEdge(entry), entry.components)

\* What the candidates are ordered by.
WeightedBound(c) == ScoredBound(c) * c.selectionWeight

\* The weighted bound first, the market among equals.
Precedes(c, d) ==
    \/ WeightedBound(c) > WeightedBound(d)
    \/ WeightedBound(c) = WeightedBound(d) /\ c.marketId < d.marketId

\* Those of S that fewer than k others of S come before.
FirstOf(k, S, Earlier(_, _)) == {c \in S : Cardinality({d \in S : Earlier(d, c)}) < k}

\* The entries with the weight of their market in the iterate.
Weighted(entries, point) ==
    {[entries[m] EXCEPT !.selectionWeight = point[m]] : m \in DOMAIN entries}

\* The entries whose bound passes: the best few of them, or those with enough weight.
Selected(entries, point, policy) ==
    LET passing == {c \in Weighted(entries, point) : ScoredBound(c) >= policy.fwMinEdgeThreshold}
    IN  IF policy.fwSelectionTopK > 0 THEN FirstOf(policy.fwSelectionTopK, passing, Precedes)
        ELSE {c \in passing : c.selectionWeight >= policy.fwSelectionWeightFloor}

\* The bound a selected candidate carries from here on is not the one it was selected by.
Candidate(entry) ==
    [entry EXCEPT !.edgeLowerBound = computeRelationBackedExecutableEdge(entry)]

buildCandidatesFromIterate(entries, point, policy) ==
    {Candidate(c) : c \in Selected(entries, point, policy)}

CandidateProjection(candidate, converged) ==
    [edgeLowerBound |-> candidate.edgeLowerBound,
     dependencyConfidence |-> candidate.dependencyConfidence,
     projectionAgeMs |-> candidate.projectionAgeMs, converged |-> converged,
     solverStatus |-> IF converged THEN "optimal" ELSE "feasible"]

\* Mutant of filterExecutableBasketCandidates: every candidate is taken for executable.
filterNothing(candidates, books, policy, now, converged) == candidates

\* The candidates whose own gates pass on the books of the scan.
filterExecutableBasketCandidates(candidates, books, policy, now, converged) ==
    {c \in candidates : Passed(evaluateFwProjectionGates(
                                 books[c.marketId][1], books[c.marketId][2], policy, now,
                                 CandidateProjection(c, converged), NoSize))}

-----------------------------------------------------------------------------
(* What is announced *)

NoOpportunity == [type |-> "none", legs |-> {}, edge |-> 0]

\* The order of a basket: the bound first, among equals as the candidates come.
Higher(c, d) ==
    \/ c.edgeLowerBound > d.edgeLowerBound
    \/ c.edgeLowerBound = d.edgeLowerBound /\ Precedes(c, d)

\* The best candidates by their bound; none when they are fewer than a basket needs.
buildBasketOpportunity(candidates, policy) ==
    LET most == Max({policy.fwBasketMinMarkets, policy.fwBasketMaxMarkets})
        legs == FirstOf(most, candidates, Higher)
    IN  IF Cardinality(legs) < Max({1, policy.fwBasketMinMarkets}) THEN NoOpportunity
        ELSE [type |-> "fw_basket", legs |-> legs,
              edge |-> Total(legs, LAMBDA c : c.edgeLowerBound)]

toSingleFwOpportunity(legs) ==
    [type |-> "fw_projection", legs |-> legs, edge |-> Total(legs, LAMBDA c : c.edgeLowerBound)]

\* A basket, or the first candidate alone.
Announced(candidates, policy) ==
    LET basket == buildBasketOpportunity(candidates, policy)
    IN  IF candidates = {} THEN NoOpportunity
        ELSE IF basket # NoOpportunity THEN basket
        ELSE toSingleFwOpportunity(FirstOf(1, candidates, Precedes))
=============================================================================

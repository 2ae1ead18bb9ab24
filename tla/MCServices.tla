----------------------------- MODULE MCServices -----------------------------
(* An instance of Services for TLC. *)
EXTENDS Services, TLC

MCText == <<[stem |-> "s", markers |-> {<<"will", "for">>}, tags |-> {"t", "u"}, words |-> {"w", "x"},
             category |-> "c", prompt |-> FALSE],
            [stem |-> "s", markers |-> {<<"will", "against">>, <<"will", "for">>}, tags |-> {"t"},
             words |-> {"w", "y"}, category |-> "c", prompt |-> TRUE],
            [stem |-> "z", markers |-> {}, tags |-> {"v"}, words |-> {"w", "x", "v"},
             category |-> "c", prompt |-> TRUE]>>

Side(ask) == [asks |-> ask :> 10, bids |-> (ask - 10) :> 10, tickSize |-> 1, minOrderSize |-> 5,
              lastUpdateMs |-> 0, stableSinceMs |-> 0]
Cheap == <<Side(400), Side(570)>>
Dear == <<Side(603), Side(430)>>
MCOpening == <<Dear, <<>>, Cheap>>
MCQuotes == <<{Cheap}, {Cheap}, {}>>

Broad ==
    [nearZeroRiskMode |-> FALSE, edgeRequired |-> 3, maxEdge |-> 200, maxSpread |-> 40,
     requireFreshBook |-> TRUE, maxBookStalenessMs |-> 1, maxLegSkewMs |-> 1,
     topOfBookStabilityMs |-> 0, minDepthLevels |-> 2, depthHeadroomPct |-> 100,
     depthBufferPct |-> 0, minEdgeTicks |-> 0, fallbackTickSize |-> 1,
     entrySlippageToleranceBps |-> 500, nearZeroFeeBps |-> 10,
     fwDependencyMode |-> "hybrid", fwDependencyHybridMerge |-> "consensus",
     fwDependencyMinConfidence |-> 50, fwDependencyMaxEdgesPerMarket |-> 1,
     relationCatalogEnabled |-> TRUE, relationCatalogMinConfidence |-> 60,
     relationCatalogMaxEdgesPerMarket |-> 2, fwRelationCandidatesPerMarketMax |-> 1,
     fwRelationCandidatesTotalMax |-> 2, fwUniverseMode |-> "broad_rotation",
     fwDependencyCacheTtlMs |-> 1, fwDependencyCacheGraceMs |-> 1, fwDependencyCacheMaxEntries |-> 1,
     fwDependencyBackoffInvalidMs |-> 1, fwDependencyBackoffTimeoutMs |-> 3,
     fwDependencyBackoffErrorMs |-> 2,
     fwOracleMaxConcurrency |-> 1, fwMaxIterations |-> 2, fwMaxLoopRuntimeMs |-> 0,
     fwRequireConverged |-> TRUE, fwStallIterationLimit |-> 1, fwContractions |-> 2,
     fwMaxProjectionAgeMs |-> 1, fwSlippageToleranceBps |-> 60, fwExecutionRiskBufferBps |-> 10,
     fwMinEdgeThreshold |-> 3, fwSelectionWeightFloor |-> 50, fwSelectionTopK |-> 0,
     fwBasketMinMarkets |-> 2, fwBasketMaxMarkets |-> 2]
MCFwPolicies ==
    {Broad,
     [Broad EXCEPT !.fwDependencyMode = "llm", !.fwUniverseMode = "dependency_cohort",
                   !.fwRequireConverged = FALSE, !.fwDependencyCacheTtlMs = 2,
                   !.fwDependencyCacheGraceMs = 0, !.fwSelectionTopK = 1, !.fwBasketMinMarkets = 1],
     [Broad EXCEPT !.fwDependencyMode = "deterministic"]}
MCCatalog == loadDependencyRelationCatalog(buildDependencyRelationCatalogEntries({1, 3}, MCText, TRUE))
LlmCall(status, text, edges) == [status |-> status, text |-> text, edges |-> edges]
MCCalls == {LlmCall("ok", "valid", {Relation(2, 1, "mutual_exclusive", 80)}),
            LlmCall("timeout", "none", {}), LlmCall("circuit_open", "none", {})}

\* Providers of searches.
MCSearching == [signals |-> TRUE, exa |-> TRUE, serper |-> TRUE, firecrawl |-> FALSE, gdelt |-> TRUE,
                providers |-> "gdelt_serper_exa", officialRequired |-> TRUE, exaFallback |-> TRUE,
                concurrency |-> 1]
MCSignalPolicies ==
    {MCSearching, [MCSearching EXCEPT !.serper = FALSE, !.gdelt = FALSE, !.concurrency = 2]}
MCHeartbeats ==
    {[known |-> TRUE, spike |-> TRUE, official |-> FALSE],
     [known |-> TRUE, spike |-> FALSE, official |-> TRUE]}

MCBusEvents ==
    {[market |-> 1, kind |-> "opportunity"], [market |-> 2, kind |-> "opportunity"],
     [market |-> 1, kind |-> "filled"]}
=============================================================================

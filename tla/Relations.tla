------------------------------- MODULE Relations -------------------------------
(***************************************************************************)
(* Dependencies between markets, as pure operators: what their questions   *)
(* say of each other (src/src/domain/dependency.ts), the catalog and the   *)
(* language model as further sources (src/src/agents/dependency/), how the *)
(* sources are merged and filtered, and the cohorts the supervisor scans   *)
(* (src/src/core/Supervisor.ts).                                           *)
(*                                                                         *)
(* A market is a number.  Its text is what the rules look for in it: the   *)
(* stem left without the markers, the markers <<kind, side>>, the tags, the*)
(* words, its category, and whether it asks which, who or what.  A relation*)
(* is [a, b, type, confidence], the confidence in percent; evidence, source*)
(* and time of extraction are left out.                                    *)
(***************************************************************************)
EXTENDS Integers, FiniteSets, Sequences
LOCAL INSTANCE FiniteSetsExt
LOCAL INSTANCE SequencesExt
LOCAL INSTANCE Graphs

RelationTypes == <<"mutual_exclusive", "implies", "complementary", "partition">>

Relation(a, b, type, confidence) == [a |-> a, b |-> b, type |-> type, confidence |-> confidence]

Ends(e) == {e.a, e.b}

\* All relations but implication are the same in both directions.
withSortedMarkets(e) ==
    IF e.type = "implies" \/ e.a <= e.b THEN e ELSE [e EXCEPT !.a = e.b, !.b = e.a]

dependencyEdgeKey(e) ==
    LET sorted == withSortedMarkets(e) IN <<sorted.type, sorted.a, sorted.b>>

clampDependencyConfidence(c) == Max({0, Min({100, c})})

-----------------------------------------------------------------------------
(* What the questions say *)

SharedCategory(l, r) == l.category # "" /\ l.category = r.category

OppositeMarkers(l, r) ==
    \E x \in l.markers, y \in r.markers : x[1] = y[1] /\ {x[2], y[2]} = {"for", "against"}

\* The first rule that applies decides.
DeterministicType(l, r) ==
    CASE OppositeMarkers(l, r) /\ l.stem = r.stem /\ l.stem # "" -> <<"mutual_exclusive", 90>>
      [] Cardinality(l.tags \cap r.tags) >= 2 /\ SharedCategory(l, r) -> <<"complementary", 70>>
      [] l.prompt /\ r.prompt /\ SharedCategory(l, r) -> <<"partition", 65>>
      [] OTHER -> <<>>

extractDeterministicDependencyEdges(markets, text) ==
    {Relation(p[1], p[2], DeterministicType(text[p[1]], text[p[2]])[1],
              DeterministicType(text[p[1]], text[p[2]])[2]) :
       p \in {q \in markets \X markets :
                q[1] < q[2] /\ DeterministicType(text[q[1]], text[q[2]]) # <<>>}}

\* In percent, of two sets of words or tags.
jaccardScore(l, r) ==
    IF l \cap r = {} THEN 0 ELSE (100 * Cardinality(l \cap r)) \div Cardinality(l \cup r)

\* One question contains the other, in whichever order (as sets of words here).
inferSemanticRelation(l, r) ==
    IF l.words \subseteq r.words \/ r.words \subseteq l.words THEN "implies" ELSE "complementary"

buildSemanticAugmentationEdges(markets, text) ==
    LET overlap(p) == jaccardScore(text[p[1]].words, text[p[2]].words)
    IN  {Relation(p[1], p[2], inferSemanticRelation(text[p[1]], text[p[2]]),
                  Min({80, 50 + (40 * overlap(p)) \div 100})) :
           p \in {q \in markets \X markets :
                    /\ q[1] < q[2]
                    /\ SharedCategory(text[q[1]], text[q[2]])
                    /\ overlap(q) >= 35}}

-----------------------------------------------------------------------------
(* Merging and filtering *)

\* Of the relations with one key, the surest.
Surest(edges) ==
    {e \in edges : \A f \in edges :
       dependencyEdgeKey(f) = dependencyEdgeKey(e) => f.confidence <= e.confidence}

\* A catalog as the batch job writes it.
buildDependencyRelationCatalogEntries(markets, text, semanticEnabled) ==
    Surest(extractDeterministicDependencyEdges(markets, text)
             \cup IF semanticEnabled THEN buildSemanticAugmentationEdges(markets, text) ELSE {})

\* Entries that name one market twice, or no known relation, are malformed.
normalizeCatalogFields(raw) ==
    {[e EXCEPT !.confidence = clampDependencyConfidence(@)] :
       e \in {f \in raw : f.a # f.b /\ f.type \in Range(RelationTypes)}}

loadDependencyRelationCatalog(raw) == {withSortedMarkets(e) : e \in normalizeCatalogFields(raw)}

TypeRank(type) == CHOOSE i \in DOMAIN RelationTypes : RelationTypes[i] = type

\* The surest first; the order the code finds equals in is that of their markets here.
Before(e, f) ==
    \/ e.confidence > f.confidence
    \/ /\ e.confidence = f.confidence
       /\ \/ e.a < f.a
          \/ e.a = f.a /\ e.b < f.b
          \/ e.a = f.a /\ e.b = f.b /\ TypeRank(e.type) < TypeRank(f.type)

\* Taken in order, while neither market has its number already.
Capped(sorted, perMarket, total) ==
    FoldLeft(LAMBDA taken, e :
               IF /\ Cardinality(taken) < total
                  /\ \A m \in Ends(e) : Cardinality({f \in taken : m \in Ends(f)}) < perMarket
               THEN taken \cup {e} ELSE taken,
             {}, sorted)

\* Those that are sure enough, the surest first, up to the cap of each market.
applyPolicyFilters(edges, minConfidence, maxPerMarket) ==
    Capped(SetToSortSeq({e \in edges : e.confidence >= minConfidence}, Before),
           Max({1, maxPerMarket}), Cardinality(edges))

resolveCatalogEdges(catalog, markets, policy) ==
    IF ~policy.relationCatalogEnabled THEN {}
    ELSE applyPolicyFilters({e \in catalog : Ends(e) \subseteq markets},
                            policy.relationCatalogMinConfidence,
                            policy.relationCatalogMaxEdgesPerMarket)

\* What the code knows without asking anyone.
StaticEdges(markets, text, catalog, policy) ==
    Surest(extractDeterministicDependencyEdges(markets, text)
             \cup resolveCatalogEdges(catalog, markets, policy))

\* The relations of the model that are about these markets; the surest of each key.
sanitizeEdges(raw, markets) ==
    Surest(loadDependencyRelationCatalog({e \in raw : Ends(e) \subseteq markets}))

\* Both sources must agree, unless one of them has nothing to say.
Consensus(static, llm) ==
    IF static = {} \/ llm = {} THEN static \cup llm
    ELSE {[p[1] EXCEPT !.confidence = (@ + p[2].confidence) \div 2] : p \in
            {q \in static \X llm : dependencyEdgeKey(q[1]) = dependencyEdgeKey(q[2])}}

mergeEdges(static, llm, policy) ==
    CASE policy.fwDependencyMode = "deterministic" -> static
      [] policy.fwDependencyMode = "llm" -> llm
      [] policy.fwDependencyHybridMerge = "consensus" -> Consensus(static, llm)
      [] OTHER -> Surest(static \cup llm)

-----------------------------------------------------------------------------
(* The language model *)

\* A call is [status, text, edges]: how it ended, and the output if there is one.
deriveOutputReason(call) ==
    CASE call.text = "valid" -> "ok"
      [] call.text = "invalid" -> "invalid_output"
      [] call.status = "timeout" -> "llm_timeout"
      [] call.status = "disabled" -> "llm_disabled"
      [] call.status = "circuit_open" -> "llm_fallback_circuit_open"
      [] call.status = "error" -> "llm_error"
      [] OTHER -> "missing_output_text"

\* Which reasons make the resolver wait, and for how long.
backoffDurationForReason(reason, policy) ==
    CASE reason \in {"invalid_output", "missing_output_text", "invalid_extractor_output"} ->
           policy.fwDependencyBackoffInvalidMs
      [] reason = "llm_timeout" -> policy.fwDependencyBackoffTimeoutMs
      [] reason \in {"llm_circuit_backoff", "llm_error", "llm_fallback_circuit_open"} ->
           policy.fwDependencyBackoffErrorMs
      [] OTHER -> 0

-----------------------------------------------------------------------------
(* Cohorts *)

CONSTANTS
    CohortMinMarkets,     \* FW_COHORT_MIN_MARKETS
    CohortMinDensity      \* FW_COHORT_MIN_DENSITY, in percent

AsGraph(markets, edges) ==
    [node |-> markets, edge |-> {<<e.a, e.b>> : e \in edges} \cup {<<e.b, e.a>> : e \in edges}]

\* The markets one can reach from m.
CollectComponent(m, connected, markets) == {n \in markets : connected[m, n]}

Components(markets, connected) == {CollectComponent(m, connected, markets) : m \in markets}

buildDependencyCohortComponents(markets, text) ==
    LET edges == extractDeterministicDependencyEdges(markets, text)
        connected == ConnectionsIn(AsGraph(markets, edges))
    IN  {c \in Components(markets, connected) :
           Cardinality(c) >= CohortMinMarkets /\ Cardinality(c) > 1}

\* In percent, of the pairs of its markets that are related.
Density(cohort, edges) ==
    LET n == Cardinality(cohort)
    IN  (200 * Cardinality({e \in edges : Ends(e) \subseteq cohort})) \div (n * (n - 1))

\* The score adds a fifth for the freshness of the books to four fifths of the density, so
\* any cohort may win whose density is within a quarter of the densest.
MayBeSelected(cohorts, edges) ==
    {c \in cohorts : \A d \in cohorts : 80 * Density(c, edges) + 2000 > 80 * Density(d, edges)}

\* The universes selectFwUniversePairs may choose.
Universes(markets, text, policy) ==
    LET cohorts == buildDependencyCohortComponents(markets, text)
        edges == extractDeterministicDependencyEdges(markets, text)
    IN  IF policy.fwUniverseMode # "dependency_cohort" \/ cohorts = {} THEN {markets}
        ELSE {IF Density(c, edges) < CohortMinDensity THEN markets ELSE c :
                c \in MayBeSelected(cohorts, edges)}
=============================================================================

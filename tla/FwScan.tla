-------------------------------- MODULE FwScan --------------------------------
(***************************************************************************)
(* Scans of the whole universe: the supervisor that starts them (src/src/  *)
(* core/Supervisor.ts), the resolver of dependencies with its cache and    *)
(* its waits (src/src/agents/dependency/), the loop that asks the oracle   *)
(* (src/src/agents/projection/), and the oracle's circuit (src/src/        *)
(* services/ip-oracle/IpOracleClient.ts).                                  *)
(*                                                                         *)
(* Time is kept as ticks: since something happened, up to Far, or left     *)
(* until it may happen again.  A scan works on the books of its start and  *)
(* takes its start for the present until it ends: what it writes into the  *)
(* cache, the waits and the circuit is already as old as the scan.         *)
(***************************************************************************)
EXTENDS Projection
LOCAL INSTANCE SequencesExt

CONSTANTS
    FwMarkets, Text,      \* the markets of the catalog and what their questions say
    Opening,              \* the pair of books a market has at first, <<>> if none
    Quotes,               \* the pairs of books an update of a market may bring
    FwPolicies,           \* the policies the process may run with
    Catalog,              \* the relations of the relation catalog
    Calls,                \* how a call of the language model may end
    MinInterval,          \* fwScanMinIntervalMs
    CircuitThreshold, CircuitCooldown, LlmCooldown,
    MaxScanAge,           \* bound: a scan lasts no longer, all its requests are timed
    MaxUpdates            \* bound: how many updates the markets send

\* The schema of the settings takes whole numbers from 1 to 32 for the limit on requests, and
\* from 1 to 200 for the iterations of the loop.  Ticks are counted.
ASSUME ScanAssumption ==
    /\ \A p \in FwPolicies : {p.fwOracleMaxConcurrency, p.fwMaxIterations} \subseteq Nat
    /\ DOMAIN Opening = FwMarkets
    /\ {MinInterval, CircuitCooldown, MaxScanAge, MaxUpdates} \subseteq Nat

VARIABLES
    fwPolicy,
    fwBooks,              \* the pair of books of each market
    updates,              \* bound: how many may still come
    supervising,          \* started
    unseen,               \* an update came after the last scan had taken its books
    inFlight, pending,    \* fwScanInFlight, fwScanPending
    deferred,             \* fwDeferredScanTimer: the ticks left, or NoTimer
    sinceStart,           \* ticks since lastFwScanStartedAtMs
    scan,                 \* the scan that runs
    cache,                \* llmCache, the least recently used first
    resolverWait,         \* ticks until llmBackoffUntilMs
    extractorWait,        \* ticks until circuitBackoffUntilMs
    circuit,              \* of the oracle: [failures, opened]
    slots,                \* inFlightOracleRequests
    outcome               \* what the last scan came to: [reason, type, bounds of the legs]

scanVars == <<fwPolicy, fwBooks, updates, supervising, unseen, inFlight, pending, deferred,
              sinceStart, scan, cache, resolverWait, extractorWait, circuit, slots, outcome>>

coalescing == <<supervising, inFlight, pending, deferred, sinceStart>>
resolving == <<cache, resolverWait, extractorWait>>

\* Ages beyond this one are alike: every limit on an age is below it.
Far == CircuitCooldown + MaxScanAge
NoTimer == -1
Shut == Far + 1
NothingFound == [reason |-> "none", type |-> "none", bounds |-> {}]

NoScan == [stage |-> "idle", age |-> 0, universe |-> {}, books |-> <<>>, cached |-> {},
           status |-> "none", edges |-> {}, entries |-> <<>>, loopAge |-> 0, iteration |-> 0,
           stalls |-> 0, contractions |-> 0]

\* A scan that has started or resolved goes on in the same turn, before anything else runs.
Stages == {"idle", "started", "asking", "resolved", "solving"}
TurnOver == scan.stage \notin {"started", "resolved"}

\* How many answers of the oracle a scan may have had.
Iterations == UNION {0 .. IF p.fwMaxIterations > 1 THEN p.fwMaxIterations ELSE 1 : p \in FwPolicies}

ScanTypeOK ==
    /\ fwPolicy \in FwPolicies
    /\ DOMAIN fwBooks = FwMarkets
    /\ updates \in 0 .. MaxUpdates
    /\ {supervising, unseen, inFlight, pending} \subseteq BOOLEAN
    /\ deferred \in {NoTimer} \cup 0 .. MinInterval
    /\ sinceStart \in 0 .. MinInterval
    /\ scan.stage \in Stages /\ scan.age \in 0 .. MaxScanAge /\ scan.iteration \in Iterations
    /\ circuit.failures \in Nat /\ circuit.opened \in 0 .. Shut
    /\ slots \in Nat

ScanInit ==
    /\ fwPolicy \in FwPolicies
    /\ fwBooks = Opening
    /\ updates = MaxUpdates
    /\ supervising = TRUE
    /\ unseen = FALSE /\ inFlight = FALSE /\ pending = FALSE
    /\ deferred = NoTimer
    /\ sinceStart = MinInterval
    /\ scan = NoScan
    /\ cache = <<>>
    /\ resolverWait = 0 /\ extractorWait = 0
    /\ circuit = [failures |-> 0, opened |-> Shut]
    /\ slots = 0
    /\ outcome = NothingFound

AtMost(a, b) == IF a < b THEN a ELSE b
AtLeast(a, b) == IF a > b THEN a ELSE b

\* What is left of a wait of this length that counts from the start of the scan.
Left(wait) == AtLeast(0, wait - scan.age)
-----------------------------------------------------------------------------
(* When a scan starts *)

\* A timer that is set already stays as it is.
scheduleDeferredFwScan(delay) == IF deferred = NoTimer THEN delay ELSE deferred

StartScan(books, universe) ==
    /\ scan' = [NoScan EXCEPT !.stage = "started", !.universe = universe, !.books = books]
    /\ sinceStart' = 0
    /\ inFlight' = TRUE
    /\ unseen' = FALSE
    /\ outcome' = NothingFound
    /\ UNCHANGED pending

\* scanFwUniverseCoalesced.  timer is what becomes of the timer when it is not set again.
Coalesced(books, timer) ==
    IF inFlight
    THEN /\ pending' = TRUE /\ unseen' = TRUE
         /\ deferred' = timer
         /\ UNCHANGED <<scan, sinceStart, inFlight, outcome>>
    ELSE IF sinceStart < MinInterval
    THEN /\ pending' = TRUE /\ unseen' = TRUE
         /\ deferred' = IF timer = NoTimer THEN MinInterval - sinceStart ELSE timer
         /\ UNCHANGED <<scan, sinceStart, inFlight, outcome>>
    ELSE /\ \E universe \in Universes(FwMarkets, Text, fwPolicy) : StartScan(books, universe)
         /\ deferred' = timer

\* A quote arrives: its books are as old as this moment.
Quoted(quote, previous) ==
    [side \in {1, 2} |->
       [quote[side] EXCEPT
          !.lastUpdateMs = 0,
          !.stableSinceMs = IF previous # <<>> /\ SameTop(quote[side], previous[side])
                            THEN previous[side].stableSinceMs ELSE 0]]

\* handleMarketUpdated, after the scan of the pair.
FwMarketUpdated(m, quote) ==
    /\ updates > 0 /\ supervising /\ TurnOver
    /\ updates' = updates - 1
    /\ fwBooks' = [fwBooks EXCEPT ![m] = Quoted(quote, @)]
    /\ Coalesced(fwBooks', deferred)
    /\ UNCHANGED <<fwPolicy, supervising, resolving, circuit, slots>>

\* runDeferredFwScan
DeferredFwScan ==
    /\ deferred = 0 /\ TurnOver
    /\ Coalesced(fwBooks, NoTimer)
    /\ UNCHANGED <<fwPolicy, fwBooks, updates, supervising, resolving, circuit, slots>>

\* Mutant of AfterScan: what came during the scan is forgotten with it.
AfterScanOnly ==
    /\ inFlight' = FALSE
    /\ pending' = FALSE
    /\ UNCHANGED deferred

\* The scan is over, however it ended.
AfterScan ==
    /\ inFlight' = FALSE
    /\ pending' = FALSE
    /\ deferred' = IF pending THEN scheduleDeferredFwScan(MinInterval) ELSE deferred

EndScan(reason, opportunity) ==
    /\ AfterScan
    /\ scan' = NoScan
    /\ outcome' = [reason |-> reason, type |-> opportunity.type,
                   bounds |-> {leg.edgeLowerBound : leg \in opportunity.legs}]

Rejected(reason) == EndScan(reason, NoOpportunity)

\* stop.  A scan that runs goes on, and clears the flags once more when it ends.
StopSupervising ==
    /\ supervising /\ TurnOver
    /\ supervising' = FALSE
    /\ deferred' = NoTimer
    /\ pending' = FALSE
    /\ inFlight' = FALSE
    /\ UNCHANGED <<fwPolicy, fwBooks, updates, unseen, sinceStart, scan, cache, resolverWait,
                   extractorWait, circuit, slots, outcome>>

-----------------------------------------------------------------------------
(* The dependencies of the universe *)

Static == StaticEdges(scan.universe, Text, Catalog, fwPolicy)

\* mergeEdges and applyPolicyFilters on what the model said; then on with the scan.
Resolved(llm) ==
    scan' = [scan EXCEPT !.stage = "resolved", !.cached = {}, !.status = "none",
                         !.edges = applyPolicyFilters(mergeEdges(Static, llm, fwPolicy),
                                                      fwPolicy.fwDependencyMinConfidence,
                                                      fwPolicy.fwDependencyMaxEdgesPerMarket)]

Kept(universe) == {i \in DOMAIN cache : cache[i].universe = universe}

WithoutKey(entries, universe) == SelectSeq(entries, LAMBDA c : c.universe # universe)

\* readCachedEdges: what the cache has, if it is not too old even for its grace.
Cached(universe) ==
    {cache[i] : i \in {j \in Kept(universe) :
       cache[j].age <= fwPolicy.fwDependencyCacheTtlMs + fwPolicy.fwDependencyCacheGraceMs}}

\* An entry that was read is the latest used; one that is too old is deleted.
Touched(found, universe) ==
    WithoutKey(cache, universe) \o SetToSeq(found)

Fresh(found) == \E c \in found : c.age <= fwPolicy.fwDependencyCacheTtlMs

\* When the model says nothing: what the cache has, else the static relations in its place.
Fallback(found) ==
    IF found # {} THEN UNION {c.edges : c \in found}
    ELSE IF fwPolicy.fwDependencyMode = "llm" THEN Static ELSE {}

\* writeCachedEdges: the least recently used go when there are too many.
Written(universe, edges) ==
    LET all == WithoutKey(cache, universe)
                 \o <<[universe |-> universe, edges |-> edges, age |-> scan.age]>>
        excess == AtLeast(0, Len(all) - AtLeast(1, fwPolicy.fwDependencyCacheMaxEntries))
    IN  SubSeq(all, excess + 1, Len(all))

\* The mode asks no model: resolve returns without waiting.
ResolveStatically ==
    /\ scan.stage = "started" /\ fwPolicy.fwDependencyMode = "deterministic"
    /\ Resolved({})
    /\ UNCHANGED <<fwPolicy, fwBooks, updates, coalescing, unseen, resolving, circuit, slots,
                   outcome>>

\* The cache answers, fresh or because the resolver is waiting.
ResolveFromCache ==
    \E found \in {Cached(scan.universe)} :
      /\ scan.stage = "started" /\ fwPolicy.fwDependencyMode # "deterministic"
      /\ resolverWait > 0 \/ Fresh(found)
      /\ cache' = Touched(found, scan.universe)
      /\ Resolved(Fallback(found))
      /\ UNCHANGED <<fwPolicy, fwBooks, updates, coalescing, unseen, resolverWait, extractorWait,
                     circuit, slots, outcome>>

\* The extractor does not call for a single market, nor while the model's circuit is open.
ExtractorStatus ==
    IF Cardinality(scan.universe) < 2 THEN "insufficient_markets"
    ELSE IF extractorWait > 0 THEN "llm_circuit_backoff"
    ELSE "calling"

\* The model is asked; what the cache had is kept for the case that it fails.
AskModel ==
    \E found \in {Cached(scan.universe)} :
      /\ scan.stage = "started" /\ fwPolicy.fwDependencyMode # "deterministic"
      /\ resolverWait = 0 /\ ~Fresh(found)
      /\ cache' = Touched(found, scan.universe)
      /\ scan' = [scan EXCEPT !.stage = "asking", !.cached = found,
                               !.status = ExtractorStatus]
      /\ UNCHANGED <<fwPolicy, fwBooks, updates, coalescing, unseen, resolverWait, extractorWait,
                     circuit, slots, outcome>>

ReasonOf(call) == IF scan.status = "calling" THEN deriveOutputReason(call) ELSE scan.status

\* The extractor has an answer.  One that is neither an output nor a failure counts as an
\* answer without relations, and is cached as such.
Answered(reason, edges) ==
    LET wait == backoffDurationForReason(reason, fwPolicy)
    IN  /\ scan.stage = "asking"
        /\ IF wait > 0
           THEN /\ resolverWait' = Left(wait)
                /\ Resolved(Fallback(scan.cached))
                /\ UNCHANGED cache
           ELSE /\ resolverWait' = 0
                /\ Resolved(edges)
                /\ cache' = Written(scan.universe, edges)
        /\ extractorWait' = CASE reason = "llm_fallback_circuit_open" -> Left(LlmCooldown)
                              [] reason = "ok" -> 0
                              [] OTHER -> extractorWait

ModelAnswers(call) ==
    /\ \E reason \in {ReasonOf(call)} :
         Answered(reason, IF reason = "ok" THEN sanitizeEdges(call.edges, scan.universe) ELSE {})
    /\ UNCHANGED <<fwPolicy, fwBooks, updates, coalescing, unseen, circuit, slots, outcome>>
-----------------------------------------------------------------------------
(* The loop and its oracle *)

\* isCircuitOpen, at the start of the scan.
CircuitOpen == circuit.opened # Shut /\ circuit.opened - scan.age < CircuitCooldown

\* A circuit that has cooled down forgets its failures when it is asked.
CircuitAsked ==
    IF circuit.opened # Shut /\ ~CircuitOpen THEN [failures |-> 0, opened |-> Shut] ELSE circuit

NoSlot == slots >= AtLeast(1, fwPolicy.fwOracleMaxConcurrency)

\* A request goes out, or is answered at once because there is no slot or no circuit.
Ask(entries, iteration) ==
    /\ scan' = [scan EXCEPT !.stage = "solving", !.entries = entries, !.iteration = iteration,
                            !.loopAge = IF iteration = 0 THEN scan.age ELSE @]
    /\ slots' = slots + 1
    /\ circuit' = CircuitAsked
    /\ UNCHANGED <<inFlight, pending, deferred, outcome>>

\* Mutant of Release: only an answer gives the slot back.
ReleaseWhenSolved(answer) == slots' = IF answer = "solved" THEN slots - 1 ELSE slots

\* The slot is given back however the request ended.
Release(answer) == slots' = AtLeast(0, slots - 1)

\* The scan ends before or with its first request.
TurnedAway(reason, circuitState) ==
    /\ Rejected(reason)
    /\ circuit' = circuitState
    /\ UNCHANGED slots

\* projectUniverse, once the dependencies are known, up to the first request.
Project ==
    /\ scan.stage = "resolved"
    /\ \E entries \in {buildProjectionUniverse(scan.universe, scan.books, scan.edges, Text,
                                               fwPolicy, 0)} :
         IF DOMAIN entries = {} THEN TurnedAway("no_markets_with_books", circuit)
         ELSE IF NoSlot THEN TurnedAway("oracle_concurrency_limited", circuit)
         ELSE IF CircuitOpen THEN TurnedAway("circuit_open", circuit)
         ELSE Ask(entries, 0)
    /\ UNCHANGED <<fwPolicy, fwBooks, updates, supervising, sinceStart, unseen, resolving>>

\* solve, in both attempts: resetCircuit and recordFailure.  A circuit that opens has been
\* open since the start of the scan.
CircuitAfter(answer) ==
    IF answer # "failed" THEN [failures |-> 0, opened |-> Shut]
    ELSE [failures |-> circuit.failures + 1,
          opened |-> IF circuit.failures + 1 >= CircuitThreshold THEN scan.age ELSE circuit.opened]

\* What an iteration of the loop comes to: the gap is small, the objective falls, or it
\* does not.
Verdicts == IF scan.iteration = 0 THEN {"descent"} ELSE {"converged", "descent", "stall"}

Stalls(verdict) == IF verdict = "stall" THEN scan.stalls + 1 ELSE 0
StalledOut(verdict) == Stalls(verdict) >= fwPolicy.fwStallIterationLimit

\* Why the loop ends after an iteration; "none" while it goes on.  The contraction shrinks
\* after as many stalls as are allowed, and can do so a number of times only.
Terminal(verdict) ==
    CASE verdict = "converged" -> "gap_converged"
      [] StalledOut(verdict) /\ scan.contractions + 1 >= fwPolicy.fwContractions ->
           "contraction_floor"
      [] scan.iteration >= AtLeast(1, fwPolicy.fwMaxIterations) -> "max_iterations"
      [] scan.age - scan.loopAge > fwPolicy.fwMaxLoopRuntimeMs -> "runtime_budget"
      [] OTHER -> "none"

\* The iterates the loop may hold: an assignment of the oracle, or, once an iteration is
\* complete, one drawn towards the middle.
Points(entries, edges, iterated) ==
    LET markets == DOMAIN entries
        weigh(ones, high, low) == [m \in markets |-> IF m \in ones THEN high ELSE low]
        feasible == FeasibleAssignments(markets, edges)
    IN  {weigh(ones, 100, 0) : ones \in feasible}
          \cup IF iterated THEN {weigh(ones, 90, 10) : ones \in feasible} ELSE {}

\* The last part of projectUniverse: what becomes of the iterate.
Found(candidates, executable) ==
    IF candidates = {} THEN Rejected("no_positive_lower_bound")
    ELSE IF executable = {} THEN Rejected("no_executable_candidates")
    ELSE EndScan("announced", Announced(executable, fwPolicy))

Candidates(candidates, converged) ==
    Found(candidates,
          filterExecutableBasketCandidates(candidates, scan.books, fwPolicy, 0, converged))

Concluded(terminal, point) ==
    LET converged == terminal = "gap_converged"
    IN  IF ~converged /\ fwPolicy.fwRequireConverged THEN Rejected("projection_requires_converged")
        ELSE IF ~converged /\ \A m \in DOMAIN point : point[m] = 0
        THEN Rejected(mapNonConvergedReason(terminal))
        ELSE Candidates(buildCandidatesFromIterate(scan.entries, point, fwPolicy), converged)

\* Whether an iteration is complete: the first answer only starts them, and one that is
\* missing completes none.
Iterated(terminal) == scan.iteration > IF terminal = "oracle_unavailable" THEN 1 ELSE 0

Conclude(terminal) ==
    \E point \in Points(scan.entries, scan.edges, Iterated(terminal)) : Concluded(terminal, point)

\* The loop goes on: the slot is given back and taken again in the same turn.
Iterate(verdict) ==
    /\ scan' = [scan EXCEPT !.iteration = @ + 1,
                            !.stalls = IF StalledOut(verdict) THEN 0 ELSE Stalls(verdict),
                            !.contractions = IF StalledOut(verdict) THEN @ + 1 ELSE @]
    /\ UNCHANGED <<inFlight, pending, deferred, slots, outcome>>

Concludes(terminal, answer) == Conclude(terminal) /\ Release(answer)

\* The first answer is the iterate the loop starts from.
FirstAnswer(answer) ==
    IF answer # "solved" THEN Rejected("oracle_unavailable") /\ Release(answer)
    ELSE IF scan.age - scan.loopAge > fwPolicy.fwMaxLoopRuntimeMs
    THEN Concludes("runtime_budget", answer)
    ELSE Iterate("descent")

LaterAnswer(answer, terminal, verdict) ==
    IF answer # "solved" THEN Concludes("oracle_unavailable", answer)
    ELSE IF terminal # "none" THEN Concludes(terminal, answer)
    ELSE Iterate(verdict)

\* The oracle answers, finds no solution, or fails in both attempts.
OracleAnswers(answer, verdict) ==
    /\ scan.stage = "solving"
    /\ circuit' = CircuitAfter(answer)
    /\ IF scan.iteration = 0 THEN FirstAnswer(answer)
                             ELSE LaterAnswer(answer, Terminal(verdict), verdict)
    /\ UNCHANGED <<fwPolicy, fwBooks, updates, supervising, sinceStart, unseen, resolving>>

-----------------------------------------------------------------------------
(* Time *)

Older(book) == [book EXCEPT !.lastUpdateMs = AtLeast(- Far, @ - 1),
                            !.stableSinceMs = AtLeast(- Far, @ - 1)]

CountedDown(n) == IF n > 0 THEN n - 1 ELSE n

\* A scan whose requests have used their time ends before the clock goes on.  Nothing more
\* happens once the supervisor has stopped and the last scan is over.
ScanTick ==
    /\ TurnOver
    /\ supervising \/ scan.stage # "idle"
    /\ scan.stage # "idle" => scan.age < MaxScanAge
    /\ fwBooks' = [m \in FwMarkets |-> [i \in DOMAIN fwBooks[m] |-> Older(fwBooks[m][i])]]
    /\ deferred' = CountedDown(deferred)
    /\ sinceStart' = AtMost(MinInterval, sinceStart + 1)
    /\ scan' = IF scan.stage = "idle" THEN scan ELSE [scan EXCEPT !.age = @ + 1]
    /\ cache' = [i \in DOMAIN cache |-> [cache[i] EXCEPT !.age = AtMost(Far, @ + 1)]]
    /\ resolverWait' = CountedDown(resolverWait)
    /\ extractorWait' = CountedDown(extractorWait)
    /\ circuit' = [circuit EXCEPT !.opened = IF @ = Shut THEN @ ELSE AtMost(Far, @ + 1)]
    /\ UNCHANGED <<fwPolicy, updates, supervising, unseen, inFlight, pending, slots, outcome>>

Resolves == ResolveStatically \/ ResolveFromCache \/ AskModel
ModelAnswered == \E call \in Calls : ModelAnswers(call)
OracleAnswered ==
    \/ \E verdict \in Verdicts : OracleAnswers("solved", verdict)
    \/ \E answer \in {"infeasible", "failed"} : OracleAnswers(answer, "stall")

ScanNext ==
    \/ \E m \in FwMarkets : \E quote \in Quotes[m] : FwMarketUpdated(m, quote)
    \/ DeferredFwScan
    \/ StopSupervising
    \/ Resolves
    \/ ModelAnswered
    \/ Project
    \/ OracleAnswered
    \/ ScanTick

ScanSpec == ScanInit /\ [][ScanNext]_scanVars

-----------------------------------------------------------------------------
(* Properties *)

\* An update is never forgotten: a scan that starts after it takes the books with it, however
\* the throttle, the timer and a scan that is running meet.
UpdatesGetScanned == unseen ~> (~unseen \/ ~supervising)

\* No scan is turned away by the limit on concurrent requests: scans do not overlap, and an
\* earlier one has given back its slot, whatever became of its requests.
NeverCrowdedOut == outcome.reason # "oracle_concurrency_limited"

\* Every leg that is announced passes the threshold with the bound it carries, which is not
\* the bound it was selected by.
NoWeakLegAnnounced ==
    \A bound \in outcome.bounds : ~(bound < fwPolicy.fwMinEdgeThreshold)
=============================================================================

--------------------------- MODULE DecisionPipeline ---------------------------
(***************************************************************************)
(* From a market update to the orders: the scanner (src/src/agents/        *)
(* scanner/), the supervisor's handlers (src/src/core/Supervisor.ts), risk *)
(* and its advisor, the gates at admission, the preflight, and the         *)
(* portfolio the next decision is taken on.                                *)
(*                                                                         *)
(* A job is one opportunity on its way.  It waits for the prioritisation   *)
(* or the projection ("ordering"), for the advisor ("sizing") and for its  *)
(* execution ("executing"); whatever the others do happens meanwhile.  A   *)
(* basket executes as a batch, or pair by pair with an await for each.     *)
(* Circuits and the reservation of capital are the subject of Admission.   *)
(***************************************************************************)
EXTENDS PairScan, RiskSizing, Preflight
LOCAL INSTANCE FiniteSetsExt

CONSTANTS
    Jobs,            \* bound: opportunities on their way at once
    Markets,         \* each with two tokens, <<market, "yes">> and <<market, "no">>
    Policies,        \* the trade policies the process may run with
    Risk,            \* the risk configuration, with the notional caps
    Fee,             \* the taker fee of one leg
    Snapshots,       \* the raw books the venue may send
    Insights,        \* [value, confidence, ttl]: what learning and web search may say
    Projections,     \* the results the projection may give, without their age
    Recommended,     \* the sizes the advisor may recommend
    TotalCapital,
    MaxChanges,      \* bound: changes of books, insights, mode and channel, and FW scans
    MaxTime          \* bound: the clock stops here

\* The policy is validated against its schema: these settings are whole and not negative.
ASSUME PipelineAssumption ==
    /\ IsFiniteSet(Markets) /\ IsFiniteSet(Jobs)
    /\ TotalCapital \in Nat /\ MaxTime \in Nat /\ MaxChanges \in Nat
    /\ \A p \in Policies :
         {p.evCooldownMs, p.maxOrdersPerMinute, p.orderVelocityWindowMs} \subseteq Nat

\* Prices, sizes, amounts and limits are whole numbers of their smallest unit; the
\* configuration bounds the tolerated slippage from below, and a size that the advisor
\* recommends is a number of any kind.
ASSUME NumbersAssumption ==
    /\ Markets # {} /\ Recommended \subseteq Int
    /\ \A p \in Policies : /\ p.entrySlippageToleranceBps \in Nat
                           /\ {p.edgeRequired, p.depthHeadroomPct} \subseteq Int
    /\ \A raw \in Snapshots :
         /\ IsFiniteSet(DOMAIN raw.asks) /\ DOMAIN raw.asks \subseteq Int
         /\ \A p \in DOMAIN raw.asks : raw.asks[p] \in Int
         /\ {raw.tickSize, raw.minOrderSize} \subseteq Int
    /\ {Risk.fallbackTickSize, Risk.maxUnwindLossTicks, Risk.maxMarketExposurePct,
        Risk.targetTradePct, Risk.maxTradePct, Risk.maxAttemptLossPct, Risk.depthBufferPct,
        Risk.maxUnwindLossPct, Risk.maxPerTradeLoss, Risk.dailyLossLimitPct,
        Risk.evMaxPerMarketNotional, Risk.evMaxPortfolioNotional,
        Risk.fwMaxPerMarketNotional, Risk.fwMaxPortfolioNotional} \subseteq Int

VARIABLES
    policy,          \* the policy in force
    mode,            \* tradingMode
    channel,         \* the state of the user channel
    now,
    books,           \* the order book of each token
    insights,        \* insightsByMarketId
    lastEvAt,        \* lastEvOpportunityAt
    jobs,
    exposure,        \* marketExposure of the portfolio
    openSince,       \* since when a market holds less than whole sets
    progress,        \* of each execution: the time it was started with, and the pairs of a basket
    window,          \* the metrics store: all order attempts, and the counters of each market
    changes          \* bound: how many of these may still come

vars == <<policy, mode, channel, now, books, insights, lastEvAt, jobs, exposure, openSince,
          progress, window, changes>>

Tokens == Markets \X {"yes", "no"}
Times == 0 .. MaxTime
Never == MaxTime + 1

Stages == {"idle", "ordering", "sizing", "executing"}
IdleJob == [stage |-> "idle", opp |-> Nothing, size |-> 0]

TradingModes == {"off", "shadow", "paper", "live"}

\* What an execution awaits: the orders of one trade, the answer to a batch, the orders of
\* one pair of a basket, or the orders that sell its earlier pairs.
Phases == {"none", "trade", "batch", "pair", "unwinding"}
NoProgress == [phase |-> "none", nowMs |-> 0, pair |-> Nothing, left |-> {}, traded |-> {}]

TypeOK ==
    /\ policy \in Policies
    /\ mode \in TradingModes
    /\ channel \in {"connected", "disconnected"}
    /\ now \in Times
    /\ DOMAIN books = Tokens
    /\ \A t \in Tokens : books[t].lastUpdateMs >= books[t].stableSinceMs
    /\ lastEvAt \in [Markets -> Int]
    /\ \A j \in Jobs : jobs[j].stage \in Stages /\ (jobs[j].stage = "idle" <=> jobs[j] = IdleJob)
    /\ exposure \in [Markets -> Nat]
    /\ openSince \in [Markets -> 0 .. Never]
    /\ \A j \in Jobs : /\ progress[j].phase \in Phases /\ progress[j].nowMs \in 0 .. now
                       /\ progress[j].phase # "none" => jobs[j].stage = "executing"
    /\ changes \in 0 .. MaxChanges

\* The process at its start, knowing these books and insights.
StartsWith(known, said) ==
    /\ policy \in Policies
    /\ mode \in TradingModes
    /\ channel = "connected"
    /\ now = 0
    /\ books = known
    /\ insights = said
    /\ lastEvAt = [m \in Markets |-> - policy.evCooldownMs]
    /\ jobs = [j \in Jobs |-> IdleJob]
    /\ exposure = [m \in Markets |-> 0]
    /\ openSince = [m \in Markets |-> Never]
    /\ LET none == [t \in Times |-> 0]
           each == [m \in Markets |-> none]
       IN  window = [attempts |-> <<>>, pruned |-> 0,
                     orders |-> each, fills |-> each, delayed |-> each]
    /\ progress = [j \in Jobs |-> NoProgress]
    /\ changes = MaxChanges

NoInsight == [value |-> NoSignal, confidence |-> 0, expiresAtMs |-> 0]

Init == StartsWith([t \in Tokens |-> NoBook], [m \in Markets |-> NoInsight])

-----------------------------------------------------------------------------
(* Helpers *)

Yes(m) == books[<<m, "yes">>]
No(m) == books[<<m, "no">>]
HasBooks(m) == NoBook \notin {Yes(m), No(m)}

MarketsOf(opp) == {l.marketId : l \in opp.legs}

InFlight == UNION {MarketsOf(jobs[j].opp) : j \in {k \in Jobs : jobs[k].stage = "executing"}}

\* PortfolioAgent.snapshot, on the exposure of each market.
Snapshot ==
    LET deployed == SumOver(Markets, LAMBDA m : exposure[m])
        oldest == Min({openSince[m] : m \in Markets})
    IN  [totalCapital |-> TotalCapital, availableCapital |-> Max({0, TotalCapital - deployed}),
         dailyPnL |-> 0, exposure |-> exposure,
         openInventoryAgeMs |-> IF oldest = Never THEN 0 ELSE now - oldest]

\* A free place for an opportunity; which one does not matter.
Place(opp) ==
    \E j \in Jobs :
      /\ jobs[j].stage = "idle"
      /\ jobs' = [jobs EXCEPT ![j] = [stage |-> "ordering", opp |-> opp, size |-> 0]]

Change == changes > 0 /\ changes' = changes - 1

Advance(j, stage, size) == jobs' = [jobs EXCEPT ![j].stage = stage, ![j].size = size]
Drop(j) == jobs' = [jobs EXCEPT ![j] = IdleJob]

-----------------------------------------------------------------------------
(* Scanning *)

Defaults == [tickSize |-> 1, minOrderSize |-> 1]

\* handleMarketUpdated: the book is replaced, and the pair scanned in the same turn.
ScannedPair(m, yes, no) ==
    IF mode = "off" \/ NoBook \in {yes, no} THEN Nothing
    ELSE evaluateScannerPair(m, yes, no, policy, Fee, getInsight(insights[m], now), lastEvAt[m],
                             now)

Announce(m, found) ==
    /\ IF found = Nothing THEN UNCHANGED jobs ELSE Place(found)
    /\ lastEvAt' = IF found.type = "ev" THEN [lastEvAt EXCEPT ![m] = now] ELSE lastEvAt

MarketUpdated(m, side, raw) ==
    /\ Change
    /\ books' = [books EXCEPT ![<<m, side>>] = normalizeOrderBook(raw, now, Defaults, @)]
    /\ \E found \in {ScannedPair(m, books'[<<m, "yes">>], books'[<<m, "no">>])} : Announce(m, found)
    /\ UNCHANGED <<policy, mode, channel, now, insights, exposure, openSince,
                   progress, window>>

ProjectionAge(m) == now - Min({Yes(m).lastUpdateMs, No(m).lastUpdateMs})

\* The projection works on the books and the time it was started with.
Projected(m, projection) ==
    [projection EXCEPT !.projectionAgeMs = ProjectionAge(m)]

FwScan(m, projection) ==
    LET yes == Yes(m)  no == No(m)
        gate == evaluateFwProjectionGates(yes, no, policy, now, Projected(m, projection), NoSize)
        opp == Opportunity("fw_projection", "none", m, yes, no, gate,
                           Max({yes.minOrderSize, no.minOrderSize}), 0, now)
    IN  /\ Change
        /\ mode # "off" /\ HasBooks(m)
        /\ NoPrice \notin {BestAsk(yes), BestAsk(no)}
        /\ Place([opp EXCEPT !.projection = Projected(m, projection)])
        /\ UNCHANGED <<policy, mode, channel, now, books, insights, lastEvAt, exposure, openSince,
                       progress, window>>

\* A basket of markets; its size and minimum are those of its smallest leg.
FwBasketScan(members, projection) ==
    LET aged == [projection EXCEPT !.projectionAgeMs = Max({ProjectionAge(m) : m \in members})]
        gate(m) == evaluateFwProjectionGates(Yes(m), No(m), policy, now, aged, NoSize)
        leg(m) == [Leg(m, gate(m).costPerSet, gate(m).maxSizeByDepth,
                       Max({Yes(m).minOrderSize, No(m).minOrderSize}),
                       Max({Yes(m).tickSize, No(m).tickSize}))
                     EXCEPT !.edgeLowerBound = projection.edgeLowerBound]
        first == CHOOSE m \in members : TRUE
        opp == Opportunity("fw_basket", "none", first, Yes(first), No(first), gate(first), 1, 0,
                           now)
    IN  /\ Change
        /\ mode # "off"
        /\ members # {} /\ policy.fwBasketMinMarkets <= Cardinality(members)
        /\ Cardinality(members) <= Max({policy.fwBasketMinMarkets, policy.fwBasketMaxMarkets})
        /\ \A m \in members : HasBooks(m) /\ NoPrice \notin {BestAsk(Yes(m)), BestAsk(No(m))}
        /\ Place([opp EXCEPT !.legs = {leg(m) : m \in members}, !.projection = aged,
                             !.edge = projection.edgeLowerBound,
                             !.minOrderSize = Max({leg(m).minOrderSize : m \in members})])
        /\ UNCHANGED <<policy, mode, channel, now, books, insights, lastEvAt, exposure, openSince,
                       progress, window>>

-----------------------------------------------------------------------------
(* Deciding *)

\* emitOrderedOpportunities and the first part of handleOpportunity: the scores of a
\* language model order the opportunities, so any may come next; none is announced in
\* shadow mode.  Risk decides on the portfolio of this moment.
Ordered(j) ==
    LET decision == evaluate(jobs[j].opp, Snapshot, Risk)
    IN  /\ jobs[j].stage = "ordering"
        /\ IF mode # "shadow" /\ decision.approved THEN Advance(j, "sizing", decision.size)
                                                 ELSE Drop(j)
        /\ UNCHANGED <<policy, mode, channel, now, books, insights, lastEvAt, exposure, openSince,
                       progress, window, changes>>

AsBasket(opp) ==
    [markets |-> opp.legs, projectionAgeMs |-> opp.projection.projectionAgeMs,
     edgeLowerBound |-> opp.edge, converged |-> opp.projection.converged]

BooksOf(m) == IF HasBooks(m) THEN <<Yes(m), No(m)>> ELSE <<>>

\* Mutant of GatesOf: the size is not given to the gates of a pair.
GatesOfAnySize(opp, size) ==
    LET yes == Yes(opp.marketId)  no == No(opp.marketId)
    IN  CASE opp.type = "fw_basket" ->
               evaluateFwBasketGates(AsBasket(opp), policy, now, BooksOf, size)
          [] opp.type = "fw_projection" ->
               evaluateFwProjectionGates(yes, no, policy, now, opp.projection, size)
          [] opp.type = "ev" ->
               evaluateEvGates(yes, no, policy, now, opp.side, opp.edge, opp.confidence, size)
          [] OTHER -> evaluateGatesWithFees(yes, no, policy, now, NoSize, Fee)

\* The gates again, on the books of this moment and the size that was decided.
GatesOf(opp, size) ==
    LET yes == Yes(opp.marketId)  no == No(opp.marketId)
    IN  CASE opp.type = "fw_basket" ->
               evaluateFwBasketGates(AsBasket(opp), policy, now, BooksOf, size)
          [] opp.type = "fw_projection" ->
               evaluateFwProjectionGates(yes, no, policy, now, opp.projection, size)
          [] opp.type = "ev" ->
               evaluateEvGates(yes, no, policy, now, opp.side, opp.edge, opp.confidence, size)
          [] OTHER -> evaluateGatesWithFees(yes, no, policy, now, size, Fee)

\* The time an execution is started with goes with it (context.nowMs), and so does how far a
\* basket has come.
Started(phase) == [NoProgress EXCEPT !.phase = phase, !.nowMs = now]

Continue(j, size, p) == Advance(j, "executing", size) /\ progress' = [progress EXCEPT ![j] = p]
End(j) == Drop(j) /\ progress' = [progress EXCEPT ![j] = NoProgress]

\* What the preflight reads, with the counters w.
State(w, m) ==
    [tradingEnabled |-> mode = "live", tradingMode |-> mode, userChannel |-> channel,
     attempts |-> w.attempts, pruned |-> w.pruned, orders |-> w.orders[m], fills |-> w.fills[m],
     delayed |-> w.delayed[m]]

\* The reason the preflight of a trade gives at nowMs on the books it was handed.
Blocked(w, opp, yes, no, nowMs) ==
    runExecutionPreflight(opp, yes, no, policy, State(w, opp.marketId), nowMs)

\* The preflight drops what its window has left behind; what passes is counted in the same
\* turn, at nowMs (recordOrderAttempt).
Attempted(w, opp, reason, nowMs, ofBasket) ==
    LET n == IF reason = "none" THEN PlannedOrders(opp) ELSE 0
    IN  [w EXCEPT !.pruned = PrunedAfter(reason, State(w, opp.marketId), policy, nowMs),
                  !.attempts = @ \o [i \in 1 .. n |-> [at |-> nowMs, ofBasket |-> ofBasket]],
                  !.orders[opp.marketId] = Counted(@, nowMs, n)]

\* createBasketLegOpportunity: a pair of a basket, as old as the basket.
PairOf(opp, leg) == [opp EXCEPT !.type = "fw_projection", !.marketId = leg.marketId]

\* A pair is blocked or fails: the basket ends, once the pairs that traded are sold again.
FailBasket(j, size, p) ==
    IF p.traded = {} THEN End(j) ELSE Continue(j, size, [p EXCEPT !.phase = "unwinding"])

\* The pairs of a basket are tried one by one, in any order, each with a preflight at the time
\* the basket was started with and without books.
TryPair(j, size, p, w) ==
    IF p.left = {} THEN End(j) /\ window' = w
    ELSE \E leg \in p.left :
           LET pair == PairOf(jobs[j].opp, leg)
               reason == Blocked(w, pair, NoBook, NoBook, p.nowMs)
           IN  /\ window' = Attempted(w, pair, reason, p.nowMs, TRUE)
               /\ IF reason = "none"
                  THEN Continue(j, size,
                                [p EXCEPT !.phase = "pair", !.pair = leg, !.left = @ \ {leg}])
                  ELSE FailBasket(j, size, p)

\* Of a basket only the mode is asked before it starts.
StartBasket(j, size) ==
    IF mode # "live" THEN End(j) /\ UNCHANGED window
    ELSE LET p == [Started("batch") EXCEPT !.left = jobs[j].opp.legs]
         IN  IF policy.fwBasketExecutionMode = "batch_best_effort"
             THEN Continue(j, size, p) /\ UNCHANGED window
             ELSE TryPair(j, size, p, window)

StartTrade(j, size) ==
    LET opp == jobs[j].opp
        reason == Blocked(window, opp, Yes(opp.marketId), No(opp.marketId), now)
    IN  /\ window' = Attempted(window, opp, reason, now, FALSE)
        /\ IF reason = "none" THEN Continue(j, size, Started("trade")) ELSE End(j)

\* The advisor has answered: handleRiskApproved, up to the first orders.
Approve(j, recommended) ==
    LET opp == jobs[j].opp
        size == AdvisedSize(opp, jobs[j].size, recommended)
    IN  /\ jobs[j].stage = "sizing"
        /\ CASE MarketsOf(opp) \cap InFlight # {} \/ ~Passed(GatesOf(opp, size))
                   -> End(j) /\ UNCHANGED window
             [] OTHER -> IF opp.type = "fw_basket" THEN StartBasket(j, size)
                                                   ELSE StartTrade(j, size)
        /\ UNCHANGED <<policy, mode, channel, now, books, insights, lastEvAt, exposure,
                       openSince, changes>>

-----------------------------------------------------------------------------
(* Executing *)

\* What a job has paid in a market.
Paid(j, m) ==
    jobs[j].size * SumOver({l \in jobs[j].opp.legs : l.marketId = m}, LAMBDA l : l.costPerSet)

\* The fills of a pair are counted at the time it was started with, one of EV when it was seen,
\* late acknowledgements when they came.
Answered(w, opp, outcome, nowMs, at, n) ==
    [w EXCEPT !.fills[opp.marketId] =
                IF outcome = "traded"
                THEN Counted(@, IF opp.type = "ev" THEN at ELSE nowMs, PlannedOrders(opp)) ELSE @,
              !.delayed[opp.marketId] = IF outcome = "delayed" THEN Counted(@, at, n) ELSE @]

\* A trade has its answer; when it traded, the position is in the portfolio.
Finish(j, outcome, at, n) ==
    LET opp == jobs[j].opp
        p == progress[j]
        uneven(m) == opp.type = "ev" /\ m \in MarketsOf(opp)
    IN  /\ p.phase = "trade" /\ at >= p.nowMs
        /\ End(j)
        /\ window' = Answered(window, opp, outcome, p.nowMs, at, n)
        /\ IF outcome = "traded"
           THEN /\ exposure' = [m \in Markets |-> exposure[m] + Paid(j, m)]
                /\ openSince' = [m \in Markets |-> IF uneven(m) THEN now ELSE openSince[m]]
           ELSE UNCHANGED <<exposure, openSince>>
        /\ UNCHANGED <<policy, mode, channel, now, books, insights, lastEvAt, changes>>

\* A batch was accepted, in whole or in part, and its fills have come: what the basket holds in
\* some of its markets stays.  Its orders and fills are not counted.
BatchEnds(j, held) ==
    /\ progress[j].phase = "batch" /\ held \subseteq MarketsOf(jobs[j].opp)
    /\ End(j)
    /\ exposure' = [m \in Markets |-> IF m \in held THEN exposure[m] + Paid(j, m) ELSE exposure[m]]
    /\ UNCHANGED <<policy, mode, channel, now, books, insights, lastEvAt, openSince, window,
                   changes>>

\* None of a batch was accepted, or it failed: the pairs one by one.
BatchRefused(j) ==
    /\ progress[j].phase = "batch"
    /\ TryPair(j, jobs[j].size, progress[j], window)
    /\ UNCHANGED <<policy, mode, channel, now, books, insights, lastEvAt, exposure, openSince,
                   changes>>

\* A pair of a basket has its answer; the next is tried in the same turn.
PairEnds(j, outcome, at, n) ==
    LET p == progress[j]
        w == Answered(window, PairOf(jobs[j].opp, p.pair), outcome, p.nowMs, at, n)
    IN  /\ p.phase = "pair" /\ at >= p.nowMs
        /\ IF outcome = "traded"
           THEN /\ exposure' = [exposure EXCEPT ![p.pair.marketId] = @ + Paid(j, p.pair.marketId)]
                /\ TryPair(j, jobs[j].size, [p EXCEPT !.traded = @ \cup {p.pair}], w)
           ELSE FailBasket(j, jobs[j].size, p) /\ window' = w /\ UNCHANGED exposure
        /\ UNCHANGED <<policy, mode, channel, now, books, insights, lastEvAt, openSince, changes>>

\* The orders that sell what the earlier pairs bought are answered: in some markets it is sold.
Unwound(j, sold) ==
    LET rest(m) == exposure[m] - Paid(j, m)
    IN  /\ progress[j].phase = "unwinding"
        /\ sold \subseteq {l.marketId : l \in progress[j].traded}
        /\ End(j)
        /\ exposure' = [m \in Markets |-> IF m \in sold THEN Max({0, rest(m)}) ELSE exposure[m]]
        /\ UNCHANGED <<policy, mode, channel, now, books, insights, lastEvAt, openSince, window,
                       changes>>

-----------------------------------------------------------------------------
(* The environment *)

\* learning:insight
Insight(m, i) ==
    /\ Change
    /\ insights' = [insights EXCEPT ![m] = [value |-> i.value, confidence |-> i.confidence,
                                            expiresAtMs |-> now + i.ttl]]
    /\ UNCHANGED <<policy, mode, channel, now, books, lastEvAt, jobs, exposure, openSince,
                       progress, window>>

SetMode(next) ==
    /\ Change /\ next # mode
    /\ mode' = next
    /\ UNCHANGED <<policy, channel, now, books, insights, lastEvAt, jobs, exposure, openSince,
                       progress, window>>

Channel(next) ==
    /\ Change /\ next # channel
    /\ channel' = next
    /\ UNCHANGED <<policy, mode, now, books, insights, lastEvAt, jobs, exposure, openSince,
                       progress, window>>

Tick ==
    /\ now < MaxTime
    /\ now' = now + 1
    /\ UNCHANGED <<policy, mode, channel, books, insights, lastEvAt, jobs, exposure, openSince,
                       progress, window, changes>>

Next ==
    \/ \E m \in Markets, side \in {"yes", "no"}, raw \in Snapshots : MarketUpdated(m, side, raw)
    \/ \E m \in Markets, p \in Projections : FwScan(m, p)
    \/ \E members \in SUBSET Markets, p \in Projections : FwBasketScan(members, p)
    \/ \E j \in Jobs : Ordered(j)
    \/ \E j \in Jobs, r \in Recommended \cup {NoAnswer} : Approve(j, r)
    \/ \E j \in Jobs, o \in {"traded", "delayed", "failed"}, at \in 0 .. now, n \in 1 .. 2 :
         (o # "delayed" => n = 1) /\ (Finish(j, o, at, n) \/ PairEnds(j, o, at, n))
    \/ \E j \in Jobs, held \in SUBSET Markets : BatchEnds(j, held) \/ Unwound(j, held)
    \/ \E j \in Jobs : BatchRefused(j)
    \/ \E m \in Markets, i \in Insights : Insight(m, i)
    \/ \E next \in TradingModes : SetMode(next)
    \/ \E next \in {"connected", "disconnected"} : Channel(next)
    \/ Tick

Spec == Init /\ [][Next]_vars

-----------------------------------------------------------------------------
(* Properties *)

\* Two EV opportunities on one market that are on their way at the same time were found
\* at least a cooldown apart: the update that finds the second has seen the first.
EvSpaced ==
    \A j, k \in Jobs :
      (/\ j # k
       /\ jobs[j].opp.type = "ev" /\ jobs[k].opp.type = "ev"
       /\ jobs[j].opp.marketId = jobs[k].opp.marketId
       /\ jobs[j].opp.detectedAt <= jobs[k].opp.detectedAt)
      => jobs[k].opp.detectedAt - jobs[j].opp.detectedAt >= policy.evCooldownMs

\* What a unit of an order costs: the price of the best level that reaches it.
UnitPrice(asks, unit) == Min({p \in DOMAIN asks : unit <= Ahead(asks, p) + asks[p]})
UnitCosts(asks, size) == SumOver(1 .. size, LAMBDA unit : UnitPrice(asks, unit))

PairInBounds(m, size) ==
    (UnitCosts(Yes(m).asks, size) + UnitCosts(No(m).asks, size)) * 10000
      <= size * (One - policy.edgeRequired) * (10000 + policy.entrySlippageToleranceBps)

\* A pair that starts costs, unit by unit on the books of this moment, at most what the
\* required edge leaves of the payoff, plus the slippage that is tolerated: whatever the
\* books did since it was found and sized, and whatever the advisor made of the size.
NoPairStartsTooDear ==
    [][\A j \in Jobs :
         (/\ jobs[j].opp.type = "near_zero"
          /\ jobs[j].stage = "sizing" /\ jobs'[j].stage = "executing")
           => PairInBounds(jobs[j].opp.marketId, jobs'[j].size)]_vars

\* The orders that pairs and EV trades send within any window of the velocity limit stay
\* within the limit, however the executions interleave and whatever stale times the pairs of
\* baskets mix into the list.  (The orders of baskets do not: those of a batch are not counted
\* at all, and those of its pairs at the time the basket was started with.)
VelocityHeld ==
    LET window_ == policy.orderVelocityWindowMs
        sent(t) == {i \in DOMAIN window.attempts : /\ ~window.attempts[i].ofBasket
                                                   /\ window.attempts[i].at \in t - window_ .. t}
    IN  (policy.maxOrdersPerMinute > 0 /\ window_ > 0)
          => \A t \in 0 .. now : Cardinality(sent(t)) <= policy.maxOrdersPerMinute

\* What EV trades have put into one market stays within the cap per market, when nothing
\* else trades there.
EvMarketCapHeld ==
    Risk.evMaxPerMarketNotional > 0
      => \A m \in Markets : exposure[m] <= Risk.evMaxPerMarketNotional
=============================================================================

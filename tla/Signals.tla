-------------------------------- MODULE Signals --------------------------------
(***************************************************************************)
(* The rounds in which the signal aggregator searches the web for what     *)
(* moves a market (src/src/agents/signal/SignalAggregatorAgent.ts), and    *)
(* the router that decides how (src/src/services/websearch/                *)
(* SearchRouter.ts).                                                       *)
(*                                                                         *)
(* A round selects the markets that are due and then searches for them, a  *)
(* few at a time (src/src/utils/concurrency.ts).  What the questions and   *)
(* the pages say is left out: a search fails, or its results are of one of *)
(* a few kinds.  Expiries are ticks from now, not above zero when passed;  *)
(* a round goes by the time of its start.                                  *)
(***************************************************************************)
EXTENDS Integers, FiniteSets

CONSTANTS
    SignalMarkets,
    MarketLists,                       \* what may be listed, or allowed
    NearResolution, OfficialRelease,   \* classes of markets (classifyMarket)
    SignalPolicies,
    HeartbeatStates,                   \* what the GDELT heartbeat may know of a market
    Refresh, InsightTtl,               \* evWebSearchRefreshMinutes, evWebSearchCacheTtlSeconds
    MaxRoundAge,                       \* bound: a round lasts no longer, its requests are timed;
                                       \* those of an abandoned one end before the next tick
    MaxChanges                         \* bound: changes from outside

VARIABLES
    signalPolicy, polling,   \* policy, started
    pairs, permitted,        \* the markets of marketPairs, and those the allowlist allows
    insight, meta,           \* when the insight and the metadata cached for a market expire
    move,                    \* how old the last big price move of a market is
    untilRound,              \* ticks until the interval fires
    round, strays,           \* the round under way, and what an abandoned one still fetches
    changes

signalVars == <<signalPolicy, polling, pairs, permitted, insight, meta, move, untilRound, round,
                strays, changes>>
environment == <<signalPolicy, polling, pairs, permitted, changes>>

Long == Refresh + MaxRoundAge + 1        \* older than any limit
NoHeartbeat == [known |-> FALSE, spike |-> FALSE, official |-> FALSE]
Heartbeats == {NoHeartbeat} \cup HeartbeatStates
Outcomes == {"failed", "empty", "ambiguous", "clear", "official"}

NoRound == [stage |-> "idle", age |-> 0, workers |-> 1, todo |-> {}, active |-> <<>>,
            pending |-> {}, prepared |-> <<>>]

SignalsInit ==
    /\ signalPolicy \in SignalPolicies /\ polling = TRUE
    /\ pairs = SignalMarkets /\ permitted = SignalMarkets
    /\ insight = [m \in SignalMarkets |-> - MaxRoundAge]
    /\ meta = [m \in SignalMarkets |-> - MaxRoundAge]
    /\ move = [m \in SignalMarkets |-> Long]
    /\ untilRound = 0
    /\ round = NoRound /\ strays = {}
    /\ changes = 0

-----------------------------------------------------------------------------
(* The router *)

BestProvider ==
    IF signalPolicy.serper THEN "serper" ELSE IF signalPolicy.exa THEN "exa" ELSE "skip"

Moved(m) == move[m] - round.age <= Refresh

\* The first case that applies decides on the route and its reason.
decide(m, heartbeat) ==
    LET by(reason) == [route |-> BestProvider, reason |-> reason]
    IN  CASE signalPolicy.providers = "exa_only" ->
               [route |-> IF signalPolicy.exa THEN "exa" ELSE "skip", reason |-> "low_priority"]
          [] m \in NearResolution -> by("near_resolution")
          [] /\ heartbeat.known /\ m \in OfficialRelease
             /\ signalPolicy.officialRequired /\ ~heartbeat.official ->
               by("official_confirmation_missing")
          [] Moved(m) -> by("price_move_unexplained")
          [] /\ heartbeat.known /\ ~heartbeat.spike
             /\ signalPolicy.providers = "gdelt_serper_exa" ->
               [route |-> "skip", reason |-> "no_trigger"]
          [] OTHER -> by(IF heartbeat.known /\ heartbeat.spike
                         THEN "gdelt_spike" ELSE "low_priority")

shouldBypassInsightCache(decision) ==
    decision.route # "skip" /\ decision.reason # "low_priority"

shouldEscalateSerper(m, outcome) ==
    /\ signalPolicy.exa /\ signalPolicy.exaFallback /\ signalPolicy.providers # "serper_only"
    /\ \/ outcome \in {"empty", "ambiguous"}
       \/ signalPolicy.officialRequired /\ m \in OfficialRelease /\ outcome # "official"

-----------------------------------------------------------------------------
(* The schedule *)

shouldRun(policy) == policy.signals /\ (policy.exa \/ policy.serper \/ policy.firecrawl)

\* Nothing happens while a round is under way.
runOnce(policy) ==
    round' = IF round.stage # "idle" \/ ~shouldRun(policy) THEN round
             ELSE [NoRound EXCEPT !.stage = "selecting", !.todo = pairs,
                                  !.workers = IF policy.concurrency > 1
                                              THEN policy.concurrency ELSE 1]

RoundStarts ==
    /\ polling /\ shouldRun(signalPolicy) /\ untilRound = 0
    /\ untilRound' = Refresh
    /\ runOnce(signalPolicy)
    /\ UNCHANGED <<environment, insight, meta, move, strays>>

Change == changes < MaxChanges /\ changes' = changes + 1

\* The schedule starts anew, with a round at once.
updatePolicy(policy) ==
    /\ Change /\ policy # signalPolicy
    /\ signalPolicy' = policy
    /\ IF polling THEN untilRound' = Refresh /\ runOnce(policy) ELSE UNCHANGED <<untilRound, round>>
    /\ UNCHANGED <<polling, pairs, permitted, insight, meta, move, strays>>

\* updateMarketPairs: what was known of a market that is gone is forgotten; a round that is under way is not
\* told.
updateSignalMarkets(next) ==
    LET forget(cache, default) == [m \in SignalMarkets |-> IF m \in next THEN cache[m] ELSE default]
    IN  /\ Change /\ next # pairs
        /\ pairs' = next
        /\ insight' = forget(insight, - MaxRoundAge)
        /\ meta' = forget(meta, - MaxRoundAge)
        /\ move' = forget(move, Long)
        /\ UNCHANGED <<signalPolicy, polling, permitted, untilRound, round, strays>>

\* handleMarketUpdated, for a move of the trigger's size.
MarketMoves(m) ==
    /\ Change /\ m \in pairs
    /\ move' = [move EXCEPT ![m] = 0]
    /\ UNCHANGED <<signalPolicy, polling, pairs, permitted, insight, meta, untilRound, round,
                   strays>>

\* The allowlist quarantines a market or allows it again.
Permits(next) ==
    /\ Change /\ next # permitted
    /\ permitted' = next
    /\ UNCHANGED <<signalPolicy, polling, pairs, insight, meta, move, untilRound, round, strays>>

\* stop: a round that is under way goes on.
StopPolling ==
    /\ Change /\ polling
    /\ polling' = FALSE
    /\ UNCHANGED <<signalPolicy, pairs, permitted, insight, meta, move, untilRound, round, strays>>

-----------------------------------------------------------------------------
(* A round *)

Step(m, step) == [n \in DOMAIN round.active \cup {m} |-> IF n = m THEN step ELSE round.active[n]]
Without(m) == [n \in DOMAIN round.active \ {m} |-> round.active[n]]

FreeWorker ==
    /\ round.stage # "idle"
    /\ Cardinality(DOMAIN round.active) < round.workers

\* A cached expiry, by the time of the round's start.
StillValid(expiry) == expiry + round.age > 0

\* A worker takes a market: in the selection those without an insight are due at once, and
\* those with one are looked at more closely.
Take(m) ==
    /\ FreeWorker /\ m \in round.todo
    /\ round' = [round EXCEPT
         !.todo = @ \ {m},
         !.pending = IF /\ round.stage = "selecting" /\ m \in permitted /\ ~StillValid(insight[m])
                     THEN @ \cup {m} ELSE @,
         !.active = IF round.stage = "searching" \/ (m \in permitted /\ StillValid(insight[m]))
                    THEN Step(m, IF m \in DOMAIN round.prepared THEN "heartbeat" ELSE "meta")
                    ELSE @]
    /\ UNCHANGED <<environment, insight, meta, move, untilRound, strays>>

\* Mutant of Aborted: the round is never over.
AbortedForGood(m) ==
    /\ strays' = strays \cup (DOMAIN round.active \ {m}) \cup round.todo
    /\ round' = [NoRound EXCEPT !.stage = "selecting", !.active = Step(m, "lost")]

\* The selection fails as a whole; its other workers go on, to no avail.
Aborted(m) ==
    /\ strays' = strays \cup (DOMAIN round.active \ {m}) \cup round.todo
    /\ round' = NoRound

\* getMarketMeta, from the cache or the venue.
MetaFound(m) ==
    /\ m \in DOMAIN round.active /\ round.active[m] = "meta"
    /\ round' = [round EXCEPT !.active = Step(m, "heartbeat")]
    /\ meta' = IF StillValid(meta[m]) THEN meta ELSE [meta EXCEPT ![m] = Refresh - round.age]
    /\ UNCHANGED <<environment, insight, move, untilRound, strays>>

\* The venue fails: fatal to the selection, and to the search of this market.
MetaFails(m) ==
    /\ m \in DOMAIN round.active /\ round.active[m] = "meta" /\ ~StillValid(meta[m])
    /\ IF round.stage = "selecting" THEN Aborted(m)
       ELSE round' = [round EXCEPT !.active = Without(m)] /\ UNCHANGED strays
    /\ UNCHANGED <<environment, insight, meta, move, untilRound>>

\* A worker nobody waits for fills the cache, or fails.
StrayMeta(m, expiry) ==
    /\ m \in strays
    /\ strays' = strays \ {m}
    /\ meta' = IF meta[m] < expiry THEN [meta EXCEPT ![m] = expiry] ELSE meta
    /\ UNCHANGED <<environment, insight, move, untilRound, round>>

\* The heartbeat that was prepared, else the one the service answers, if it is asked.
HeartbeatsOf(m) ==
    IF m \in DOMAIN round.prepared /\ round.prepared[m] # NoHeartbeat THEN {round.prepared[m]}
    ELSE IF signalPolicy.gdelt THEN Heartbeats ELSE {NoHeartbeat}

\* prepareCachedOverride: an insight that is still valid is renewed for a good reason only.
Override(m, heartbeat) ==
    IF shouldBypassInsightCache(decide(m, heartbeat))
    THEN [round EXCEPT !.active = Without(m), !.pending = @ \cup {m},
                       !.prepared = [n \in DOMAIN @ \cup {m} |-> IF n = m THEN heartbeat ELSE @[n]]]
    ELSE [round EXCEPT !.active = Without(m)]

Routed(m, route) ==
    [round EXCEPT !.active = IF route = "skip" THEN Without(m) ELSE Step(m, route)]

HeartbeatKnown(m, heartbeat) ==
    /\ m \in DOMAIN round.active /\ round.active[m] = "heartbeat"
    /\ heartbeat \in HeartbeatsOf(m)
    /\ round' = IF round.stage = "selecting" THEN Override(m, heartbeat)
                ELSE Routed(m, decide(m, heartbeat).route)
    /\ UNCHANGED <<environment, insight, meta, move, untilRound, strays>>

\* The insight is announced and cached.
Emit(m) ==
    /\ round' = [round EXCEPT !.active = Without(m)]
    /\ insight' = [insight EXCEPT ![m] = InsightTtl - round.age]

\* fetchSignals: a search of one provider has ended.  A weak answer of the first is looked
\* up with the second; no result is no insight.
Searched(m, outcome) ==
    /\ m \in DOMAIN round.active /\ round.active[m] \in {"serper", "exa"}
    /\ IF outcome = "failed" THEN round' = [round EXCEPT !.active = Without(m)] /\ UNCHANGED insight
       ELSE IF round.active[m] = "serper" /\ shouldEscalateSerper(m, outcome)
       THEN round' = [round EXCEPT !.active = Step(m, "exa")] /\ UNCHANGED insight
       ELSE IF outcome = "empty" THEN round' = [round EXCEPT !.active = Without(m)] /\ UNCHANGED insight
       ELSE Emit(m)
    /\ UNCHANGED <<environment, meta, move, untilRound, strays>>

PhaseOver == round.stage # "idle" /\ round.todo = {} /\ DOMAIN round.active = {}

\* The selection is followed by the search for what is due, if anything is.
NextPhase ==
    /\ PhaseOver
    /\ round' = IF round.stage = "selecting" /\ round.pending # {}
                THEN [round EXCEPT !.stage = "searching", !.todo = round.pending, !.pending = {}]
                ELSE NoRound
    /\ UNCHANGED <<environment, insight, meta, move, untilRound, strays>>

-----------------------------------------------------------------------------
SignalsTick ==
    LET down(expiry) == IF expiry > - MaxRoundAge THEN expiry - 1 ELSE expiry
    IN  /\ polling \/ round.stage # "idle"
        /\ round.stage # "idle" => round.age < MaxRoundAge
        /\ strays = {}
        /\ untilRound > 0 \/ ~polling \/ ~shouldRun(signalPolicy)
        /\ untilRound' = IF untilRound > 0 THEN untilRound - 1 ELSE 0
        /\ insight' = [m \in SignalMarkets |-> down(insight[m])]
        /\ meta' = [m \in SignalMarkets |-> down(meta[m])]
        /\ move' = [m \in SignalMarkets |-> IF move[m] < Long THEN move[m] + 1 ELSE Long]
        /\ round' = IF round.stage = "idle" THEN round ELSE [round EXCEPT !.age = @ + 1]
        /\ UNCHANGED <<environment, strays>>

\* What a market waits for in a round is answered, one way or the other.
Answers(m) ==
    \/ Take(m) \/ MetaFound(m) \/ MetaFails(m)
    \/ \E heartbeat \in Heartbeats : HeartbeatKnown(m, heartbeat)
    \/ \E outcome \in Outcomes : Searched(m, outcome)
    \/ \E expiry \in {- MaxRoundAge, Refresh - MaxRoundAge} : StrayMeta(m, expiry)

SignalsNext ==
    \/ RoundStarts \/ NextPhase \/ SignalsTick \/ StopPolling
    \/ \E policy \in SignalPolicies : updatePolicy(policy)
    \/ \E next \in MarketLists : updateSignalMarkets(next) \/ Permits(next)
    \/ \E m \in SignalMarkets : Answers(m) \/ MarketMoves(m)

SignalsTypeOK ==
    /\ round.stage \in {"idle", "selecting", "searching"} /\ round.age \in 0 .. MaxRoundAge
    /\ \A m \in SignalMarkets : insight[m] <= InsightTtl /\ meta[m] <= Refresh /\ move[m] <= Long

-----------------------------------------------------------------------------
(* Properties *)

\* A market is due when nothing valid is known of it and it may trade.
Due(m) == /\ polling /\ shouldRun(signalPolicy)
          /\ m \in pairs \cap permitted /\ insight[m] <= - MaxRoundAge

BeingSearched(m) == round.stage = "searching" /\ m \in round.todo \cup DOMAIN round.active

\* Every market that stays due gets its turn again and again, although a single failing
\* market ends a selection for all of them.
DueMarketsGetTheirTurn == \A m \in SignalMarkets : <>[]Due(m) => []<>BeingSearched(m)
=============================================================================

------------------------------ MODULE Preflight ------------------------------
(***************************************************************************)
(* The last checks before orders leave (src/src/agents/execution/          *)
(* ExecutionPreflight.ts), the counters of orders, fills and delayed       *)
(* acknowledgements they read (src/src/telemetry/metrics.ts), and the      *)
(* advice on timeouts (ExecutionAdvisor.ts, ExecutionModeSupport.ts), as   *)
(* pure operators.                                                         *)
(*                                                                         *)
(* The counters of a market are counts by time, [Times -> Nat]: what they  *)
(* hold is in the order of its times, because a market has one execution   *)
(* at a time.  The order attempts of all markets are a list in the order of*)
(* counting, from whose front the entries before a cutoff are dropped, up  *)
(* to the first that is not before it.                                     *)
(***************************************************************************)
EXTENDS OrderBook, Sequences
LOCAL INSTANCE FiniteSetsExt

\* The entries of a window at these times, told apart by their number.
EntriesAt(window, times) == UNION {{t} \X (1 .. window[t]) : t \in times}

\* What a window counts from the cutoff on.
Within(window, windowMs, now) ==
    IF windowMs <= 0 THEN 0
    ELSE Cardinality(EntriesAt(window, {t \in DOMAIN window : t >= now - windowMs}))

Counted(window, now, n) == [window EXCEPT ![now] = @ + n]

\* pruneWindow: of the attempts, each with its time "at", so many are dropped from the front
\* when "pruned" have been dropped before.
PrunedTo(attempts, pruned, cutoff) ==
    LET kept == {i \in pruned + 1 .. Len(attempts) : attempts[i].at >= cutoff}
    IN  IF kept = {} THEN Len(attempts) ELSE Min(kept) - 1

\* getOrderVelocity counts everything the list still holds after that.
OrderVelocity(attempts, pruned, windowMs, now) ==
    IF windowMs <= 0 THEN 0 ELSE Len(attempts) - PrunedTo(attempts, pruned, now - windowMs)

PlannedOrders(opp) == IF opp.type = "ev" THEN 1 ELSE 2

\* Projected orders per fill are above the ratio.
OrderToTradeExceeded(opp, orders, fills, policy, now) ==
    Within(orders, policy.orderToTradeWindowMs, now) + PlannedOrders(opp)
      > policy.maxOrderToTradeRatio * Max({1, Within(fills, policy.orderToTradeWindowMs, now)})

\* Mutant of VelocityExceeded: without the orders that are about to be made.
VelocityReached(opp, s, policy, now) ==
    /\ policy.maxOrdersPerMinute > 0
    /\ OrderVelocity(s.attempts, s.pruned, policy.orderVelocityWindowMs, now)
         >= policy.maxOrdersPerMinute

VelocityExceeded(opp, s, policy, now) ==
    /\ policy.maxOrdersPerMinute > 0
    /\ OrderVelocity(s.attempts, s.pruned, policy.orderVelocityWindowMs, now) + PlannedOrders(opp)
         > policy.maxOrdersPerMinute

DelayedAcksExceeded(orders, delayed, policy, now) ==
    /\ policy.maxDelayedAckPct > 0
    /\ Within(orders, policy.orderToTradeWindowMs, now) > 0
    /\ Within(delayed, policy.orderToTradeWindowMs, now) * 100
         > policy.maxDelayedAckPct * Within(orders, policy.orderToTradeWindowMs, now)

\* The best ask has left the band around the price that was expected.
Deviates(book, expected, policy) ==
    LET moved == BestAsk(book) - expected
    IN  expected > 0 /\ Max({moved, -moved}) * 10000 > policy.priceBandBps * expected

PriceMoved(opp, yes, no, policy) ==
    /\ NoPrice \notin {BestAsk(yes), BestAsk(no)}
    /\ IF opp.type = "ev"
       THEN Deviates(IF opp.side = "yes" THEN yes ELSE no,
                     IF opp.side = "yes" THEN opp.yesPrice ELSE opp.noPrice, policy)
       ELSE Deviates(yes, opp.yesPrice, policy) \/ Deviates(no, opp.noPrice, policy)

RequiresUserChannel(opp, policy) == policy.nearZeroRiskMode \/ opp.type = "ev"

\* The reason of the first check that fails, or "none".
FirstFailing(checks) ==
    LET failing == {i \in DOMAIN checks : checks[i][2]}
        first == CHOOSE i \in failing : \A j \in failing : i <= j
    IN  IF failing = {} THEN "none" ELSE checks[first][1]

\* The reason the execution is blocked for.  s holds the trading switch, the mode, the
\* state of the user channel, all order attempts and the counters of the market.
runExecutionPreflight(opp, yes, no, policy, s, now) ==
    FirstFailing(<<
      <<"trading_disabled", ~s.tradingEnabled>>,
      <<"mode_not_live", s.tradingMode # "live">>,
      <<"user_channel_unconfigured",
        RequiresUserChannel(opp, policy) /\ s.userChannel = "unconfigured">>,
      <<"user_channel_disconnected",
        RequiresUserChannel(opp, policy) /\ s.userChannel # "connected">>,
      <<"throws", opp.type # "ev" /\ ~policy.rejectDelayed>>,
      <<"decision_latency_exceeded",
        policy.maxDecisionLatencyMs > 0 /\ now - opp.detectedAt > policy.maxDecisionLatencyMs>>,
      <<"otr_exceeded", OrderToTradeExceeded(opp, s.orders, s.fills, policy, now)>>,
      <<"velocity_throttle", VelocityExceeded(opp, s, policy, now)>>,
      <<"delayed_ack_rate_exceeded", DelayedAcksExceeded(s.orders, s.delayed, policy, now)>>,
      <<"price_moved", PriceMoved(opp, yes, no, policy)>>>>)

\* The checks that come before the one of the velocity.
BeforeVelocity ==
    {"trading_disabled", "mode_not_live", "user_channel_unconfigured", "user_channel_disconnected",
     "throws", "decision_latency_exceeded", "otr_exceeded"}

\* How much of the list is gone after a preflight that ended with this reason.
PrunedAfter(reason, s, policy, now) ==
    IF \/ reason \in BeforeVelocity
       \/ policy.maxOrdersPerMinute <= 0 \/ policy.orderVelocityWindowMs <= 0
    THEN s.pruned
    ELSE PrunedTo(s.attempts, s.pruned, now - policy.orderVelocityWindowMs)
=============================================================================

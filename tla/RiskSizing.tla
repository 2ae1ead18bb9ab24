------------------------------ MODULE RiskSizing ------------------------------
(***************************************************************************)
(* How much of an opportunity may be traded (src/src/agents/risk/          *)
(* RiskAgent.ts, RiskAdvisor.ts, src/src/config/risk.ts), as pure          *)
(* operators.                                                              *)
(*                                                                         *)
(* An opportunity has legs, a set of [marketId, costPerSet, maxSizeByDepth,*)
(* minOrderSize, tickSize]: one for its market, or one for each market of  *)
(* a basket.  A snapshot of the portfolio has exposure[market].            *)
(* Sizes are rounded down to the smallest unit; fractions are in percent.  *)
(***************************************************************************)
EXTENDS Integers, FiniteSets, Functions
LOCAL INSTANCE FiniteSetsExt

SumOver(S, f(_)) == SumFunction([x \in S |-> f(x)])

Cost(opp) == SumOver(opp.legs, LAMBDA l : l.costPerSet)

\* The code reads these from the opportunity itself when it is no basket.
EffectiveTick(opp, risk) == IF opp.tickSize > 0 THEN opp.tickSize ELSE risk.fallbackTickSize

\* What unwinding one set loses at worst.
LossPerSet(opp, risk) ==
    IF opp.type = "fw_basket"
    THEN SumOver(opp.legs, LAMBDA l : Max({l.tickSize, risk.fallbackTickSize}))
           * risk.maxUnwindLossTicks
    ELSE EffectiveTick(opp, risk) * risk.maxUnwindLossTicks

LossPerAttempt(opp, risk) == EffectiveTick(opp, risk) * risk.maxUnwindLossTicks

ExposureHeadroom(marketId, snapshot, risk) ==
    (snapshot.totalCapital * risk.maxMarketExposurePct) \div 100 - snapshot.exposure[marketId]

TotalExposure(snapshot) ==
    SumOver(DOMAIN snapshot.exposure, LAMBDA m : Max({0, snapshot.exposure[m]}))

DailyLossBeyond(snapshot, pct) ==
    pct > 0 /\ snapshot.dailyPnL * 100 <= - pct * snapshot.totalCapital

\* effectiveTradeFraction, applied to the available capital.
maxSizeByTradeFraction(opp, snapshot, risk) ==
    LET share(pct) == (snapshot.availableCapital * pct) \div (100 * Cost(opp))
        bounded == (snapshot.availableCapital * risk.maxAttemptLossPct)
                     \div (100 * LossPerAttempt(opp, risk))
    IN  IF snapshot.availableCapital <= 0 THEN 0
        ELSE Min({share(risk.targetTradePct), share(risk.maxTradePct)}
                   \cup (IF LossPerAttempt(opp, risk) > 0 THEN {bounded} ELSE {}))

maxSizeByDepth(opp, risk) ==
    LET raw == Min({l.maxSizeByDepth : l \in opp.legs})
    IN  IF risk.depthBufferPct > 0 THEN (raw * 100) \div risk.depthBufferPct ELSE raw

calculateMaxSizeByUnwindBudget(opp, snapshot, risk) ==
    LET maxLoss == Min({(snapshot.availableCapital * risk.maxUnwindLossPct) \div 100,
                        risk.maxPerTradeLoss})
    IN  IF maxLoss <= 0 \/ LossPerAttempt(opp, risk) <= 0 THEN 0
        ELSE maxLoss \div LossPerAttempt(opp, risk)

maxSizeByDailyLoss(opp, snapshot, risk) ==
    IF risk.dailyLossLimitPct > 0
    THEN ((risk.dailyLossLimitPct * snapshot.totalCapital) \div 100 + snapshot.dailyPnL)
           \div LossPerSet(opp, risk)
    ELSE Max({0, snapshot.availableCapital}) \div Cost(opp)

maxSizeByExposure(opp, snapshot, risk) ==
    Min({ExposureHeadroom(l.marketId, snapshot, risk) \div Max({l.costPerSet, 1}) : l \in opp.legs})

\* The caps on notional of the mode: none where the limit is 0.  Only a basket's
\* markets count what they already hold.
NotionalCaps(opp, snapshot, risk) ==
    LET room(limit) == (limit - TotalExposure(snapshot)) \div Cost(opp)
        used(l) == IF opp.type = "fw_basket" THEN snapshot.exposure[l.marketId] ELSE 0
        caps(perMarket, portfolio) ==
          (IF perMarket > 0
           THEN {(perMarket - used(l)) \div Max({l.costPerSet, 1}) : l \in opp.legs} ELSE {})
            \cup (IF portfolio > 0 THEN {room(portfolio)} ELSE {})
    IN  CASE opp.type = "ev" -> caps(risk.evMaxPerMarketNotional, risk.evMaxPortfolioNotional)
          [] opp.type \in {"fw_projection", "fw_basket"} ->
               caps(risk.fwMaxPerMarketNotional, risk.fwMaxPortfolioNotional)
          [] OTHER -> {}

HardCap(opp, snapshot, risk, notionalCaps) ==
    Min({maxSizeByDepth(opp, risk), calculateMaxSizeByUnwindBudget(opp, snapshot, risk),
         maxSizeByDailyLoss(opp, snapshot, risk), maxSizeByExposure(opp, snapshot, risk)}
          \cup notionalCaps)

MinOrderSize(opp) == Max({l.minOrderSize : l \in opp.legs} \cup {0})

Rejected(reason) == [approved |-> FALSE, reason |-> reason, size |-> 0]
Approved(reason, size) == [approved |-> TRUE, reason |-> reason, size |-> size]

\* The smallest of all caps.  Below the minimum order size it grows to the minimum,
\* past the share of the capital if need be, but never past a hard cap.
SizeBetween(size, minimum, hardCap) ==
    CASE size <= 0 -> Rejected("position_size_zero")
      [] size > 0 /\ size >= minimum -> Approved("within_risk_limits", size)
      [] size > 0 /\ size < minimum /\ minimum <= hardCap -> Approved("min_order_size_bump", minimum)
      [] OTHER -> Rejected("below_min_order_size")

SizeDecision(opp, fraction, hardCap, notionalCaps) ==
    IF \E c \in notionalCaps : c <= 0 THEN Rejected("notional_cap")
    ELSE SizeBetween(Min({fraction, hardCap}), MinOrderSize(opp), hardCap)

\* The limits that refuse before a size is worked out.
Refusals(opp, snapshot, risk) ==
    {c[1] : c \in {d \in
      {<<"invalid_cost_per_set", Cost(opp) <= 0>>,
       <<"open_inventory_timeout",
         risk.maxOpenInventoryMs > 0 /\ snapshot.openInventoryAgeMs > risk.maxOpenInventoryMs>>,
       <<"daily_loss_limit", DailyLossBeyond(snapshot, risk.dailyLossLimitPct)>>,
       <<"daily_drawdown_limit", DailyLossBeyond(snapshot, risk.maxDailyDrawdownPct)>>,
       <<"market_exposure_limit",
         \E l \in opp.legs : ExposureHeadroom(l.marketId, snapshot, risk) <= 0>>,
       <<"unwind_loss_unbounded", LossPerSet(opp, risk) <= 0>>,
       <<"unwind_loss_bps_exceeded",
         /\ risk.unwindSlippageToleranceBps > 0
         /\ LossPerAttempt(opp, risk) * 10000 > risk.unwindSlippageToleranceBps * Cost(opp)>>}
      : d[2]}}

\* RiskAgent.evaluate: a reason to refuse if there is one, else the size.
Evaluated(opp, snapshot, risk, notionalCaps, refusals) ==
    IF refusals # {} THEN Rejected(CHOOSE r \in refusals : TRUE)
    ELSE SizeDecision(opp, maxSizeByTradeFraction(opp, snapshot, risk),
                      HardCap(opp, snapshot, risk, notionalCaps), notionalCaps)

evaluate(opp, snapshot, risk) ==
    Evaluated(opp, snapshot, risk, NotionalCaps(opp, snapshot, risk), Refusals(opp, snapshot, risk))

\* RiskAdvisor: whatever the model answers is clamped; an answer that cannot be read
\* (NoAnswer), and the disabled and shadow modes, leave the size alone.
NoAnswer == -1
recommendSize(recommended, minSize, deterministic) ==
    IF recommended = NoAnswer THEN deterministic
    ELSE Max({Min({minSize, deterministic}), Min({recommended, deterministic})})

\* evaluateWithAdvisor, once the model has answered.  Its minimum is the one of the
\* opportunity itself.
AdvisedSize(opp, deterministic, recommended) ==
    LET clamped == recommendSize(recommended, Max({opp.minOrderSize, 0}), deterministic)
    IN  IF clamped <= 0 THEN deterministic ELSE Max({clamped, opp.minOrderSize})
=============================================================================

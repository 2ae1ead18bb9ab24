---------------------------- MODULE MCMarketGuard ----------------------------
(* Instances of MarketGuard for TLC. *)
EXTENDS MarketGuard, TLC

CONSTANTS a, b,                  \* markets
          x, z                   \* opportunity slots

\* A single market, and a basket that contains it.
GuardMarketsOf == x :> {a} @@ z :> {a, b}

Cfg(threshold, cooldown, successes) ==
    [threshold |-> threshold, cooldown |-> cooldown, successes |-> successes]

OneConfig == {Cfg(1, 2, 1)}
=============================================================================

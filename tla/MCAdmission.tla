----------------------------- MODULE MCAdmission -----------------------------
(* An instance of Admission for TLC. *)
EXTENDS Admission, TLC

CONSTANTS a, b, c,            \* markets
          x, y, w                \* opportunity slots

\* Two single markets and a basket that shares one of them: a limit of two markets
\* is met by the two singles, or by the basket alone.
SharedMarketsOf == x :> {a} @@ y :> {b} @@ w :> {b, c}

Cfg(threshold, cooldown, successes) ==
    [threshold |-> threshold, cooldown |-> cooldown, successes |-> successes]

\* Trip at the first failure: a cooldown and one trial, or no cooldown and two trials.
TwoConfigs == {Cfg(1, 1, 1), Cfg(1, 0, 2)}
=============================================================================

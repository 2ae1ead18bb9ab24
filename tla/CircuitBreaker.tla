--------------------------- MODULE CircuitBreaker ---------------------------
(***************************************************************************)
(* One circuit breaker (src/src/core/CircuitBreaker.ts) as a value and the *)
(* operations on it as operators from breakers to breakers.  The module    *)
(* has no variables: a component that owns breakers keeps a function of    *)
(* them and applies these operators in its actions.                        *)
(*                                                                         *)
(* A configuration is [threshold, cooldown, successes]: failureThreshold,  *)
(* cooldownMs and halfOpenSuccesses.  Breakers are lazy: "open" becomes    *)
(* "half-open" only when somebody looks at the breaker (Refresh).          *)
(***************************************************************************)
EXTENDS Integers

CircuitState == {"closed", "open", "half-open"}

BreakerConfig == [threshold : Nat \ {0}, cooldown : Nat, successes : Nat \ {0}]

Breaker ==
    [state : CircuitState, failures : Nat, lastFailure : Nat, halfOk : Nat]

NewBreaker ==
    [state |-> "closed", failures |-> 0, lastFailure |-> 0, halfOk |-> 0]

\* The condition under which an open breaker lets a trial through.
CooledDown(b, time, cfg) == time - b.lastFailure >= cfg.cooldown

\* Mutant of Refresh: going half-open forgets the failures.
RefreshForgets(b, time, cfg) ==
    IF b.state = "open" /\ CooledDown(b, time, cfg)
    THEN [b EXCEPT !.state = "half-open", !.halfOk = 0, !.failures = 0]
    ELSE b

\* refreshAndGetState
Refresh(b, time, cfg) ==
    IF b.state = "open" /\ CooledDown(b, time, cfg)
    THEN [b EXCEPT !.state = "half-open", !.halfOk = 0]
    ELSE b

IsOpen(b, time, cfg) == Refresh(b, time, cfg).state = "open"

\* recordSuccess: half-open breakers close after enough successes.
OnSuccess(b, cfg) ==
    LET halfOk == IF b.state = "half-open" THEN b.halfOk + 1 ELSE b.halfOk
    IN  [state |-> IF b.state = "half-open" /\ halfOk >= cfg.successes
                   THEN "closed" ELSE b.state,
         failures    |-> 0,
         lastFailure |-> b.lastFailure,
         halfOk      |-> halfOk]

\* recordFailure: the consecutive-failure count alone opens the breaker.
OnFailure(b, time, cfg) ==
    [state |-> IF b.failures + 1 >= cfg.threshold THEN "open" ELSE b.state,
     failures    |-> b.failures + 1,
     lastFailure |-> time,
     halfOk      |-> b.halfOk]
=============================================================================

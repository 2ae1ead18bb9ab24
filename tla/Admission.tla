------------------------------ MODULE Admission ------------------------------
(***************************************************************************)
(* The supervisor's admission control (src/src/core/Supervisor.ts,         *)
(* handleRiskApproved): which opportunities may execute at the same time,  *)
(* the markets and the capital they reserve, and the circuit breaker of    *)
(* every market.                                                           *)
(*                                                                         *)
(* Each action is one synchronous run of the event loop: between the       *)
(* checks and the reservation, and between the outcome of an execution and *)
(* the release, the code does not await.  The execution itself is awaited, *)
(* so the executions of different opportunities interleave; what an        *)
(* execution does is the subject of PairedExecution, here only its outcome *)
(* counts.                                                                 *)
(***************************************************************************)
EXTENDS CircuitBreaker, FiniteSets

CONSTANTS
    Opps,            \* opportunity slots: a slot is reused once it is idle
    Markets,
    MarketsOf,       \* [Opps -> SUBSET Markets]: one market, or a basket's
    Costs,           \* the capital amounts size * costPerSet can take
    MaxConcurrent,   \* maxConcurrentMarkets, 0 for no limit
    MaxCapital,      \* maxCapitalInFlight, 0 for no limit
    Configs,         \* the breaker configurations an operator may set
    MaxTime,         \* bound: the clock stops here
    MaxFailures      \* bound: consecutive failures counted per market

ASSUME MarketsAssumption ==
    /\ IsFiniteSet(Markets)
    /\ MarketsOf \in [Opps -> SUBSET Markets]
    /\ \A o \in Opps : MarketsOf[o] # {}

ASSUME LimitsAssumption ==
    /\ Costs \subseteq Nat
    /\ MaxConcurrent \in Nat
    /\ MaxCapital \in Nat
    /\ MaxTime \in Nat
    /\ MaxFailures \in Nat
    /\ Configs # {}
    /\ Configs \subseteq BreakerConfig

VARIABLES
    stage,           \* what has become of each opportunity
    inFlight,        \* inFlightMarkets
    capital,         \* capitalInFlight
    reserved,        \* requiredCapital of each running handler
    breaker,         \* marketCircuitBreakers
    config,          \* the breaker configuration in force
    now              \* Date.now()

limits == <<inFlight, capital, reserved>>
vars == <<stage, inFlight, capital, reserved, breaker, config, now>>

Stages == {"idle", "detected", "running"}

TypeOK ==
    /\ stage \in [Opps -> Stages]
    /\ inFlight \in SUBSET Markets
    /\ capital \in Nat
    /\ reserved \in [Opps -> Nat]
    /\ breaker \in [Markets -> Breaker]
    /\ config \in Configs
    /\ now \in Nat

Init ==
    /\ stage = [o \in Opps |-> "idle"]
    /\ inFlight = {}
    /\ capital = 0
    /\ reserved = [o \in Opps |-> 0]
    /\ breaker = [m \in Markets |-> NewBreaker]
    /\ config \in Configs
    /\ now = 0

-----------------------------------------------------------------------------
(* Helpers *)

Running == {o \in Opps : stage[o] = "running"}

BreakerOpen(m) == IsOpen(breaker[m], now, config)

\* Mutant of CircuitsClosed: one closed circuit is enough for a basket.
SomeCircuitClosed(o) == \E m \in MarketsOf[o] : ~BreakerOpen(m)

CircuitsClosed(o) == \A m \in MarketsOf[o] : ~BreakerOpen(m)

\* isOpen and getOpenMarkets look at breakers, and looking moves them.
Refreshed(S) ==
    [m \in Markets |-> IF m \in S THEN Refresh(breaker[m], now, config)
                       ELSE breaker[m]]

NewReservations(o) == MarketsOf[o] \ inFlight

TooManyMarkets(o) ==
    /\ MaxConcurrent > 0
    /\ Cardinality(inFlight) + Cardinality(NewReservations(o)) > MaxConcurrent

TooMuchCapital(c) ==
    /\ MaxCapital > 0
    /\ c > 0
    /\ capital + c > MaxCapital

\* Mutant of MarketInFlight: "every" for "some".
AllMarketsInFlight(o) == MarketsOf[o] \subseteq inFlight

MarketInFlight(o) == MarketsOf[o] \cap inFlight # {}

-----------------------------------------------------------------------------
(* Actions *)

\* A scan finds an opportunity and hands it to prioritisation and risk, both
\* awaited: the admission below runs on a later turn of the event loop.
Detect(o) ==
    /\ stage[o] = "idle"
    /\ stage' = [stage EXCEPT ![o] = "detected"]
    /\ UNCHANGED <<inFlight, capital, reserved, breaker, config, now>>

\* Shadow mode withholds the opportunity, or risk does not approve it.
Drop(o) ==
    /\ stage[o] = "detected"
    /\ stage' = [stage EXCEPT ![o] = "idle"]
    /\ UNCHANGED <<inFlight, capital, reserved, breaker, config, now>>

\* Some market's circuit is open.  The search stops at the first one, so only
\* some of the others have been looked at.
RejectCircuit(o, m, looked) ==
    /\ stage[o] = "detected"
    /\ m \in MarketsOf[o] /\ BreakerOpen(m)
    /\ looked \subseteq {k \in MarketsOf[o] : ~BreakerOpen(k)}
    /\ stage' = [stage EXCEPT ![o] = "idle"]
    /\ breaker' = Refreshed(looked)
    /\ UNCHANGED <<inFlight, capital, reserved, config, now>>

\* Over a limit, or one of the markets is taken.
RejectLimit(o, c) ==
    /\ stage[o] = "detected"
    /\ CircuitsClosed(o)
    /\ TooManyMarkets(o) \/ TooMuchCapital(c) \/ MarketInFlight(o)
    /\ stage' = [stage EXCEPT ![o] = "idle"]
    /\ breaker' = Refreshed(MarketsOf[o])
    /\ UNCHANGED <<inFlight, capital, reserved, config, now>>

Admissible(o, c) ==
    /\ stage[o] = "detected"
    /\ CircuitsClosed(o)
    /\ ~TooManyMarkets(o)
    /\ ~TooMuchCapital(c)
    /\ ~MarketInFlight(o)

\* The trade gates refuse within the same turn: reserved and given back.
RejectGate(o, c) ==
    /\ Admissible(o, c)
    /\ stage' = [stage EXCEPT ![o] = "idle"]
    /\ breaker' = Refreshed(MarketsOf[o])
    /\ UNCHANGED <<inFlight, capital, reserved, config, now>>

\* Reserve, and await the execution.
Admit(o, c) ==
    /\ Admissible(o, c)
    /\ stage' = [stage EXCEPT ![o] = "running"]
    /\ inFlight' = inFlight \cup MarketsOf[o]
    /\ capital' = capital + c
    /\ reserved' = [reserved EXCEPT ![o] = c]
    /\ breaker' = Refreshed(MarketsOf[o])
    /\ UNCHANGED <<config, now>>

\* Mutant of ReleaseReservation: only the capital is given back.
ReleaseCapitalOnly(o) ==
    /\ stage' = [stage EXCEPT ![o] = "idle"]
    /\ capital' = capital - reserved[o]
    /\ reserved' = [reserved EXCEPT ![o] = 0]
    /\ UNCHANGED inFlight

\* The finally clause of the handler.
ReleaseReservation(o) ==
    /\ stage' = [stage EXCEPT ![o] = "idle"]
    /\ inFlight' = inFlight \ MarketsOf[o]
    /\ capital' = IF capital >= reserved[o] THEN capital - reserved[o] ELSE 0
    /\ reserved' = [reserved EXCEPT ![o] = 0]

\* What an outcome does to the breaker of one market: submitted is a success,
\* failed a failure, and a blocked or non-live outcome is only looked at.
Recorded(b, outcome) ==
    LET before == Refresh(b, now, config)
    IN  CASE outcome = "submitted" -> OnSuccess(before, config)
          [] outcome = "failed"    -> OnFailure(before, now, config)
          [] OTHER                 -> before

Outcomes == {"submitted", "failed", "not_counted"}

\* The awaited execution answers.
Settle(o, outcome) ==
    /\ stage[o] = "running"
    /\ outcome = "failed" => \A m \in MarketsOf[o] : breaker[m].failures < MaxFailures
    /\ breaker' = [m \in Markets |->
                     IF m \in MarketsOf[o]
                     THEN Refresh(Recorded(breaker[m], outcome), now, config)
                     ELSE breaker[m]]
    /\ ReleaseReservation(o)
    /\ UNCHANGED <<config, now>>

\* The awaited execution throws: no breaker hears of it.
SettleThrown(o) ==
    /\ stage[o] = "running"
    /\ ReleaseReservation(o)
    /\ UNCHANGED <<breaker, config, now>>

\* A health check or the API asks which circuits are open.
LookAtBreakers ==
    /\ breaker' = Refreshed(Markets)
    /\ UNCHANGED <<stage, inFlight, capital, reserved, config, now>>

\* An operator changes the risk settings of the running system.
UpdateBreakerConfig(c) ==
    /\ config' = c
    /\ UNCHANGED <<stage, inFlight, capital, reserved, breaker, now>>

Tick ==
    /\ now < MaxTime
    /\ now' = now + 1
    /\ UNCHANGED <<stage, inFlight, capital, reserved, breaker, config>>

Next ==
    \/ \E o \in Opps : Detect(o) \/ Drop(o) \/ SettleThrown(o)
    \/ \E o \in Opps, m \in Markets, looked \in SUBSET Markets : RejectCircuit(o, m, looked)
    \/ \E o \in Opps, c \in Costs : RejectLimit(o, c) \/ RejectGate(o, c) \/ Admit(o, c)
    \/ \E o \in Opps, outcome \in Outcomes : Settle(o, outcome)
    \/ LookAtBreakers
    \/ \E c \in Configs : UpdateBreakerConfig(c)
    \/ Tick

Spec == Init /\ [][Next]_vars

-----------------------------------------------------------------------------
(* Properties *)

\* A market is traded by at most one execution at a time, baskets included,
\* whatever the order in which handlers reserve and release.
OneExecutionPerMarket ==
    \A o, p \in Running : o # p => MarketsOf[o] \cap MarketsOf[p] = {}

\* The reservation set is exactly the markets of the running executions: no
\* exit of the handler leaks a market, and none frees another handler's market.
ReservationsMatchRunning ==
    inFlight = UNION {MarketsOf[o] : o \in Running}

\* Capital in flight stays within its limit although several handlers check
\* and add to it between the awaits of the others.
CapitalCap == MaxCapital > 0 => capital <= MaxCapital

\* The number of markets in flight stays within its limit: the projection
\* counts a basket's markets once each.
ConcurrencyCap == MaxConcurrent > 0 => Cardinality(inFlight) <= MaxConcurrent

\* While an execution runs, the circuit of none of its markets is open: no other
\* handler can trip it, and one trial at a time probes a half-open circuit.
NoRunWhileCircuitOpen ==
    \A o \in Running : \A m \in MarketsOf[o] : breaker[m].state # "open"

\* Unless the threshold is changed while the system runs, a circuit that has
\* tripped remembers enough failures that the first failed trial trips it again.
TrippedCircuitRemembers ==
    (\A c, d \in Configs : c.threshold = d.threshold) =>
        \A m \in Markets :
            breaker[m].state # "closed" =>
                breaker[m].failures >= config.threshold \/ breaker[m].halfOk > 0

\* Admission implements the abstract locks.
Holders(m) == {o \in Running : m \in MarketsOf[o]}

Locks == INSTANCE MarketLocks WITH holders <- [m \in Markets |-> Holders(m)]

\* Seen through the markets the running executions trade, every step of admission
\* takes all of a free set of markets, gives a held set back, or changes nothing.
ImplementsLocks == Locks!Spec
=============================================================================

-------------------------- MODULE Admission_proofs --------------------------
(***************************************************************************)
(* Proofs about admission for every set of markets and opportunities, every*)
(* limit and every set of breaker configurations, and about admission with *)
(* the allowlist (MarketGuard): it refines admission, so what is proved of *)
(* the latter holds of the composition, and quarantines outlast circuits.  *)
(***************************************************************************)
EXTENDS MarketGuard, FiniteSetTheorems, TLAPS

-----------------------------------------------------------------------------
(* The operations on one breaker *)

\* Every operation on a breaker yields a breaker.
LEMMA BreakerTypes ==
    ASSUME NEW b \in Breaker, NEW t \in Nat, NEW cfg \in BreakerConfig
    PROVE  /\ Refresh(b, t, cfg) \in Breaker
           /\ OnSuccess(b, cfg) \in Breaker
           /\ OnFailure(b, t, cfg) \in Breaker
<1> USE DEF Breaker, CircuitState, BreakerConfig
<1>1. Refresh(b, t, cfg) \in Breaker
  BY DEF Refresh
<1>2. OnSuccess(b, cfg) \in Breaker
  BY DEF OnSuccess
<1>3. OnFailure(b, t, cfg) \in Breaker
  BY DEF OnFailure
<1>4. QED
  BY <1>1, <1>2, <1>3

\* Looking at a breaker never opens it, and a breaker seen not open stays so.
LEMMA RefreshNeverOpens ==
    ASSUME NEW b \in Breaker, NEW t \in Nat, NEW cfg \in BreakerConfig
    PROVE  /\ b.state # "open" => Refresh(b, t, cfg) = b
           /\ ~IsOpen(b, t, cfg) <=> Refresh(b, t, cfg).state # "open"
  BY DEF Refresh, IsOpen, Breaker, CircuitState

\* Every configuration an operator may set is a configuration of breakers.
LEMMA ConfigType ==
    ASSUME config \in Configs
    PROVE  config \in BreakerConfig
  BY LimitsAssumption

-----------------------------------------------------------------------------
(* Type correctness *)

\* The initial values have their types.
LEMMA TypeInit == Init => TypeOK
  BY LimitsAssumption DEF Init, TypeOK, Stages, NewBreaker, Breaker, CircuitState

\* Every action keeps the types.
LEMMA TypeStep == TypeOK /\ [Next]_vars => TypeOK'
<1> SUFFICES ASSUME TypeOK, [Next]_vars
             PROVE  TypeOK'
  OBVIOUS
<1> USE DEF TypeOK, Stages
<1>0. config \in BreakerConfig
  BY ConfigType
<1>1. \A S : Refreshed(S) \in [Markets -> Breaker]
  BY <1>0, BreakerTypes DEF Refreshed
<1>2. ASSUME NEW o \in Opps, Detect(o) \/ Drop(o)
      PROVE  TypeOK'
  BY <1>2 DEF Detect, Drop
<1>3. ASSUME NEW o \in Opps, ReleaseReservation(o)
      PROVE  /\ stage' \in [Opps -> Stages]
             /\ inFlight' \in SUBSET Markets
             /\ capital' \in Nat
             /\ reserved' \in [Opps -> Nat]
  BY <1>3 DEF ReleaseReservation
<1>4. ASSUME NEW o \in Opps, SettleThrown(o)
      PROVE  TypeOK'
  BY <1>3, <1>4 DEF SettleThrown
<1>5. ASSUME NEW o \in Opps, NEW m \in Markets, NEW looked \in SUBSET Markets,
             RejectCircuit(o, m, looked)
      PROVE  TypeOK'
  BY <1>1, <1>5 DEF RejectCircuit
<1>6. ASSUME NEW o \in Opps, NEW c \in Costs, RejectLimit(o, c) \/ RejectGate(o, c)
      PROVE  TypeOK'
  BY <1>1, <1>6 DEF RejectLimit, RejectGate
<1>7. ASSUME NEW o \in Opps, NEW c \in Costs, Admit(o, c)
      PROVE  TypeOK'
  <2>1. MarketsOf[o] \subseteq Markets /\ c \in Nat
    BY MarketsAssumption, LimitsAssumption
  <2>2. QED
    BY <1>1, <1>7, <2>1 DEF Admit
<1>8. ASSUME NEW o \in Opps, NEW outcome \in Outcomes, Settle(o, outcome)
      PROVE  TypeOK'
  <2>1. \A m \in Markets : Recorded(breaker[m], outcome) \in Breaker
    BY <1>0, BreakerTypes DEF Recorded, Outcomes
  <2>2. \A m \in Markets : Refresh(Recorded(breaker[m], outcome), now, config) \in Breaker
    BY <1>0, <2>1, BreakerTypes
  <2>3. breaker' \in [Markets -> Breaker]
    BY <1>8, <2>2 DEF Settle
  <2>4. QED
    BY <1>3, <1>8, <2>3 DEF Settle
<1>9. CASE LookAtBreakers
  BY <1>1, <1>9 DEF LookAtBreakers
<1>10. ASSUME NEW c \in Configs, UpdateBreakerConfig(c)
       PROVE  TypeOK'
  BY <1>10 DEF UpdateBreakerConfig
<1>11. CASE Tick
  BY <1>11 DEF Tick
<1>12. CASE UNCHANGED vars
  BY <1>12 DEF vars
<1>13. QED
  BY <1>2, <1>4, <1>5, <1>6, <1>7, <1>8, <1>9, <1>10, <1>11, <1>12 DEF Next

\* The state stays well typed: counters and clocks stay naturals, reservations
\* stay markets.
THEOREM TypeCorrect == Spec => []TypeOK
  BY TypeInit, TypeStep, PTL DEF Spec

-----------------------------------------------------------------------------
(* Reservations *)

ReservationInv ==
    /\ TypeOK
    /\ ReservationsMatchRunning
    /\ OneExecutionPerMarket

\* A step that neither admits nor settles leaves the running executions and the
\* reservations alone.
LEMMA QuietSteps ==
    ASSUME TypeOK, [Next]_vars,
           ~ \E o \in Opps, c \in Costs : Admit(o, c),
           ~ \E o \in Opps, outcome \in Outcomes : Settle(o, outcome),
           ~ \E o \in Opps : SettleThrown(o)
    PROVE  Running' = Running /\ UNCHANGED limits
<1> USE DEF Running, TypeOK, limits
<1>1. ASSUME NEW o \in Opps, Detect(o) \/ Drop(o)
      PROVE  Running' = Running /\ UNCHANGED limits
  BY <1>1 DEF Detect, Drop
<1>2. ASSUME NEW o \in Opps, NEW m \in Markets, NEW looked \in SUBSET Markets,
             RejectCircuit(o, m, looked)
      PROVE  Running' = Running /\ UNCHANGED limits
  BY <1>2 DEF RejectCircuit
<1>3. ASSUME NEW o \in Opps, NEW c \in Costs, RejectLimit(o, c) \/ RejectGate(o, c)
      PROVE  Running' = Running /\ UNCHANGED limits
  BY <1>3 DEF RejectLimit, RejectGate, Admissible
<1>4. CASE LookAtBreakers
  BY <1>4 DEF LookAtBreakers
<1>5. ASSUME NEW c \in Configs, UpdateBreakerConfig(c)
      PROVE  Running' = Running /\ UNCHANGED limits
  BY <1>5 DEF UpdateBreakerConfig
<1>6. CASE Tick
  BY <1>6 DEF Tick
<1>7. CASE UNCHANGED vars
  BY <1>7 DEF vars
<1>8. QED
  BY <1>1, <1>2, <1>3, <1>4, <1>5, <1>6, <1>7 DEF Next

\* Nothing is reserved initially.
LEMMA ReservationInit == Init => ReservationInv
<1> SUFFICES ASSUME Init PROVE ReservationInv
  OBVIOUS
<1>1. TypeOK
  BY TypeInit
<1>2. Running = {}
  BY DEF Init, Running
<1>3. QED
  BY <1>1, <1>2 DEF Init, ReservationInv, ReservationsMatchRunning, OneExecutionPerMarket

\* Admission takes free markets only, and a handler gives back what it took.
LEMMA ReservationStep == ReservationInv /\ [Next]_vars => ReservationInv'
<1> SUFFICES ASSUME ReservationInv, [Next]_vars
             PROVE  (ReservationsMatchRunning /\ OneExecutionPerMarket)'
  BY TypeStep DEF ReservationInv
<1> USE DEF ReservationInv, ReservationsMatchRunning, OneExecutionPerMarket
<1>1. ASSUME NEW o \in Opps, NEW c \in Costs, Admit(o, c)
      PROVE  (ReservationsMatchRunning /\ OneExecutionPerMarket)'
  <2>1. Running' = Running \cup {o}
    BY <1>1 DEF Admit, Running, TypeOK
  <2>2. MarketsOf[o] \cap inFlight = {} /\ inFlight' = inFlight \cup MarketsOf[o]
    BY <1>1 DEF Admit, Admissible, MarketInFlight
  <2>3. \A p \in Running : MarketsOf[p] \subseteq inFlight
    OBVIOUS
  <2>4. \A p \in Running : MarketsOf[p] \cap MarketsOf[o] = {}
    BY <2>2, <2>3
  <2>5. QED
    BY <2>1, <2>2, <2>4
<1>2. ASSUME NEW o \in Opps, stage[o] = "running", ReleaseReservation(o)
      PROVE  (ReservationsMatchRunning /\ OneExecutionPerMarket)'
  <2>1. o \in Running /\ Running' = Running \ {o}
    BY <1>2 DEF ReleaseReservation, Running, TypeOK
  <2>2. inFlight' = inFlight \ MarketsOf[o]
    BY <1>2 DEF ReleaseReservation
  <2>3. \A p \in Running' : MarketsOf[p] \cap MarketsOf[o] = {}
    BY <2>1
  <2>4. QED
    BY <2>1, <2>2, <2>3
<1>3. \A o \in Opps, outcome \in Outcomes :
        Settle(o, outcome) \/ SettleThrown(o) => stage[o] = "running" /\ ReleaseReservation(o)
  BY DEF Settle, SettleThrown
<1>4. CASE /\ ~ \E o \in Opps, c \in Costs : Admit(o, c)
           /\ ~ \E o \in Opps, outcome \in Outcomes : Settle(o, outcome)
           /\ ~ \E o \in Opps : SettleThrown(o)
  BY <1>4, QuietSteps DEF limits
<1>5. Outcomes # {}
  BY DEF Outcomes
<1>6. QED
  BY <1>1, <1>2, <1>3, <1>4, <1>5

\* The reservations are the markets of the running executions, and no two of
\* those share a market: the two facts need each other to be inductive.
THEOREM ReservationsCorrect ==
    Spec => [](ReservationsMatchRunning /\ OneExecutionPerMarket)
  BY ReservationInit, ReservationStep, PTL DEF Spec, ReservationInv

-----------------------------------------------------------------------------
(* Circuits *)

CircuitInv ==
    /\ ReservationInv
    /\ NoRunWhileCircuitOpen

\* The breaker of a market is changed by looking at it, by a change of nothing, or by
\* the outcome of an execution that trades it.
LEMMA BreakerSteps ==
    ASSUME TypeOK, [Next]_vars, NEW m \in Markets
    PROVE  \/ breaker'[m] = breaker[m]
           \/ breaker'[m] = Refresh(breaker[m], now, config)
           \/ \E o \in Opps, outcome \in Outcomes : Settle(o, outcome) /\ m \in MarketsOf[o]
<1> DEFINE Looked == \/ breaker'[m] = breaker[m]
                     \/ breaker'[m] = Refresh(breaker[m], now, config)
<1>1. ASSUME NEW S, breaker' = Refreshed(S)
      PROVE  Looked
  BY <1>1 DEF Refreshed
<1>2. ASSUME NEW o \in Opps, Detect(o) \/ Drop(o) \/ SettleThrown(o)
      PROVE  breaker' = breaker
  BY <1>2 DEF Detect, Drop, SettleThrown
<1>3. ASSUME NEW o \in Opps, NEW k \in Markets, NEW looked \in SUBSET Markets,
             RejectCircuit(o, k, looked)
      PROVE  Looked
  <2>1. breaker' = Refreshed(looked)
    BY <1>3 DEF RejectCircuit
  <2>2. QED
    BY <2>1, <1>1
<1>4. ASSUME NEW o \in Opps, NEW c \in Costs,
             RejectLimit(o, c) \/ RejectGate(o, c) \/ Admit(o, c)
      PROVE  Looked
  <2>1. breaker' = Refreshed(MarketsOf[o])
    BY <1>4 DEF RejectLimit, RejectGate, Admit
  <2>2. QED
    BY <2>1, <1>1
<1>5. ASSUME NEW o \in Opps, NEW outcome \in Outcomes, Settle(o, outcome), m \notin MarketsOf[o]
      PROVE  breaker'[m] = breaker[m]
  BY <1>5 DEF Settle
<1>6. CASE LookAtBreakers
  <2>1. breaker' = Refreshed(Markets)
    BY <1>6 DEF LookAtBreakers
  <2>2. QED
    BY <2>1, <1>1
<1>7. ASSUME NEW c \in Configs, UpdateBreakerConfig(c)
      PROVE  breaker' = breaker
  BY <1>7 DEF UpdateBreakerConfig
<1>8. CASE Tick
  BY <1>8 DEF Tick
<1>9. CASE UNCHANGED vars
  BY <1>9 DEF vars
<1>10. QED
  BY <1>2, <1>3, <1>4, <1>5, <1>6, <1>7, <1>8, <1>9 DEF Next

\* No execution runs initially.
LEMMA CircuitInit == Init => CircuitInv
  BY ReservationInit DEF Init, CircuitInv, NoRunWhileCircuitOpen, Running

\* A circuit is tripped only by the execution that holds its market, and an
\* execution starts only on circuits that are not open.
LEMMA CircuitStep == CircuitInv /\ [Next]_vars => CircuitInv'
<1> SUFFICES ASSUME CircuitInv, [Next]_vars
             PROVE  NoRunWhileCircuitOpen'
  BY ReservationStep DEF CircuitInv
<1> USE DEF CircuitInv, ReservationInv
<1>0. /\ now \in Nat
      /\ config \in BreakerConfig
      /\ \A m \in Markets : breaker[m] \in Breaker
      /\ \A o \in Opps : MarketsOf[o] \subseteq Markets
  BY ConfigType, MarketsAssumption DEF TypeOK
<1>1. ASSUME NEW o \in Opps, NEW c \in Costs, Admit(o, c)
      PROVE  NoRunWhileCircuitOpen'
  <2>1. Running' = Running \cup {o}
    BY <1>1 DEF Admit, Running, TypeOK
  <2>2. \A m \in Markets : breaker'[m] \in {breaker[m], Refresh(breaker[m], now, config)}
    BY <1>1 DEF Admit, Refreshed
  <2>3. \A p \in Running : \A m \in MarketsOf[p] : breaker'[m].state # "open"
    BY <1>0, <2>2, RefreshNeverOpens DEF NoRunWhileCircuitOpen, Running
  <2>4. \A m \in MarketsOf[o] : breaker'[m].state # "open"
    BY <1>0, <1>1, RefreshNeverOpens DEF Admit, Admissible, CircuitsClosed, BreakerOpen, Refreshed
  <2>5. QED
    BY <2>1, <2>3, <2>4 DEF NoRunWhileCircuitOpen
<1>2. ASSUME NEW o \in Opps, stage[o] = "running", ReleaseReservation(o),
             \A m \in Markets \ MarketsOf[o] : breaker'[m] = breaker[m]
      PROVE  NoRunWhileCircuitOpen'
  <2>1. o \in Running /\ Running' = Running \ {o}
    BY <1>2 DEF ReleaseReservation, Running, TypeOK
  <2>2. \A p \in Running' : MarketsOf[p] \cap MarketsOf[o] = {}
    BY <2>1 DEF OneExecutionPerMarket
  <2>3. \A p \in Running' : \A m \in MarketsOf[p] : breaker'[m] = breaker[m]
    BY <1>0, <1>2, <2>1, <2>2 DEF Running
  <2>4. QED
    BY <2>1, <2>3 DEF NoRunWhileCircuitOpen
<1>3. ASSUME NEW o \in Opps, NEW outcome \in Outcomes, Settle(o, outcome)
      PROVE  NoRunWhileCircuitOpen'
  BY <1>2, <1>3 DEF Settle
<1>4. ASSUME NEW o \in Opps, SettleThrown(o)
      PROVE  NoRunWhileCircuitOpen'
  BY <1>2, <1>4 DEF SettleThrown
<1>5. CASE /\ ~ \E o \in Opps, c \in Costs : Admit(o, c)
           /\ ~ \E o \in Opps, outcome \in Outcomes : Settle(o, outcome)
           /\ ~ \E o \in Opps : SettleThrown(o)
  <2>1. Running' = Running
    BY <1>5, QuietSteps
  <2>2. \A m \in Markets : breaker'[m] \in {breaker[m], Refresh(breaker[m], now, config)}
    BY <1>5, BreakerSteps
  <2>3. QED
    BY <1>0, <2>1, <2>2, RefreshNeverOpens DEF NoRunWhileCircuitOpen, Running
<1>6. QED
  BY <1>1, <1>3, <1>4, <1>5

\* No execution runs while the circuit of one of its markets is open.
THEOREM CircuitsShutWhileRunning == Spec => []NoRunWhileCircuitOpen
  BY CircuitInit, CircuitStep, PTL DEF Spec, CircuitInv

-----------------------------------------------------------------------------
(* Limits *)

CapitalInv == TypeOK /\ CapitalCap

\* The check against the capital limit and the addition are one step, and a release
\* only lowers the sum.
THEOREM CapitalWithinLimit == Spec => []CapitalCap
<1>1. Init => CapitalInv
  BY TypeInit, LimitsAssumption DEF Init, CapitalInv, CapitalCap
<1>2. CapitalInv /\ [Next]_vars => CapitalInv'
  <2> SUFFICES ASSUME CapitalInv, [Next]_vars
               PROVE  CapitalCap'
    BY TypeStep DEF CapitalInv
  <2> USE LimitsAssumption DEF CapitalInv, CapitalCap, TypeOK
  <2>1. ASSUME NEW o \in Opps, NEW c \in Costs, Admit(o, c)
        PROVE  CapitalCap'
    <3>1. capital \in Nat /\ c \in Nat /\ MaxCapital \in Nat
      OBVIOUS
    <3>2. capital' = capital + c /\ (MaxCapital > 0 => c = 0 \/ capital + c <= MaxCapital)
      BY ONLY <2>1, <3>1 DEF Admit, Admissible, TooMuchCapital
    <3>3. MaxCapital > 0 => capital <= MaxCapital
      BY DEF CapitalCap
    <3>4. QED
      BY ONLY <3>1, <3>2, <3>3 DEF CapitalCap
  <2>2. ASSUME NEW o \in Opps, ReleaseReservation(o)
        PROVE  CapitalCap'
    BY <2>2 DEF ReleaseReservation
  <2>3. \A o \in Opps, outcome \in Outcomes :
          Settle(o, outcome) \/ SettleThrown(o) => ReleaseReservation(o)
    BY DEF Settle, SettleThrown
  <2>4. CASE /\ ~ \E o \in Opps, c \in Costs : Admit(o, c)
             /\ ~ \E o \in Opps, outcome \in Outcomes : Settle(o, outcome)
             /\ ~ \E o \in Opps : SettleThrown(o)
    BY <2>4, QuietSteps DEF limits
  <2>5. Outcomes # {}
    BY DEF Outcomes
  <2>6. QED
    BY <2>1, <2>2, <2>3, <2>4, <2>5
<1>3. QED
  BY <1>1, <1>2, PTL DEF Spec, CapitalInv

ConcurrencyInv == TypeOK /\ ConcurrencyCap

\* The projection (markets in flight, plus those of the opportunity that are not) is
\* what the reservation makes of the set, so the limit holds for baskets too.
THEOREM ConcurrencyWithinLimit == Spec => []ConcurrencyCap
<1>1. Init => ConcurrencyInv
  BY TypeInit, LimitsAssumption, FS_EmptySet DEF Init, ConcurrencyInv, ConcurrencyCap
<1>2. ConcurrencyInv /\ [Next]_vars => ConcurrencyInv'
  <2> SUFFICES ASSUME ConcurrencyInv, [Next]_vars
               PROVE  ConcurrencyCap'
    BY TypeStep DEF ConcurrencyInv
  <2> USE LimitsAssumption, MarketsAssumption DEF ConcurrencyInv, ConcurrencyCap, TypeOK
  <2>0. IsFiniteSet(inFlight) /\ Cardinality(inFlight) \in Nat
    BY FS_Subset, FS_CardinalityType
  <2>1. ASSUME NEW o \in Opps, NEW c \in Costs, Admit(o, c)
        PROVE  ConcurrencyCap'
    <3>1. IsFiniteSet(NewReservations(o)) /\ Cardinality(NewReservations(o)) \in Nat
      BY FS_Subset, FS_CardinalityType DEF NewReservations
    <3>2. /\ inFlight' = inFlight \cup NewReservations(o)
          /\ inFlight \cap NewReservations(o) = {}
      BY <2>1 DEF Admit, NewReservations
    <3>3. Cardinality(inFlight') = Cardinality(inFlight) + Cardinality(NewReservations(o))
      <4>1. Cardinality(inFlight') = Cardinality(inFlight) + Cardinality(NewReservations(o))
                                       - Cardinality(inFlight \cap NewReservations(o))
        BY <2>0, <3>1, <3>2, FS_Union
      <4>2. Cardinality(inFlight \cap NewReservations(o)) = 0
        BY <3>2, FS_EmptySet
      <4>3. QED
        BY <2>0, <3>1, <4>1, <4>2
    <3>4. QED
      BY <2>0, <2>1, <3>1, <3>3 DEF Admit, Admissible, TooManyMarkets
  <2>2. ASSUME NEW o \in Opps, ReleaseReservation(o)
        PROVE  ConcurrencyCap'
    <3>1. inFlight' \subseteq inFlight
      BY <2>2 DEF ReleaseReservation
    <3>2. Cardinality(inFlight') <= Cardinality(inFlight) /\ Cardinality(inFlight') \in Nat
      BY <2>0, <3>1, FS_Subset, FS_CardinalityType
    <3>3. QED
      BY <2>0, <3>2
  <2>3. \A o \in Opps, outcome \in Outcomes :
          Settle(o, outcome) \/ SettleThrown(o) => ReleaseReservation(o)
    BY DEF Settle, SettleThrown
  <2>4. CASE /\ ~ \E o \in Opps, c \in Costs : Admit(o, c)
             /\ ~ \E o \in Opps, outcome \in Outcomes : Settle(o, outcome)
             /\ ~ \E o \in Opps : SettleThrown(o)
    BY <2>4, QuietSteps DEF limits
  <2>5. Outcomes # {}
    BY DEF Outcomes
  <2>6. QED
    BY <2>1, <2>2, <2>3, <2>4, <2>5
<1>3. QED
  BY <1>1, <1>2, PTL DEF Spec, ConcurrencyInv

-----------------------------------------------------------------------------
(* The memory of a tripped circuit *)

Memory(b, cfg) ==
    /\ b.state = "open" => b.failures >= cfg.threshold
    /\ b.state = "half-open" => b.failures >= cfg.threshold \/ b.halfOk > 0

SameThreshold == \A c, d \in Configs : c.threshold = d.threshold

\* Every operation keeps the memory of a breaker; a success only if the breaker is
\* not open, for it clears the failures and leaves an open breaker open.
LEMMA OperationsKeepMemory ==
    ASSUME NEW b \in Breaker, NEW t \in Nat, NEW cfg \in BreakerConfig,
           Memory(b, cfg)
    PROVE  /\ Memory(Refresh(b, t, cfg), cfg)
           /\ b.state # "open" => Memory(OnSuccess(b, cfg), cfg)
           /\ Memory(OnFailure(b, t, cfg), cfg)
<1> USE DEF Breaker, CircuitState, BreakerConfig, Memory
<1>1. Memory(Refresh(b, t, cfg), cfg)
  BY DEF Refresh
<1>2. b.state # "open" => Memory(OnSuccess(b, cfg), cfg)
  BY DEF OnSuccess
<1>3. Memory(OnFailure(b, t, cfg), cfg)
  BY DEF OnFailure
<1>4. QED
  BY <1>1, <1>2, <1>3

MemoryInv ==
    /\ CircuitInv
    /\ SameThreshold => \A m \in Markets : Memory(breaker[m], config)

\* While the threshold is not changed, a circuit that has tripped and has had no
\* successful trial holds enough failures to trip again at the next one.  It needs
\* that outcomes never reach an open circuit, hence the invariant above.
THEOREM TrippedCircuitsRemember == Spec => []TrippedCircuitRemembers
<1>1. Init => MemoryInv
  <2> SUFFICES ASSUME Init PROVE MemoryInv
    OBVIOUS
  <2>1. CircuitInv
    BY CircuitInit
  <2>2. \A m \in Markets : breaker[m].state = "closed"
    BY DEF Init, NewBreaker
  <2>3. QED
    BY <2>1, <2>2 DEF MemoryInv, Memory
<1>2. MemoryInv /\ [Next]_vars => MemoryInv'
  <2> SUFFICES ASSUME MemoryInv, [Next]_vars, SameThreshold, NEW m \in Markets
               PROVE  Memory(breaker'[m], config')
    BY CircuitStep DEF MemoryInv, SameThreshold
  <2> USE DEF MemoryInv, CircuitInv, ReservationInv
  <2>0. /\ now \in Nat
        /\ config \in BreakerConfig
        /\ breaker[m] \in Breaker
        /\ Memory(breaker[m], config)
    BY ConfigType DEF TypeOK
  <2>1. ASSUME NEW b, Memory(b, config)
        PROVE  Memory(b, config')
    <3>1. config' \in Configs /\ config \in Configs
      BY TypeStep DEF TypeOK
    <3>2. config'.threshold = config.threshold
      BY <3>1 DEF SameThreshold
    <3>3. QED
      BY <2>1, <3>2 DEF Memory
  <2>2. ASSUME NEW o \in Opps, NEW outcome \in Outcomes,
               Settle(o, outcome), m \in MarketsOf[o]
        PROVE  Memory(breaker'[m], config)
    <3>1. breaker[m].state # "open"
      BY <2>2 DEF Settle, Running, NoRunWhileCircuitOpen
    <3>2. Refresh(breaker[m], now, config) = breaker[m]
      BY <2>0, <3>1, RefreshNeverOpens
    <3>3. Recorded(breaker[m], outcome) \in Breaker
      BY <2>0, BreakerTypes, <3>2 DEF Recorded, Outcomes
    <3>4. Memory(Recorded(breaker[m], outcome), config)
      BY <2>0, <3>1, <3>2, OperationsKeepMemory DEF Recorded, Outcomes
    <3>5. breaker'[m] = Refresh(Recorded(breaker[m], outcome), now, config)
      BY <2>2 DEF Settle
    <3>6. QED
      BY <2>0, <3>3, <3>4, <3>5, OperationsKeepMemory
  <2>3. Memory(Refresh(breaker[m], now, config), config)
    BY <2>0, OperationsKeepMemory
  <2>4. Memory(breaker'[m], config)
    BY <2>0, <2>2, <2>3, BreakerSteps
  <2>5. QED
    BY <2>1, <2>4
<1>3. MemoryInv => TrippedCircuitRemembers
  <2> SUFFICES ASSUME MemoryInv, SameThreshold, NEW m \in Markets, breaker[m].state # "closed"
               PROVE  breaker[m].failures >= config.threshold \/ breaker[m].halfOk > 0
    BY DEF TrippedCircuitRemembers, SameThreshold
  <2>1. breaker[m].state \in CircuitState
    BY DEF MemoryInv, CircuitInv, ReservationInv, TypeOK, Breaker
  <2>2. QED
    BY <2>1 DEF MemoryInv, Memory, CircuitState
<1>4. QED
  BY <1>1, <1>2, <1>3, PTL DEF Spec

-----------------------------------------------------------------------------
(* Implementation of the abstract locks *)

\* Seen through the executions that run, admission is a lock per market, taken for
\* all the markets of an opportunity or for none.
THEOREM AdmissionImplementsLocks == Spec => ImplementsLocks
<1> DEFINE H == [m \in Markets |-> Holders(m)]
<1>1. Init => Locks!Init
  BY DEF Init, Locks!Init, Holders, Running
<1>2. ReservationInv /\ [Next]_vars => [Locks!Next]_H
  <2> SUFFICES ASSUME ReservationInv, [Next]_vars
               PROVE  Locks!Next \/ H' = H
    OBVIOUS
  <2> USE DEF ReservationInv
  <2>1. ASSUME NEW o \in Opps, NEW c \in Costs, Admit(o, c)
        PROVE  Locks!Acquire(o)
    <3>1. Running' = Running \cup {o}
      BY <2>1 DEF Admit, Running, TypeOK
    <3>2. \A m \in MarketsOf[o] : Holders(m) = {}
      BY <2>1 DEF Admit, Admissible, MarketInFlight, ReservationsMatchRunning, Holders
    <3>3. \A m \in MarketsOf[o] : Holders(m)' = {o}
      BY <3>1, <3>2 DEF Holders
    <3>4. \A m \in Markets \ MarketsOf[o] : Holders(m)' = Holders(m)
      BY <3>1 DEF Holders
    <3>5. QED
      BY <3>2, <3>3, <3>4, MarketsAssumption DEF Locks!Acquire
  <2>2. ASSUME NEW o \in Opps, stage[o] = "running", ReleaseReservation(o)
        PROVE  Locks!Release(o)
    <3>1. o \in Running /\ Running' = Running \ {o}
      BY <2>2 DEF ReleaseReservation, Running, TypeOK
    <3>2. \A m \in MarketsOf[o] : Holders(m) = {o}
      BY <3>1 DEF OneExecutionPerMarket, Holders
    <3>3. \A m \in MarketsOf[o] : Holders(m)' = {}
      BY <3>1, <3>2 DEF Holders
    <3>4. \A m \in Markets \ MarketsOf[o] : Holders(m)' = Holders(m)
      BY <3>1 DEF Holders
    <3>5. QED
      BY <3>2, <3>3, <3>4, MarketsAssumption DEF Locks!Release
  <2>3. \A o \in Opps, outcome \in Outcomes :
          Settle(o, outcome) \/ SettleThrown(o) => stage[o] = "running" /\ ReleaseReservation(o)
    BY DEF Settle, SettleThrown
  <2>4. CASE /\ ~ \E o \in Opps, c \in Costs : Admit(o, c)
             /\ ~ \E o \in Opps, outcome \in Outcomes : Settle(o, outcome)
             /\ ~ \E o \in Opps : SettleThrown(o)
    <3>1. Running' = Running
      BY <2>4, QuietSteps
    <3>2. QED
      BY <3>1 DEF Holders
  <2>5. Outcomes # {}
    BY DEF Outcomes
  <2>6. QED
    BY <2>1, <2>2, <2>3, <2>4, <2>5 DEF Locks!Next
<1>3. QED
  BY <1>1, <1>2, ReservationInit, ReservationStep, PTL DEF Spec, ImplementsLocks, Locks!Spec

-----------------------------------------------------------------------------
(* Admission with the allowlist *)

\* Every guarded step is a step of admission or leaves admission alone.
LEMMA GuardStepIsAdmissionStep == [GuardNext]_guardVars => [Next]_vars
<1> SUFFICES ASSUME [GuardNext]_guardVars PROVE [Next]_vars
  OBVIOUS
<1>1. ASSUME NEW o \in Opps, GuardedDetect(o)
      PROVE  Next
  BY <1>1 DEF GuardedDetect, Next
<1>2. ASSUME NEW o \in Opps, NEW m \in Markets, NEW looked \in SUBSET Markets,
             GuardedRejectCircuit(o, m, looked)
      PROVE  Next
  BY <1>2 DEF GuardedRejectCircuit, Next
<1>3. ASSUME NEW o \in Opps, NEW outcome \in Outcomes, GuardedSettle(o, outcome)
      PROVE  Next
  BY <1>3 DEF GuardedSettle, Next
<1>4. CASE OtherSteps
  BY <1>4 DEF OtherSteps, Next
<1>5. ASSUME NEW m \in Markets, Incident(m) \/ OperatorResume(m)
      PROVE  UNCHANGED vars
  BY <1>5 DEF Incident, OperatorResume
<1>6. ASSUME NEW S \in Catalogs, CatalogRefresh(S)
      PROVE  UNCHANGED vars
  BY <1>6 DEF CatalogRefresh
<1>7. CASE UNCHANGED guardVars
  BY <1>7 DEF guardVars
<1>8. QED
  BY <1>1, <1>2, <1>3, <1>4, <1>5, <1>6, <1>7 DEF GuardNext

\* The allowlist only restricts admission: every behaviour of the composition is a
\* behaviour of Admission.
THEOREM GuardImplementsAdmission == GuardSpec => Spec
<1>1. GuardInit => Init
  BY DEF GuardInit
<1>2. QED
  BY <1>1, GuardStepIsAdmissionStep, PTL DEF GuardSpec, Spec

\* Every step keeps the allowlist a function from markets to entries.
LEMMA GuardTypeStep ==
    TypeOK /\ GuardTypeOK /\ [GuardNext]_guardVars => GuardTypeOK'
<1> SUFFICES ASSUME TypeOK, GuardTypeOK, [GuardNext]_guardVars
             PROVE  GuardTypeOK'
  OBVIOUS
<1> USE DEF GuardTypeOK
<1>1. QuarantinedEntry \in Entry /\ AllowedEntry \in Entry
  BY ConfigType DEF QuarantinedEntry, AllowedEntry, Entry, TypeOK, BreakerConfig
<1>2. ASSUME NEW S, Quarantine(S) \/ Allow(S)
      PROVE  GuardTypeOK'
  BY <1>1, <1>2 DEF Quarantine, Allow
<1>3. \/ \E S : Quarantine(S) \/ Allow(S)
      \/ UNCHANGED allowlist
  BY DEF GuardNext, GuardedDetect, GuardedRejectCircuit, GuardedSettle, Incident,
         OperatorResume, CatalogRefresh, guardVars
<1>4. QED
  BY <1>2, <1>3

\* The allowlist holds an entry per market throughout.
THEOREM GuardTypeCorrect == GuardSpec => []GuardTypeOK
<1>1. GuardInit => TypeOK /\ GuardTypeOK
  BY TypeInit DEF GuardInit, GuardTypeOK, Entry, AllowedEntry
<1>2. (TypeOK /\ GuardTypeOK) /\ [GuardNext]_guardVars => (TypeOK /\ GuardTypeOK)'
  BY TypeStep, GuardTypeStep, GuardStepIsAdmissionStep
<1>3. QED
  BY <1>1, <1>2, PTL DEF GuardSpec

-----------------------------------------------------------------------------
(* Quarantines and circuits *)

\* A quarantine on an open circuit ends no earlier than the circuit's cooldown.
Outlasts(m) ==
    breaker[m].state = "open" /\ allowlist[m].status = "quarantined" =>
        allowlist[m].until >= breaker[m].lastFailure + config.cooldown

GuardInv ==
    /\ CircuitInv
    /\ GuardTypeOK
    /\ \A m \in Markets : breaker[m].lastFailure <= now
    /\ \A m \in Markets : Outlasts(m)

SameCooldown == \A c, d \in Configs : c.cooldown = d.cooldown

\* What a step does to the entry of one market.
LEMMA EntrySteps ==
    ASSUME GuardTypeOK, [GuardNext]_guardVars, NEW m \in Markets
    PROVE  allowlist'[m] \in {allowlist[m], QuarantinedEntry, AllowedEntry}
<1>1. ASSUME NEW S, Quarantine(S) \/ Allow(S)
      PROVE  allowlist'[m] \in {allowlist[m], QuarantinedEntry, AllowedEntry}
  BY <1>1 DEF Quarantine, Allow
<1>2. \/ \E S : Quarantine(S) \/ Allow(S)
      \/ UNCHANGED allowlist
  BY DEF GuardNext, GuardedDetect, GuardedRejectCircuit, GuardedSettle, Incident,
         OperatorResume, CatalogRefresh, guardVars
<1>3. QED
  BY <1>1, <1>2

\* The breaker of a market is left alone, looked at, or told the outcome of an
\* execution that trades it, together with the allowlist.
LEMMA GuardBreakerSteps ==
    ASSUME TypeOK, [GuardNext]_guardVars, NEW m \in Markets
    PROVE  \/ breaker'[m] \in {breaker[m], Refresh(breaker[m], now, config)}
           \/ \E o \in Opps, outcome \in Outcomes : GuardedSettle(o, outcome) /\ m \in MarketsOf[o]
<1> DEFINE Looked == breaker'[m] \in {breaker[m], Refresh(breaker[m], now, config)}
<1>1. ASSUME NEW o \in Opps, GuardedDetect(o)
      PROVE  Looked
  BY <1>1 DEF GuardedDetect, Detect
<1>2. ASSUME NEW o \in Opps, NEW k \in Markets, NEW looked \in SUBSET Markets,
             GuardedRejectCircuit(o, k, looked)
      PROVE  Looked
  BY <1>2 DEF GuardedRejectCircuit, RejectCircuit, Refreshed
<1>3. ASSUME NEW o \in Opps, NEW outcome \in Outcomes, GuardedSettle(o, outcome),
             m \notin MarketsOf[o]
      PROVE  Looked
  BY <1>3 DEF GuardedSettle, Settle
<1>4. CASE OtherSteps
  BY <1>4 DEF OtherSteps, Drop, SettleThrown, RejectLimit, RejectGate, Admit, LookAtBreakers,
              UpdateBreakerConfig, Tick, Refreshed
<1>5. CASE UNCHANGED breaker
  BY <1>5
<1>6. QED
  BY <1>1, <1>2, <1>3, <1>4, <1>5
     DEF GuardNext, Incident, OperatorResume, CatalogRefresh, guardVars, vars

\* A circuit that an outcome opens failed just now.
LEMMA OpenedByFailure ==
    ASSUME NEW b \in Breaker, NEW t \in Nat, NEW cfg \in BreakerConfig, b.state # "open"
    PROVE  /\ OnSuccess(b, cfg).state # "open"
           /\ OnFailure(b, t, cfg).lastFailure = t
           /\ OnSuccess(b, cfg).lastFailure = b.lastFailure
  BY DEF OnSuccess, OnFailure, Breaker, CircuitState, BreakerConfig

\* Looking keeps the time of the last failure.
LEMMA RefreshKeepsFailure ==
    ASSUME NEW b \in Breaker, NEW t \in Nat, NEW cfg \in BreakerConfig
    PROVE  /\ Refresh(b, t, cfg).lastFailure = b.lastFailure
           /\ Refresh(b, t, cfg).state = "open" => b.state = "open"
  BY DEF Refresh, Breaker, CircuitState

\* The quarantine that accompanies a trip lasts as long as the trip, and whatever
\* replaces it later lasts longer, or lifts it.
LEMMA GuardInvStep ==
    ASSUME SameCooldown
    PROVE  GuardInv /\ [GuardNext]_guardVars => GuardInv'
<1> SUFFICES ASSUME GuardInv, [GuardNext]_guardVars, NEW m \in Markets
             PROVE  breaker'[m].lastFailure <= now' /\ Outlasts(m)'
  BY CircuitStep, GuardTypeStep, GuardStepIsAdmissionStep
     DEF GuardInv, CircuitInv, ReservationInv
<1> USE DEF GuardInv, CircuitInv, ReservationInv
<1>0. [Next]_vars /\ TypeOK'
  BY GuardStepIsAdmissionStep, TypeStep
<1>1. /\ now \in Nat
      /\ config \in BreakerConfig /\ config.cooldown \in Nat
      /\ breaker[m] \in Breaker /\ breaker[m].lastFailure \in Nat
      /\ breaker[m].lastFailure <= now
  BY ConfigType DEF TypeOK, BreakerConfig, Breaker
<1>2. config'.cooldown = config.cooldown
  BY <1>0 DEF TypeOK, SameCooldown
<1>3. now' \in Nat /\ now' >= now
  <2>1. now' = now \/ now' = now + 1
    BY <1>0 DEF Next, Detect, Drop, SettleThrown, RejectCircuit, RejectLimit, RejectGate,
                Admit, Settle, LookAtBreakers, UpdateBreakerConfig, Tick, vars
  <2>2. QED
    BY <1>1, <2>1
<1>4. ASSUME breaker'[m] \in {breaker[m], Refresh(breaker[m], now, config)}
      PROVE  breaker'[m].lastFailure <= now' /\ Outlasts(m)'
  <2>1. /\ breaker'[m].lastFailure = breaker[m].lastFailure
        /\ breaker'[m].state = "open" => breaker[m].state = "open"
    BY <1>1, <1>4, RefreshKeepsFailure
  <2>2. allowlist'[m] \in {allowlist[m], QuarantinedEntry, AllowedEntry}
    BY EntrySteps
  <2>3. QED
    BY <1>1, <1>2, <1>3, <2>1, <2>2 DEF Outlasts, QuarantinedEntry, AllowedEntry
<1>5. ASSUME NEW o \in Opps, NEW outcome \in Outcomes, GuardedSettle(o, outcome), m \in MarketsOf[o]
      PROVE  breaker'[m].lastFailure <= now' /\ Outlasts(m)'
  <2>1. breaker[m].state # "open" /\ Refresh(breaker[m], now, config) = breaker[m]
    <3>1. breaker[m].state # "open"
      BY <1>5 DEF GuardedSettle, Settle, Running, NoRunWhileCircuitOpen
    <3>2. QED
      BY <1>1, <3>1, RefreshNeverOpens
  <2>2. PICK r : r = Recorded(breaker[m], outcome)
    OBVIOUS
  <2>3. /\ r \in Breaker
        /\ r.lastFailure \in {breaker[m].lastFailure, now}
        /\ r.state = "open" => r.lastFailure = now
    BY <1>1, <2>1, <2>2, BreakerTypes, OpenedByFailure DEF Recorded, Outcomes
  <2>4. breaker'[m] = Refresh(r, now, config)
    BY <1>5, <2>2 DEF GuardedSettle, Settle
  <2>5. /\ breaker'[m].lastFailure = r.lastFailure
        /\ breaker'[m].state = "open" => r.state = "open"
    BY <1>1, <2>3, <2>4, RefreshKeepsFailure
  <2>6. ASSUME breaker'[m].state = "open"
        PROVE  allowlist'[m] = QuarantinedEntry
    <3>1. Trips(m, outcome)
      BY <1>1, <2>1, <2>2, <2>4, <2>6, RefreshNeverOpens DEF Trips, BreakerOpen
    <3>2. QED
      BY <1>5, <3>1 DEF GuardedSettle, Quarantine
  <2>7. QED
    BY <1>1, <1>2, <1>3, <2>3, <2>5, <2>6 DEF Outlasts, QuarantinedEntry
<1>6. QED
  BY <1>4, <1>5, GuardBreakerSteps

\* For a fixed cooldown, the clock never ends the quarantine of a market whose
\* circuit is still open.
THEOREM QuarantineOutlastsCircuit ==
    ASSUME SameCooldown
    PROVE  GuardSpec => ExpiryFindsCircuitShut
<1>1. GuardInit => GuardInv
  <2> SUFFICES ASSUME GuardInit PROVE GuardInv
    OBVIOUS
  <2>1. CircuitInv /\ GuardTypeOK
    BY CircuitInit DEF GuardInit, GuardTypeOK, Entry, AllowedEntry
  <2>2. QED
    BY <2>1 DEF GuardInit, Init, NewBreaker, AllowedEntry, GuardInv, Outlasts
<1>2. GuardInv /\ [GuardNext]_guardVars => GuardInv'
  BY GuardInvStep
<1>3. GuardInv /\ GuardInv' /\ [GuardNext]_guardVars =>
        \A m \in Markets : (now' > now /\ ~Allowed(m) /\ Allowed(m)') => ~BreakerOpen(m)'
  <2> SUFFICES ASSUME GuardInv, GuardInv', [GuardNext]_guardVars, NEW m \in Markets,
                      now' > now, ~Allowed(m), Allowed(m)'
               PROVE  ~BreakerOpen(m)'
    OBVIOUS
  <2> USE DEF GuardInv, CircuitInv, ReservationInv
  <2>1. /\ breaker'[m] \in Breaker /\ now' \in Nat /\ config' \in BreakerConfig
        /\ breaker'[m].lastFailure \in Nat /\ config'.cooldown \in Nat
    BY LimitsAssumption DEF TypeOK, Breaker, BreakerConfig
  <2>2. allowlist' = allowlist
    <3>1. CASE OtherSteps /\ UNCHANGED allowlist
      BY <3>1
    <3>2. ASSUME NEW o \in Opps, GuardedDetect(o)
          PROVE  FALSE
      BY <3>2 DEF GuardedDetect, Detect, TypeOK
    <3>3. ASSUME NEW o \in Opps, NEW k \in Markets, NEW looked \in SUBSET Markets,
                 GuardedRejectCircuit(o, k, looked)
          PROVE  FALSE
      BY <3>3 DEF GuardedRejectCircuit, RejectCircuit, TypeOK
    <3>4. ASSUME NEW o \in Opps, NEW outcome \in Outcomes, GuardedSettle(o, outcome)
          PROVE  FALSE
      BY <3>4 DEF GuardedSettle, Settle, TypeOK
    <3>5. ASSUME UNCHANGED vars
          PROVE  FALSE
      BY <3>5 DEF vars, TypeOK
    <3>6. QED
      BY <3>1, <3>2, <3>3, <3>4, <3>5
         DEF GuardNext, Incident, OperatorResume, CatalogRefresh, guardVars
  <2>3. allowlist'[m].status = "quarantined" /\ now' >= allowlist'[m].until
    BY <2>2 DEF Allowed, GuardTypeOK, Entry
  <2>4. CASE breaker'[m].state = "open"
    <3>1. allowlist'[m].until >= breaker'[m].lastFailure + config'.cooldown
      BY <2>3, <2>4 DEF Outlasts
    <3>2. allowlist'[m].until \in Nat
      BY DEF GuardTypeOK, Entry
    <3>3. now' - breaker'[m].lastFailure >= config'.cooldown
      BY <2>1, <2>3, <3>1, <3>2
    <3>4. QED
      BY <2>1, <2>4, <3>3 DEF BreakerOpen, IsOpen, Refresh, CooledDown, Breaker
  <2>5. CASE breaker'[m].state # "open"
    BY <2>1, <2>5, RefreshNeverOpens DEF BreakerOpen
  <2>6. QED
    BY <2>4, <2>5
<1>4. QED
  BY <1>1, <1>2, <1>3, PTL DEF GuardSpec, ExpiryFindsCircuitShut

=============================================================================

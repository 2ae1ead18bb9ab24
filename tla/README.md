# A verification of openpolytrader's trading core

openpolytrader is a trading bot for binary prediction markets. It scans order books for a
YES/NO pair that costs less than its payout, for a side that is worth more than it costs, and
for baskets of dependent markets; decides whether and how much to trade; submits the legs;
and recovers when only some of them trade. This directory holds TLA+ models of the process
and its agents, TLC runs that check them on small instances, and TLAPS proofs of the
properties that matter most for every value of their constants. Paths below are relative to
`src/src/` unless they begin with `docs/` or `tests/`, which are relative to `src/`.

## The system

One Node.js process. Its state is in memory, apart from the event store, and changes only
between two awaits of the event loop. So an action of a model is everything from one await to
the next; what another handler, a message of the venue or a timer may do happens between
actions.

| Component | State | Operations | Talks to | Correct means |
|---|---|---|---|---|
| Supervisor (`core/Supervisor.ts`) | markets and capital in flight, trading mode, flags of scans and reconciliations | handle an updated market, an opportunity, an approved opportunity; scan; reconcile; start, stop; synthetic test | everything, by awaited calls and the message bus | reservations fit what runs; limits hold; no update is forgotten |
| Circuit breakers (`core/CircuitBreaker.ts`) | state, failures, time of the last one, trials, per market | look, success, failure, settings | Supervisor | nothing runs on an open circuit; a tripped one remembers |
| Allowlist, incidents (`domain/allowlist.ts`, `services/IncidentTracker.ts`) | status and end of quarantine per market | seed, allow, quarantine, look | scanner, Supervisor, recovery, refresher, API | quarantine and circuit agree |
| Scanner, gates, risk, preflight (`agents/scanner/`, `domain/gates.ts`, `agents/risk/`, `ExecutionPreflight.ts`) | last EV trade, counters of orders and fills | evaluate a pair, decide, size, check once more | Supervisor, advisor (a language model) | what starts is still worth it; caps hold; pairs and EV trades keep the velocity limit |
| Paired runner, recovery (`ExecutionPairedRunner.ts`, `ExecutionFailureRecovery.ts`) | the record of one execution | submit, await, cancel, unwind | venue, tracker, lifecycle | both legs, or at most one sold back |
| Basket and EV runners (`ExecutionBasketRunner.ts`, `ExecutionEvRunner.ts`) | the legs of a basket; one order and its idempotency record | batch or sequential submission, awaits, cancels, unwinds | venue, tracker | whole or settled; nothing known left behind |
| Lifecycle (`domain/execution.ts`) | state, submitted, acked and filled legs | one transition per event, or a refusal | runners | no refused event, no way back |
| Order tracker, portfolio (`ExecutionOrderTracker.ts`, `agents/portfolio/`) | what was told of each order, trades seen, waiters; positions | order and trade events, wait, clean up; book a fill | user channel, runner, risk | never ahead of the venue; booked once |
| Execution agent, event store (`ExecutionAgent.ts`, `core/EventStore.ts`) | active executions; the log | transition and log, restore | runners, reconciliation, learning | nothing unfinished is forgotten |
| Realtime (`services/PolymarketRealtime.ts`) | socket, timers, subscriptions | connect, reconnect, heartbeat, subscribe, close | market data, tracker | one connection, with what is wanted |
| Market data (`agents/market-data/`) | order books | messages, snapshots, subscriptions, refresh | Realtime, Supervisor | books catch up with the venue |
| Projection, dependencies (`agents/projection/`, `agents/dependency/`, `services/ip-oracle/`) | cache, waits, circuit, slots of the oracle | scan the universe, resolve dependencies, iterate with the oracle | Supervisor, language model, oracle | scans do not starve; weak legs are not announced |
| Trading state, catalog (`core/TradingStateManager.ts`, `boot/runtimeLifecycle.ts`, `services/MarketCatalogRefresher.ts`) | mode, switch, pairs, back-off | set, refresh page by page, pass the result on | Supervisor, market data, signals | switch and mode as decided; copies of the catalog agree |
| Start, reconciliation, shutdown (`core/shutdown.ts`, `Supervisor`) | phase, reconciliation under way, timers | start, reconcile, stop, cancel all, exit | venue, active set | own orders spared; nothing left open |
| Signals (`agents/signal/`, `services/websearch/SearchRouter.ts`) | cached insights and metadata, the round under way | select, route, search, cache | scanner, learning | due markets get their turn |
| Learning (`agents/learning/`) | counts per market, snapshot | count, prune, save, replay, synthesize | event store, bus | nothing counted twice |
| Venue client (`services/PolymarketClob.ts`, `RateLimiter.ts`, `RetryPolicy.ts`) | bucket, line, attempts, nonces | call, wait, send again | runners, reconciliation | an order once; no false acceptance |
| Operations and SLOs, language models, clients of web searches, configuration, API, telemetry, tools | | | | not modelled, see below |

`PROJECT.json` lists every component with its files, its status and what is left out of it.

### What is hard

* Handlers of different opportunities interleave at every await and share the reservations,
  the circuits, the allowlist, the books and the counters.
* A circuit's cooldown and a market's quarantine run on two clocks started in different places.
* A request whose timer fired is abandoned, not recalled; the order may arrive later, and the
  repetition of a call with it.
* The user channel tells of fills late, again, in another order, or never; market messages are
  lost with their connection, left out, or overtaken by a snapshot asked for earlier.
* Cancels race fills, and the unwind sells what was thought to be filled.
* Scans, refreshes, rounds and reconciliations are throttled, coalesced, dropped and resumed by
  flags and timers that others set around awaits; an error in one of them must not stop all.
* The process may stop anywhere, and is rebuilt from a log whose timestamps have three origins.

The 40 places where such things bite are the `hazards` of `PROJECT.json`, with the properties
that cover them, or the reason none does.

## The modules

| Module | Models | Kind |
|---|---|---|
| `CircuitBreaker` | one breaker | operators |
| `Admission` | `handleRiskApproved`: circuits, limits, reservations, outcome, release | component |
| `MarketLocks` | all-or-nothing locks on sets of markets | abstract spec of `Admission` |
| `MarketGuard` | `Admission` with the allowlist, incidents, resumes, catalog refreshes | composition |
| `OrderBook`, `TradeGates`, `RiskSizing`, `Preflight`, `PairScan` | books, gates, sizes, last checks, the evaluation of a pair | operators |
| `DecisionPipeline` | from a market update to the orders, for several opportunities at once | composition |
| `ExecutionState`, `Lifecycle` | the transition table; any sequence of events | operators, component |
| `PairedExecution` | one pair: runner, recovery, user channel, venue | component with environment |
| `PairOutcome` | traded with both legs, or reported with at most one sold back | abstract spec of `PairedExecution` |
| `BasketExecution` | one basket: batch, fills, cancels, unwinds, pairs one by one | component with environment |
| `EvExecution` | one single-leg order with its idempotency record | component with environment |
| `Executions` | an execution of any kind, as the agent dispatches it | composition |
| `ExecutionLog` | several executions, their log, crash and restart | component |
| `FillTracking` | tracker and portfolio over several orders of one token | composition |
| `Realtime` | a connection that is kept up | component, part of `MarketData` |
| `MarketData` | order books over a connection, snapshots, subscriptions, the venue | composition |
| `Relations`, `Projection` | dependencies between markets; the projection of a universe | operators |
| `FwScan` | scans of the universe with resolver, cache, oracle loop and its circuit | component |
| `Operations` | trading state, catalog refresher, copies of the catalog, synthetic test | component |
| `Reconciliation` | start, reconciliations, executions reduced to orders, shutdown | component |
| `Signals`, `Learning`, `VenueCalls` | rounds of searches; counts and their snapshot; calls with retries | components |
| `Services` | one of the last six, whichever | disjoint sum |
| `MC...` | instances for TLC | |
| `..._proofs` | theorems about the module of that name; `Admission_proofs` also about `MarketGuard`, `Executions_proofs` about `PairedExecution`, `BasketExecution`, `EvExecution` and `Lifecycle`, `Services_proofs` about `Operations`, `Reconciliation`, `Learning` and `VenueCalls`, `FwScan_proofs` also about `Services` | proofs |

### How state and actions correspond to the code

**Admission.** `stage[o]` says where the handler of an opportunity is: not there, detected and
waiting for prioritisation and risk, or running its execution. `Admit`, `RejectCircuit`,
`RejectLimit`, `RejectGate` are the paths of the turn between the two awaits, `Settle` and
`SettleThrown` the turn after the execution, `finally` included. Looking at a breaker moves it,
so every action that looks says what it has moved (`Refreshed`). **MarketGuard** conjoins every
action with what it does to the allowlist and adds the writers from outside.

**DecisionPipeline.** A job is one opportunity on its way: in its prioritisation or projection
(`ordering`), at the advisor (`sizing`), executing. `MarketUpdated` replaces a book and scans
the pair in the same turn; `FwScan` and `FwBasketScan` announce what a projection found;
`Ordered` is the turn after prioritisation, `Approve` the one after the advisor with gates,
preflight and counters, `Finish` what comes back. A basket asks only for the mode before it starts.
As a batch its orders are not counted; market by market (the default, and after a refused batch) each
pair has a preflight of its own, at the time the basket was started with and without books, and is
counted at that time (`TryPair`, `Attempted`), so the list of order attempts, which the preflight
prunes from its front (`PrunedTo`), is not in the order of time. `progress` is the time an execution
was started with and how far a basket has come. Prices are whole numbers of their smallest
unit, so every comparison and rounding of the code is exact integer arithmetic, and the
operators of the five modules above are called, not abstracted.

**PairedExecution.** `pc` names the await. Runner and recovery go from await to await; the
environment moves orders, replies, the user channel's events, timers and cancels in between.
Conditions on latencies are nondeterministic. `userChannel` is chosen per execution. The unwind
order is one answer with any amount sold up to what the leg holds. **BasketExecution** keeps
orders, records and answers per order and legs per market; the batch is answered by order, by a
count, by a bare success, or not at all; a pair executed on its own is only its outcome.
**EvExecution** is one fill-or-kill order with the record its retry would meet and timeouts
that advice may shorten, never to zero; a timeout configured as zero sets no timer.

**ExecutionLog.** The lifecycle operators on several executions, each with its own part of the log.
The transitions of one turn that carry one time are one append, of the last snapshot; the two
acknowledgements of a turn, each with the time of its answer, are two. A time is the clock of the
turn, the time an answer came at, or what the user channel observed: the venue's time of a match, or
the time the event was received, which may both lie before an acknowledgement that is logged already
(`Since`). The venue's clock is taken not to lie outside of the execution.

**FillTracking.** Orders buy the same token one after the other. Trades and order events come in any
order, any number of times, before, while and after the execution runs.

**Realtime, MarketData.** The socket held, sockets let go whose close event is to come, and
reconnect timers are counted; every failure is a bounded fault. `wire` holds the messages under
way on the connection and is lost with it; `rest` the snapshots under way, read when the venue
answers and applied whenever they arrive. The versions of the venue's books are what
`exchangeTimestamp` orders. Time is two-valued: recent, and long ago for staleness and cooldowns.

**FwScan.** `scan` is the scan under way, with its stage (asking the model, solving), `inFlight`
/ `pending` / `deferred` the supervisor's coalescing; the resolver's cache, its waits and the
oracle's circuit are kept as ages in ticks. Sources are merged and filtered by the operators of
`Relations`; entries, bounds, constraints, selection and basket are those of `Projection`. What
the solver and the oracle return is nondeterministic within what their answers may be.

**Operations.** `manager` is what the operator decided, `trading` the switch and the mode the agents
work with: live orders are placed when it is on and live. A request that changes mode and switch is
two commands of one turn, here in any order with others between them. `crossed` is a history variable,
for the property only.
A refresh is taken page by page over a listing that may change between pages; `copies` are the
five places a refresh is passed on to. **Reconciliation.** `recon` is the reconciliation under
way with what it has read so far. Executions are reduced to placing, acknowledging, ending.
**Signals.** A round selects, asks for heartbeats, then searches, with as many workers as the
policy says; an error while selecting aborts the round for all, while what the other workers
asked for may still arrive (`strays`). **Learning.** Stored events carry a time; the snapshot
knows only up to which time it has counted. **VenueCalls.** A call stands in line for the
bucket, is sent, and sent again after a delay; requests that were given up stay under way.

Operators with "Not in the code" or "Mutant of" in their comment are no part of a
specification. Each changes one definition the way a plausible bug would; a run with the changed
definition violates the property it was written for, which shows that the property depends on
that line of the code.

## The runs

| Run | Question | Bounds |
|---|---|---|
| `admission` | are reservations and circuits consistent when handlers interleave, and is it all-or-nothing locking? | three slots, three markets, a basket sharing a market with a single; two markets, two units of capital; two settings changed at run time; clock to 1, two failures |
| `market_guard` | does the end of a quarantine find the circuit ready? | two markets, a single and a basket; cooldown 2, clock to 3 |
| `market_guard_start` | can an execution start on a quarantined market? (it can: finding) | as above |
| `pipeline` | do EV trades keep their distance, do pairs and EV trades keep the velocity limit, and does nothing start too dear? | two opportunities at once, two markets, all types, baskets as a batch and pair by pair; two policies, two books with up to two levels, two changes from outside, clock to 2; it starts with books and an insight in place, so that two changes are enough for two executions |
| `pipeline_ev_cap` | does a market stay within the EV cap? (no: finding) | one market, EV policy only, from the start of the process |
| `executions` | what do a pair, a basket, a single leg and the table itself guarantee against any venue and network? | legs of size 2, so that partial fills exist; baskets of two markets; the rest is finite |
| `execution_log` | does a restart rebuild the active set, and lose nothing? | two executions, clock to 2: three times, so that an observed time can lie before an acknowledgement and after the submission |
| `execution_log_finished` | does what has finished stay finished? (no: finding) | as above |
| `fill_tracking` | is what is known and booked of orders true of the venue? | two orders of size 2, two trades |
| `fill_tracking_again` | is a trade booked once, ever? (no: finding) | one order |
| `market_data` | is there one connection, with the tokens wanted, and do books catch up? | two tokens, one fault, one change of a book, one of the subscriptions, one message ahead of a change, two tick sizes |
| `services` | the twelve properties of the six services, below | see below |

In `services`: *scans* over three markets with two books each, two updates, three policies
(language model, relation catalog, cohorts, with and without convergence), one slot and two
iterations of the oracle; *trading* with two listed markets of which one is known, a listing of
two pages that changes once, two commands, one test, one outage; *life* with one restored, one
orphaned and one new order and one failure of the venue; *signals* with two markets, one
official, two routings, one or two workers, one change; *learning* with two markets, three
events, a clock to 3 and a retention of one tick; *calls* with an order and a batch on a bucket
of one, two retries.

These bounds let every case happen: every action and every disjunct fires in some passing run.
Overlap and a full limit, a circuit that trips, cools down, is probed and trips again, a partial
fill of either leg, a repetition of each trade, a crash between any two turns, a connection
lost and silent, a snapshot that overtakes an update, a scan deferred behind a running one, a
refresh whose second page is of another listing, an aborted round, a restart after a pruned
snapshot, a late first attempt after the second. More slots, markets, faults or retries repeat
these cases; the theorems below cover every invariant and every action property of these runs for
any number.

What the twelve properties of `services` say: an update is scanned in the end
(`UpdatesGetScanned`), no scan finds the oracle's slots taken (`NeverCrowdedOut`), no leg below
the threshold is announced although it was selected by another bound (`NoWeakLegAnnounced`);
the switch and the mode of the agents are those decided on, but for a process that still waits for its
first catalog and for synthetic tests that a command or another test has crossed (`TradingAsDecided`); copies of the catalog agree and stay
within their size (`CatalogAgrees`), trading begins in the end (`Unblocks`); the first
reconciliation spares the orders of executions (`OwnOrdersSpared`), shutdown leaves nothing open
that it could cancel (`NothingLeftOpen`); a market that stays due is searched for again and again
(`RoundsReachDueMarkets`); no market counts more events than are stored (`NothingCountedTwice`, a
statement about totals); a call places one
order (`OneOrderPerCall`) and "accepted" is true (`AcceptedMeansPlaced`).

`Executions` and `Services` are disjoint sums: a behaviour is of one kind or one service, chosen
at the start, and the state of the others does not move. For `Executions` that is how the code
is: an execution is of one kind. The six services do run together in the process, but reach each
other only through the policy, the catalog, the bus and the answers of the venue, and each of
their modules lets those change or fail at any time; so what holds of a service alone holds of it
among the others.

Every module has a type invariant. The runs check properties that several steps or actors are
needed to break; where a module has theorems, the types its proof needs are part of the proved
invariant.

`CHECK_DEADLOCK FALSE` is set where the modelled thing ends: a finished execution with closed
orders, a log whose executions have finished, a process that has exited, bounds that are used up.

### Fairness

Fairness is stated only for liveness, per kind of execution or per service, and always of what
the event loop or a timer brings about:

* `Executions`: the next turn of a runner is taken when it can be (the loop runs resolved
  promises), and the timers of submissions, fills, cancels and unwinds fire (`withTimeout`,
  `waitForFillOutcome`). Nothing is assumed of the venue, the network or the user channel. With a
  timeout of zero the code sets no timer and the model none.
* `MarketData`: close events are reported and timers fire; the venue accepts a connection,
  delivers what it has sent on one that is alive, and answers snapshots, unless one of the bounded
  faults happens; a book that is not updated grows old. Catching up cannot be had without a venue
  that answers.
* `Services`: the clock ticks and a turn of a scan that has begun ends; a scan leaves each of its
  stages, because its requests have timeouts; refreshes start at the interval, their pages come
  or fail, back-offs end; rounds start at their interval, go on, and every search is answered or
  times out. Some conditions are stated as "again and again the scan is not in this stage": that
  is what timeouts guarantee, whichever of the answers it was that ended the stage.

## The proofs

Every theorem is checked by `tlapm` without assumptions other than the named ones on the
constants, and holds for every number of opportunities, markets, executions, orders, tokens,
calls, events and trades, every size, limit and setting. Each inductive invariant was checked by
TLC on the instance of its run before it was proved.

* `Admission_proofs`. `ReservationInv` joins the types, that reservations are the markets of
  the running executions and that these do not overlap; the disjointness is what makes the
  release of one handler leave the others' markets alone, so neither half is inductive
  without the other. `CircuitInv` adds that no circuit of a running execution is open: a
  circuit is tripped only by the execution that holds its market. The limits, the memory of
  tripped circuits and the refinement of `MarketLocks` follow from these. Then `MarketGuard`:
  every step of the composition is a step of `Admission`, so all of the above holds of it; for
  one cooldown setting, a quarantined market's circuit is ready when the quarantine ends, because
  the quarantine starts no earlier than the failure that opened the circuit.
* `DecisionPipeline_proofs`. `EvSpaced` speaks of the opportunities on their way only; it is
  inductive with the time of the last one (`lastEvAt`), which no job of the market is later
  than (`FoundBefore`). `VelocityHeld` speaks of every window that ends at some time up to now, and of
  the orders of pairs and EV trades: one that ended before now no longer changes, as these are counted
  at the present only; one that ends now has been looked at by the preflight in the turn that counts.
  That the preflight still sees all of it is what needs an invariant (`AttemptsKept`): nothing in the
  list is of the future, though the pairs of baskets put times of the past into it, and whatever has
  been dropped from the front, by a preflight at a stale time too, is older than the window.
  `ProgressKept` says that the time an execution was started with is past. The proof needs that the
  first check that fails is well defined (`FirstOfChecks`).
  `NoPairStartsTooDear` adds up the price of every unit, the gates the cost of every level. The sums
  are over finite functions (`SumFunction`), and what is shown of them is shown by the least
  counterexample, without an induction rule: among the numbers of units for which the two sums
  differ there is a least, and the unit that makes the difference adds to both the price of the
  level that reaches it (`SweepByUnits`); a sum over a part of a finite set goes the same way, with
  a part that cannot do without any of its elements (`SmallestPart`). The gates are those of the
  turn that starts the pair, on the books and with the size of that turn, so what remains is that
  both are numbers: `PairInv` says it of books, opportunities, sizes and exposures, through every
  operator of `TradeGates` and `RiskSizing`. With it the caps of risk can be reasoned about:
  `ApprovedWithinLimits` is about one decision on any portfolio, `LossBudgetHeld`,
  `TradesWithinCap`, `AdvisorNeverEnlarges` and `SizedAboveZero` about every behaviour;
  `TradesWithinCap` (each trade, each market of a basket) is what is left of the property that
  `pipeline_ev_cap` refutes. They need that the minimum of an opportunity is the minimum of one of
  its legs (`OppTyped`): risk looks at the legs, the advisor raises to the minimum of the
  opportunity. The exposure of markets is bounded for the decision only, because two that were
  decided on one snapshot may both trade (a behaviour listed below). `TypeOK` closes the module
  (`PipelineTypeCorrect`): that the exposure stays natural rests on the gates, since what a leg
  costs is a best ask they have found above zero, or nothing when they refuse; that a book is stable
  since no later than it came, on what an update does to the book before it (`BooksDated`).
* `Executions_proofs`. Of a pair, `IInv` says where the lifecycle is at each await
  (`LifecycleAt`), what waiters and the user channel prove of the venue (`FillsBacked`), what
  the recovery was called with (`PlanBacked`), and that nothing is sold before the end. From
  it: no refused event, terminal exactly when done, submitted means matched, backed unwinds,
  and the refinement of `PairOutcome`. That an open order is reported needs which cancels are
  settled (`CancelsSettled`). The composition keeps the pair (`KindsKeepPairs`), so these hold of
  an execution the agent dispatches. Of a basket, `BasketAt` says for each await which orders and
  which legs are still to be handled and that all others are: cancelled, reported, unwound;
  `TrackerTrue` that an outcome that was told is true of the venue. Of a single leg, the record
  and the incident at each await (`EvInv`). Of the table, the phases that events of each kind
  lead to (`TableInv`).
* `ExecutionLog_proofs`. Replay by time is not replay in order of insertion. What makes it right for
  every unfinished execution is that nothing terminal is logged before its end (`TerminalLast`): all
  its snapshots are of an unfinished one, whichever is replayed last. For a finished one the end must
  also be the last by time, which is so when the end is stamped by the clock or by the recovery it
  belongs to: nothing logged is of the future (`NotAhead`), an unwinding goes on at the clock to its
  end (`UnwindsToTheEnd`), and a recovery that did not await fills carries a time no entry is later
  than (`RecoveryIsLatest`, `EndsInOrder`). What is left is the end that carries an observed time
  (`EndObserved`). `ActiveBetween` puts the active set between the unfinished and these, through any
  number of crashes.
* `FillTracking_proofs`. No runner waits for an outcome that is known. What matched is counted as
  the set of units of the trades (`Units`), so that "never ahead" is an inclusion of
  sets: the trades an order was told of are trades of the venue (`TradesKnown`), and what is
  believed and booked are their units (`BeliefTrue`, `BookedAsTold`). That an excess is
  reported needs that orders come one after the other (`InSequence`): once the latest has
  booked, a mismatch of it is reported, or it has taken the last expectation and booked no more
  than has matched, so whatever it books next is reported (`LatestReported`).
* `FwScan_proofs`. A slot is taken exactly while the one scan waits for the oracle
  (`SlotsAccounted`). That there is one scan only is not what `inFlight` says by itself, because
  `stop` clears it under a scan that runs; it is inductive together with what `stop` leaves,
  neither a timer nor anything pending (`Quiet`). That no weak leg is announced: a basket holds
  executable candidates only, those passed the gates with the bound the leg carries, and
  selection, gates and announcement are one turn after the loop has ended, so one policy. The type
  of the state needs of the loop that it goes on only before the last iteration of the policy
  (`LoopGoesOn`). `ServicesKeepParts` is about the composition: every service runs in it as it does
  alone, so what is proved of the parts, here and in `Services_proofs`, holds of `ServicesSpec`.
* `MarketData_proofs`. A socket that is let go leaves one close event, a close event sets one
  timer. The count is inductive together with what there is of the connection at each stage of
  the agent (`StageOfConnection`), and the subscriptions with what a renewal would send
  (`SubscriptionsWanted`).
* `Services_proofs`. *Life*: nothing is placed before the venue is clear (`NothingPlacedYet`), so
  the first reconciliation has read only orders of the time before (`StartupReads`), and what it
  may cancel is nobody's. What was open at the stop is never placed again, and `cancelAll` comes
  after it (`CancelledLast`). *Calls*: a nonce is one call's (`NoncesOwn`), all that is under way
  or taken carries the nonce of its call (`AllCarry`), and the venue takes a nonce once. That
  "duplicate" may be reported as success needs all three. *Trading*: the switch of the agents
  follows every command and every change of readiness in the same turn, and the mode every command;
  what a test puts back is the operator's mode as long as nothing has crossed it, because then only
  one test overrides the mode (`OneOverrides`). The copies of the catalog are passed on together, and what a refresh
  merges page by page is cut to the limit (`CatalogBounded`). *Learning*: what the memory
  and the snapshot count of a market and a kind is no more than what is stored of it up to the
  time they stand for (`CountsWithin`), so a restart may count all that is later.

The assumptions on constants: what is counted is a natural number, as the schema of the settings has
it; the markets known at the start of the process are no more than the limit of the catalog
(`OperationsAssumption`); policies hold natural numbers for the cooldown, the limit and the window
of orders (`PipelineAssumption`), for the limit on requests and the iterations of the loop, the
intervals of a scan being counted in ticks (`ScanAssumption`); the levels of a snapshot are finitely
many, and prices, sizes, limits and recommendations are whole numbers of their smallest unit, of any
sign, but for the slippage that is tolerated, which the schema (`config/schema.ts`) has at 1 or more
(`NumbersAssumption`). The theorem on the quarantine has a hypothesis of its own, stated with it: one
cooldown setting.

Only model-checked:

* *Liveness* (`EveryKindFinishes`, `StaysConnected`, `BooksCatchUp`, `UpdatesGetScanned`,
  `Unblocks`, `RoundsReachDueMarkets`): it rests on fairness and ENABLED, which the prover does not
  handle.

## Findings

Four runs refute what the repository says of itself; `PROJECT.json` quotes the lines.

* An opportunity starts on a market quarantined after its detection (`market_guard_start`).
* The EV cap per market bounds a trade, not what the market holds (`pipeline_ev_cap`).
* A restart can bring a finished execution back, because transitions are replayed by their times and
  those of user events, the venue's or of the receipt, may lie before acknowledgements that were
  logged earlier: YES acknowledged at 10, both fills received at 15, NO acknowledged at 20, and
  COMPLETE at 15 is replayed before ACK_NO at 20 (`execution_log_finished`).
* A trade repeated after its execution ended is booked again (`fill_tracking_again`).

Behaviour met while modelling that no document speaks of, and that the models contain:

* A batch that timed out may trade after its pairs were submitted again one by one, and a batch
  accepted in part keeps what was accepted (`BasketExecution`).
* Two EV opportunities sized on one snapshot of the portfolio may together exceed the cap of the
  portfolio (`DecisionPipeline`).
* The velocity limit does not hold of baskets: the orders of a batch are not counted, and those of
  pairs executed one by one are counted at the time the basket was started with, so that with them
  more orders than the limit can leave within one window (`DecisionPipeline`; `VelocityHeld` is about
  the orders of pairs and EV trades).
* A synthetic test that overrides the mode puts back the mode it has found. A command that comes
  during it, or a second such test, is undone by that: after a switch to off the agents may be live
  again, and the reverse, until the mode is next changed (`Operations`; without its exception
  `TradingAsDecided` fails in TLC within four steps).
* A process that boots disabled, off or in shadow mode is ready at once: switched on and live later,
  it trades on the catalog file without a refresh, which a process that boots to trade waits for
  (`Operations`).
* A snapshot asked for before an update and answered after it puts the older book back, until
  the next message or refresh (`MarketData`).
* A reconciliation compares the executions of its beginning with the orders of the venue's
  answer, so an order placed meanwhile is reported as drift; one that is asked for while another
  runs is dropped, the one at shutdown too (`Reconciliation`).
* A market whose description cannot be fetched ends the selection of a round for all markets
  (`Signals`).
* After a restart, events stored in the millisecond of the last one counted are lost to the counts
  (`Learning`).
* `createBatchOrders` reports as refused an order that the venue has already taken, where
  `createOrder` reports it as accepted (`VenueCalls`).

## What is abstracted

External, and modelled from how the code uses it: the venue (orders, user channel, listing,
books, error codes), the network, the language models, the oracle and the solver, the searches.
They answer anything the code distinguishes, late, or not at all.

Settings can be changed over the API while the process runs. `Admission` and `Signals` have such
changes; `DecisionPipeline`, `FwScan` and the executions run under one policy each, any of those it
may be. What they say of a decision and the policy is about one turn, which a change cannot divide;
what they say of cooldowns and windows is about times in which the setting stays.

Left out of modules because nothing a property tells apart depends on it: formatting, logging,
metrics, audit records, incident texts, prompts; averages and PnL; the overall state of a basket,
which nothing reads, and its record; the orders of pairs a basket executes one by one, which
`PairedExecution` models. The order tracker's, the metrics store's and the idempotency store's limits
are left out: the cap on samples (`METRICS_MAX_EVENTS`; a velocity limit above it would never be
reached), the pruning of the windows by the health checks (`sloChecks.ts`), and the pruning of
idempotency records. So is the reuse of an order by a record that has one
(`ExecutionPairedRunner.ts:175`): the key of a record names market, tokens and the millisecond of the
detection, so a second execution meets it only if one market was detected twice in one millisecond,
as a pair and in a basket; it would then count the orders of the first as its own.

Not modelled:

* *Operations and SLOs.* Health checks compare metrics with thresholds; the quarantines they lead
  to are incidents that `MarketGuard` lets happen at any time.
* *Language models and clients of web searches.* Requests, caches and the parsing of answers;
  every module that asks one takes any answer, error or silence.
* *Configuration and start-up, API server.* Parsing, wiring and routing. What requests do
  (and the changes of settings named above) are actions of the modules they reach (`Admission`,
  `MarketGuard`, `Operations`, `DecisionPipeline`, `FwScan`, `Signals`).
* *Telemetry, security and tools.* Observation, credentials, offline programs.
* `core/StateRebuilder.ts`, which only a test uses, and `core/EventStoreRecovery.ts`, which moves
  a damaged database away before the store is opened.
* Failures of the event store itself: the code does not handle them, an exception in the middle
  of a transition ends the handler.

## The plan

Next would be: theorems about `Signals`, of which liveness is what matters; changes of the policy in
`DecisionPipeline` and `FwScan`, with cooldowns and windows stated for the setting of their time; an
abstract specification of the catalog's refresh and of the learning counts, which `Operations` and
`Learning` implement; the operations agent, once its checks keep more state than a look at the
metrics; a store that fails in the middle of a transition.

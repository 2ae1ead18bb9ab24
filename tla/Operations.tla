------------------------------ MODULE Operations ------------------------------
(***************************************************************************)
(* What decides whether and on which markets the running process trades:   *)
(* the trading state (src/src/core/TradingStateManager.ts), its handlers   *)
(* (src/src/boot/runtimeLifecycle.ts), the catalog refresher               *)
(* (src/src/services/MarketCatalogRefresher.ts), the copies the others     *)
(* keep of the catalog, and the synthetic test of the supervisor, which    *)
(* overrides the mode around an await.                                     *)
(*                                                                         *)
(* Time is left out: an interval ticks at some time, a back-off ends at    *)
(* some time.                                                              *)
(***************************************************************************)
EXTENDS Naturals, FiniteSets, Sequences

CONSTANTS
    Listed,          \* the markets the venue may list
    Seeded,          \* the pairs of the catalog file
    MaxPairs,        \* maxPairs of the refresher
    ExplorationMax,  \* explorationMaxPairs, 0 when disabled
    PageSize, MaxPages, ExplorationPages,
    Tests,           \* the synthetic tests that may run at once
    MaxCommands,     \* bound: how often the operator changes the trading state
    MaxListings,     \* bound: how often the listing changes
    MaxOutages       \* bound: how often a request to the venue fails or finds nothing

\* The process starts with the first maxPairs pairs of the file, at least one
\* (createAllowlistAndMarketPairs).
ASSUME OperationsAssumption ==
    /\ MaxPairs \in Nat \ {0} /\ ExplorationMax \in Nat /\ PageSize \in Nat \ {0}
    /\ IsFiniteSet(Seeded) /\ Cardinality(Seeded) <= MaxPairs

VARIABLES
    manager,         \* TradingStateManager: [enabled, mode]
    trading,         \* what supervisor, scanner and execution work with
    ready,           \* catalogRefreshReady
    tests,           \* the synthetic tests: [stage, override, previousMode]
    crossed,         \* history: since the last switch outside of tests that override the
                     \* mode, a command or another such test has come during one
    listing,         \* the venue's markets in its order: a sequence of [id, state]
    refresh,         \* the refresh under way
    backingOff,      \* emptyRefreshBackoffUntil is to come
    currentPairs,    \* the refresher's pairs
    marketPairs,     \* config.marketPairs of the supervisor
    subscribed,      \* the markets of the market data subscriptions
    signalled,       \* the markets of the signal aggregator
    tokenMap,        \* the markets whose tokens tokenToMarketId knows
    related,         \* the markets the relation catalog was built from
    commands, listings, outages

copies == <<marketPairs, subscribed, signalled, tokenMap, related>>
operationBounds == <<commands, listings, outages>>
operationVars == <<manager, trading, ready, tests, crossed, listing, refresh, backingOff,
                   currentPairs, copies, operationBounds>>

Modes == {"off", "shadow", "paper", "live"}

\* A refresh: which pass it is in, where in the listing, and what it has found.
Idle == [pass |-> "none", offset |-> 0, page |-> 0, found |-> {}, core |-> {}, ended |-> 0]
Passes == {"none", "core", "exploration"}

NoTest == [stage |-> "none", override |-> "none", previousMode |-> "none"]

\* A process that boots to trade, if only on paper, is blocked until the first refresh
\* (blockTradingUntilCatalogRefresh); any other never waits for one.
OperationsInit ==
    /\ manager \in [enabled : BOOLEAN, mode : Modes]
    /\ ready = ~(manager.enabled /\ manager.mode \in {"paper", "live"})
    /\ trading = [enabled |-> manager.enabled /\ ready, mode |-> manager.mode]
    /\ tests = [t \in Tests |-> NoTest] /\ crossed = FALSE
    /\ listing = <<>>
    /\ refresh = Idle /\ backingOff = FALSE
    /\ currentPairs = Seeded /\ marketPairs = Seeded /\ subscribed = Seeded
    /\ signalled = Seeded /\ tokenMap = Seeded /\ related = Seeded
    /\ commands = 0 /\ listings = 0 /\ outages = 0

-----------------------------------------------------------------------------
(* The trading state *)

\* resolveEffectiveTradingEnabled
Effective(enabled, isReady) == enabled /\ isReady

updateTradingMode(mode) == trading' = [trading EXCEPT !.mode = mode]

\* The synthetic tests that have overridden the mode and will put back the one of before.
Overriding ==
    {t \in Tests : tests[t].stage = "executing" /\
                   tests[t].override \notin {"none", tests[t].previousMode}}

Command == commands < MaxCommands /\ commands' = commands + 1

\* setMode tells the supervisor, the scanner and the execution agent at once.
setMode(mode) ==
    /\ Command /\ mode # manager.mode
    /\ manager' = [manager EXCEPT !.mode = mode]
    /\ updateTradingMode(mode)
    /\ crossed' = (Overriding # {})
    /\ UNCHANGED <<ready, tests, listing, refresh, backingOff, currentPairs, copies, listings,
                   outages>>

setEnabled(enabled) ==
    /\ Command /\ enabled # manager.enabled
    /\ manager' = [manager EXCEPT !.enabled = enabled]
    /\ trading' = [trading EXCEPT !.enabled = Effective(enabled, ready)]
    /\ UNCHANGED <<ready, tests, crossed, listing, refresh, backingOff, currentPairs, copies,
                   listings, outages>>

\* A synthetic test waits for the priorities and the advisor.
StartTest(t, override) ==
    /\ tests[t] = NoTest /\ marketPairs # {}
    /\ Command
    /\ tests' = [tests EXCEPT ![t] = [NoTest EXCEPT !.stage = "deciding", !.override = override]]
    /\ UNCHANGED <<manager, trading, ready, crossed, listing, refresh, backingOff, currentPairs,
                   copies, listings, outages>>

\* Approved, it overrides the mode and waits for its execution; a live mode that was not
\* asked for is left alone.
ExecuteTest(t) ==
    /\ tests[t].stage = "deciding"
    /\ IF tests[t].override = "none" /\ trading.mode = "live"
       THEN tests' = [tests EXCEPT ![t] = NoTest] /\ UNCHANGED <<trading, crossed>>
       ELSE /\ tests' = [tests EXCEPT ![t].stage = "executing", ![t].previousMode = trading.mode]
            /\ updateTradingMode(IF tests[t].override = "none" THEN trading.mode
                                                               ELSE tests[t].override)
            /\ crossed' = (crossed \/ (Overriding # {} /\ Overriding' # Overriding))
    /\ UNCHANGED <<manager, ready, listing, refresh, backingOff, currentPairs, copies,
                   operationBounds>>

\* Mutant of FinishTest: the override outlives the test.
FinishTestOnly(t) ==
    /\ tests[t].stage = "executing"
    /\ tests' = [tests EXCEPT ![t] = NoTest]
    /\ UNCHANGED <<manager, trading, ready, crossed, listing, refresh, backingOff, currentPairs,
                   copies, operationBounds>>

\* The mode of before comes back, whatever it has become meanwhile; without an override
\* it is left alone.
FinishTest(t) ==
    /\ tests[t].stage = "executing"
    /\ tests' = [tests EXCEPT ![t] = NoTest]
    /\ updateTradingMode(IF tests[t].override \notin {"none", tests[t].previousMode}
                         THEN tests[t].previousMode ELSE trading.mode)
    /\ UNCHANGED <<manager, ready, crossed, listing, refresh, backingOff, currentPairs, copies,
                   operationBounds>>

\* Refused by risk.
RejectTest(t) ==
    /\ tests[t].stage = "deciding"
    /\ tests' = [tests EXCEPT ![t] = NoTest]
    /\ UNCHANGED <<manager, trading, ready, crossed, listing, refresh, backingOff, currentPairs,
                   copies, operationBounds>>

-----------------------------------------------------------------------------
(* The refresher *)

\* The start and every tick of the interval: nothing while a refresh is under way or the
\* last one found nothing.
StartRefresh ==
    /\ refresh = Idle /\ ~backingOff
    /\ refresh' = [Idle EXCEPT !.pass = "core"]
    /\ UNCHANGED <<manager, trading, ready, tests, crossed, listing, backingOff, currentPairs,
                   copies, operationBounds>>

Smaller(a, b) == IF a < b THEN a ELSE b

\* How many pairs the pass may add.
Target(pass) ==
    IF pass = "core" THEN MaxPairs - Cardinality(refresh.found)
    ELSE Smaller(MaxPairs - Cardinality(refresh.core), ExplorationMax)
           - Cardinality(refresh.found \ refresh.core)

Pages(pass) == IF pass = "core" THEN MaxPages ELSE ExplorationPages

\* A page as the venue lists now; the exploration asks for the newest first.
Page ==
    LET n == Len(listing)
        ordered == IF refresh.pass = "core" THEN listing ELSE [i \in 1 .. n |-> listing[n + 1 - i]]
    IN  SubSeq(ordered, refresh.offset + 1, Smaller(n, refresh.offset + PageSize))

\* What collectPass accepts of a page, in its order, until the target is reached: known
\* markets as they are, the others if they are open with good books
\* (validateAndConvertMarket).
Accepted(page, target) ==
    LET Fits(i) == /\ page[i].state # "ended"
                   /\ page[i].id \notin refresh.found
                   /\ page[i].id \in currentPairs \/ page[i].state = "good"
        before(i) == Cardinality({page[k].id : k \in {h \in 1 .. i - 1 : Fits(h)}})
    IN  {page[i].id : i \in {k \in DOMAIN page : Fits(k) /\ before(k) < target}}

EndedIn(page) == Cardinality({i \in DOMAIN page : page[i].state = "ended"})

\* Nothing to explore when the core pass filled the catalog.
NextPass(pass, found) ==
    IF pass = "core" /\ ExplorationMax > 0 /\ Cardinality(found) < MaxPairs
    THEN "exploration" ELSE "none"

\* A page has come: the pass goes on behind it, or the next pass begins, or the refresh
\* completes.
PageAnswer(Complete(_, _)) ==
    LET page == Page
        found == refresh.found \cup Accepted(page, Target(refresh.pass))
        ended == refresh.ended + EndedIn(page)
        more == /\ Len(page) = PageSize /\ refresh.page + 1 < Pages(refresh.pass)
                /\ Cardinality(found \ refresh.found) < Target(refresh.pass)
        pass == IF more THEN refresh.pass ELSE NextPass(refresh.pass, found)
    IN  IF pass = "none" THEN Complete(found, ended)
        ELSE /\ refresh' = [pass |-> pass,
                            offset |-> IF more THEN refresh.offset + PageSize ELSE 0,
                            page |-> IF more THEN refresh.page + 1 ELSE 0,
                            found |-> found,
                            core |-> IF pass = "core" THEN {} ELSE
                                     IF refresh.pass = "core" THEN found ELSE refresh.core,
                            ended |-> ended]
             /\ UNCHANGED <<trading, ready, backingOff, currentPairs, copies>>

\* Not in the code: only new markets count as a change.
updateMarketPairsAdded(pairs) ==
    IF pairs \subseteq marketPairs THEN UNCHANGED <<marketPairs, subscribed, signalled>>
    ELSE marketPairs' = pairs /\ subscribed' = pairs /\ signalled' = pairs

\* Supervisor.updateMarketPairs
updateMarketPairs(pairs) ==
    IF pairs = marketPairs THEN UNCHANGED <<marketPairs, subscribed, signalled>>
    ELSE marketPairs' = pairs /\ subscribed' = pairs /\ signalled' = pairs

\* Not in the code: a refresh that confirms the catalog is not announced.
RefreshedIfChanged(pairs) ==
    /\ related' = pairs
    /\ updateMarketPairs(pairs)
    /\ tokenMap' = pairs
    /\ ready' = (ready \/ pairs # marketPairs)
    /\ trading' = [trading EXCEPT !.enabled =
                      IF ready THEN @ ELSE Effective(manager.enabled, ready')]

\* The 'refresh' handler: the first refresh lets trading begin.
Refreshed(pairs) ==
    /\ related' = pairs
    /\ updateMarketPairs(pairs)
    /\ tokenMap' = pairs
    /\ ready' = TRUE
    /\ trading' = [trading EXCEPT !.enabled = IF ready THEN @ ELSE Effective(manager.enabled, TRUE)]

\* A catalog that is suddenly empty, though nothing ended, is not believed.
Complete(found, ended) ==
    /\ refresh' = Idle
    /\ IF found = {} /\ currentPairs # {} /\ ended = 0
       THEN backingOff' = TRUE /\ UNCHANGED <<trading, ready, currentPairs, copies>>
       ELSE backingOff' = FALSE /\ currentPairs' = found /\ Refreshed(found)

PageArrives ==
    /\ refresh # Idle
    /\ PageAnswer(Complete)
    /\ UNCHANGED <<manager, tests, crossed, listing, operationBounds>>

Outage == outages < MaxOutages /\ outages' = outages + 1

FailRefresh == refresh' = Idle /\ UNCHANGED backingOff

\* A page fails or takes too long: the refresh ends, whatever it had found.
PageFails ==
    /\ refresh # Idle /\ Outage
    /\ FailRefresh
    /\ UNCHANGED <<manager, trading, ready, tests, crossed, listing, currentPairs, copies, commands,
                   listings>>

BackoffEnds ==
    /\ backingOff /\ refresh = Idle
    /\ backingOff' = FALSE
    /\ UNCHANGED <<manager, trading, ready, tests, crossed, listing, refresh, currentPairs, copies,
                   operationBounds>>

\* The venue's listing changes, between two pages of a refresh too.
ListingChanges(next) ==
    /\ listings < MaxListings /\ next # listing
    /\ listing' = next
    /\ listings' = listings + 1
    /\ UNCHANGED <<manager, trading, ready, tests, crossed, refresh, backingOff, currentPairs,
                   copies, commands, outages>>

Listings ==
    LET ids == {<<>>} \cup {<<m>> : m \in Listed} \cup {s \in Listed \X Listed : s[1] # s[2]}
        states == [Listed -> {"good", "thin", "ended"}]
    IN  {[i \in DOMAIN s |-> [id |-> s[i], state |-> f[s[i]]]] : s \in ids, f \in states}

OperationsNext ==
    \/ \E m \in Modes : setMode(m)
    \/ \E e \in BOOLEAN : setEnabled(e)
    \/ \E t \in Tests : \/ \E o \in Modes \cup {"none"} : StartTest(t, o)
                        \/ ExecuteTest(t) \/ FinishTest(t) \/ RejectTest(t)
    \/ StartRefresh \/ PageArrives \/ PageFails \/ BackoffEnds
    \/ \E next \in Listings : ListingChanges(next)

OperationsSpec == OperationsInit /\ [][OperationsNext]_operationVars

OperationsTypeOK ==
    /\ manager \in [enabled : BOOLEAN, mode : Modes]
    /\ trading \in [enabled : BOOLEAN, mode : Modes] /\ crossed \in BOOLEAN
    /\ refresh.pass \in Passes /\ refresh.found \subseteq Listed \cup Seeded

-----------------------------------------------------------------------------
(* Properties *)

\* The process works with the switch and the mode the operator has decided on, and so
\* trades live exactly when both say so (ExecutionAgent.isTradingEnabled), in whatever
\* order commands, tests and refreshes come.  It differs in two ways.  The switch counts
\* only once the process is ready: at once, unless it booted to trade, else after the first
\* refresh of the catalog.  The mode is that of a synthetic test while one overrides it,
\* and anything once a command or a second test has crossed such a test, until the mode is
\* switched again: the test puts back the mode it found, live or not.
TradingAsDecided ==
    /\ trading.enabled = Effective(manager.enabled, ready)
    /\ ~crossed => /\ \A t \in Overriding : trading.mode = tests[t].override
                   /\ Overriding = {} => trading.mode = manager.mode

\* The refresher, the supervisor, the subscriptions, the signals, the token map and the
\* relation catalog always agree on the markets, and their number is bounded.
CatalogAgrees ==
    /\ {marketPairs, subscribed, signalled, tokenMap, related} = {currentPairs}
    /\ Cardinality(currentPairs) <= MaxPairs

\* A process that waits for its first refresh does not wait for ever: once the venue keeps
\* listing a market with good books, trading begins.
Unblocks == <>[](\E i \in DOMAIN listing : listing[i].state = "good") => <>ready
=============================================================================

------------------------------ MODULE MarketData ------------------------------
(***************************************************************************)
(* The order books of MarketDataAgent (src/src/agents/market-data/         *)
(* MarketDataAgent.ts) over a connection of the venue (Realtime): updates  *)
(* from the connection, snapshots over REST that are asked for when a book *)
(* is missing, out of sequence, inconsistent or old, and subscriptions     *)
(* that follow the catalog.                                                *)
(*                                                                         *)
(* The clock has two times: Recent, and LongAgo for what maxStalenessMs    *)
(* and the cooldowns have passed.                                          *)
(***************************************************************************)
EXTENDS Realtime, Sequences, TLC, OrderBook

CONSTANTS
    FirstTokens,     \* the tokens subscribed to at the start
    Prices, Ticks,   \* the ask prices and tick sizes a book may have
    MaxChanges,      \* bound: how often the venue's books change
    MaxUpdates,      \* bound: how often the subscriptions change
    MaxWire          \* bound: the messages under way on a connection when one is added

ASSUME DataAssumption ==
    /\ FirstTokens \subseteq Topics /\ FirstTokens # {}
    /\ Prices \subseteq Nat \ {0} /\ Ticks \subseteq Nat \ {0}

VARIABLES
    started,         \* MarketDataAgent.start: "no", "connecting", "yes", "stopped"
    tokenIds,        \* config.tokenIds
    books,           \* orderbooks, with the venue's version as exchangeTimestamp
    resynced,        \* snapshotResyncMs: the tokens resynchronised a moment ago
    asked,           \* bestBidAskRefreshMs: the tokens asked for a moment ago
    rest,            \* the snapshots under way: not yet read, or with what was read
    wire,            \* the messages under way on the connection
    venue,           \* the venue's books
    changes, updates

agent == <<started, tokenIds>>
memory == <<books, resynced, asked>>
bounds == <<changes, updates>>
dataVars == <<realtimeVars, agent, memory, rest, wire, venue, bounds>>
LongAgo == 0
Recent == 1

NoDepth == [p \in {} |-> 0]
Unread == [version |-> 0, asks |-> NoDepth, tickSize |-> 0]
Missing == [NoBook EXCEPT !.bids = NoDepth, !.asks = NoDepth] @@ [version |-> 0]

\* What the code keeps of the venue's book.
Shown(b) == [version |-> b.version, asks |-> b.asks, tickSize |-> b.tickSize]

TypeOK ==
    /\ RealtimeTypeOK
    /\ started \in {"no", "connecting", "yes", "stopped"}
    /\ tokenIds \subseteq Topics /\ resynced \subseteq Topics /\ asked \subseteq Topics
    /\ DOMAIN books = Topics
    /\ \A t \in Topics :
         /\ books[t].version \in 0 .. MaxChanges + 1
         /\ DOMAIN books[t].asks \subseteq Prices /\ books[t].tickSize \in Ticks \cup {0}
         /\ books[t].lastUpdateMs \in {-1, LongAgo, Recent}
    /\ \A r \in rest : r.token \in Topics /\ r.read.version <= venue[r.token].version
    /\ \A i \in DOMAIN wire : wire[i].token \in Topics

Init ==
    /\ RealtimeInit
    /\ started = "no"
    /\ tokenIds = FirstTokens
    /\ books = [t \in Topics |-> Missing]
    /\ resynced = {} /\ asked = {} /\ rest = {} /\ wire = <<>>
    /\ venue = [t \in Topics |->
                  [version |-> 1, asks |-> [p \in Prices |-> 1], tickSize |-> 1]]
    /\ changes = 0 /\ updates = 0

-----------------------------------------------------------------------------
(* Books *)

\* refreshSnapshot: the request is made now, the answer is applied whenever it comes.
Request(t, round) == [token |-> t, read |-> Unread, round |-> round]

refreshSnapshot(tokens) == rest' = rest \cup {Request(t, FALSE) : t \in tokens}

Resyncs(t) == t \notin resynced

\* scheduleSnapshotResync, unless there was one a moment ago.
scheduleSnapshotResync(tokens) ==
    /\ resynced' = resynced \cup tokens
    /\ refreshSnapshot({t \in tokens : Resyncs(t)})

Misaligned(book) ==
    BestAsk(book) # NoPrice /\ ~isAlignedToTick(BestAsk(book), book.tickSize)

\* publishBookUpdate, with a resynchronisation if the best price is off the tick or if
\* inconsistent says so.
publishBookUpdate(t, book, inconsistent) ==
    /\ books' = [books EXCEPT ![t] = book]
    /\ scheduleSnapshotResync(IF Misaligned(book) \/ inconsistent THEN {t} ELSE {})

OutOfSequence(t, version) == version < books[t].version

Snapshot(t, raw) ==
    normalizeOrderBook([bids |-> NoDepth, asks |-> raw.asks, tickSize |-> raw.tickSize,
                        minOrderSize |-> 1],
                       Recent, [tickSize |-> 1, minOrderSize |-> 1],
                       IF books[t] = Missing THEN NoBook ELSE books[t])
    @@ [version |-> raw.version]

\* updateBook: a message out of sequence is not applied, a forced snapshot always is.
updateBook(t, raw, force) ==
    IF ~force /\ OutOfSequence(t, raw.version)
    THEN scheduleSnapshotResync({t}) /\ UNCHANGED books
    ELSE publishBookUpdate(t, Snapshot(t, raw), FALSE)

WithDelta(t, m) ==
    [applyOrderBookDelta(books[t], [side |-> "ask", price |-> m.price, size |-> m.size,
                                    tickSize |-> 0, minOrderSize |-> 0, receivedAtMs |-> Recent])
     EXCEPT !.version = m.version]

\* applyDelta, then the check of handlePriceChange of the best price against the one the
\* message names.
applyDelta(t, m) ==
    IF books[t] = Missing THEN refreshSnapshot({t}) /\ UNCHANGED <<books, resynced>>
    ELSE IF OutOfSequence(t, m.version) THEN scheduleSnapshotResync({t}) /\ UNCHANGED books
    ELSE \E next \in {WithDelta(t, m)} :
           publishBookUpdate(t, next, m.best # NoPrice /\ BestAsk(next) # m.best)

handleTickSizeChange(t, m) ==
    IF books[t] = Missing THEN refreshSnapshot({t}) /\ UNCHANGED <<books, resynced>>
    ELSE /\ books' = [books EXCEPT ![t].tickSize = m.tickSize, ![t].version = m.version,
                                   ![t].lastUpdateMs = Recent]
         /\ UNCHANGED <<resynced, rest>>

\* handleBestBidAsk without a level asks for a snapshot, at most once in a while.
handleBestBidAsk(t) ==
    /\ refreshSnapshot({t} \ asked)
    /\ asked' = asked \cup {t}
    /\ UNCHANGED <<books, resynced>>

\* handleMessage, whoever is subscribed to the token by now.
Deliver ==
    /\ wire # <<>> /\ ~silent /\ ws \in {"open", "closing"}
    /\ wire' = Tail(wire)
    /\ LET m == Head(wire) IN
       \/ m.kind = "book" /\ updateBook(m.token, m.raw, FALSE) /\ UNCHANGED asked
       \/ m.kind = "price_change" /\ applyDelta(m.token, m) /\ UNCHANGED asked
       \/ m.kind = "tick_size_change" /\ handleTickSizeChange(m.token, m) /\ UNCHANGED asked
       \/ m.kind = "best_bid_ask" /\ handleBestBidAsk(m.token)
    /\ UNCHANGED <<realtimeVars, agent, venue, bounds>>

\* The venue reads a book for a request.
RestRead(r) ==
    /\ r \in rest /\ r.read = Unread
    /\ rest' = (rest \ {r}) \cup {[r EXCEPT !.read = Shown(venue[r.token])]}
    /\ UNCHANGED <<realtimeVars, agent, memory, wire, venue, bounds>>

\* A snapshot arrives and is applied, however old it is by now.
RestAnswer(r) ==
    /\ r \in rest /\ r.read # Unread
    /\ \E others \in {rest \ {r}} :
         /\ books' = [books EXCEPT ![r.token] = Snapshot(r.token, r.read)]
         /\ \E again \in {IF Misaligned(Snapshot(r.token, r.read)) THEN {r.token} ELSE {}} :
              /\ resynced' = resynced \cup again
              /\ rest' = others \cup {Request(t, FALSE) : t \in again \ resynced}
    /\ UNCHANGED <<realtimeVars, agent, asked, wire, venue, bounds>>

RestFails(r) ==
    /\ r \in rest /\ Fault
    /\ rest' = rest \ {r}
    /\ UNCHANGED <<connection, subscribed, venueSubs, agent, memory, wire, venue, bounds>>

\* Not in the code: the books just updated instead of the old ones.
FreshTokens == {t \in Topics : books[t] # Missing /\ books[t].lastUpdateMs = Recent}

\* The books older than maxStalenessMs.
StaleTokens == {t \in Topics : books[t] # Missing /\ books[t].lastUpdateMs = LongAgo}

\* The supervisor's interval, unless its last round of refreshes is still under way.
refreshStaleBooks ==
    /\ started = "yes" /\ (\A r \in rest : ~r.round) /\ StaleTokens # {}
    /\ rest' = rest \cup {Request(t, TRUE) : t \in StaleTokens}
    /\ UNCHANGED <<realtimeVars, agent, memory, wire, venue, bounds>>

\* Time passes without an update of a book, or the cooldowns end.
Age(t) ==
    /\ books[t].lastUpdateMs = Recent
    /\ books' = [books EXCEPT ![t].lastUpdateMs = LongAgo]
    /\ UNCHANGED <<realtimeVars, agent, resynced, asked, rest, wire, venue, bounds>>

CoolDown ==
    /\ resynced \cup asked # {}
    /\ resynced' = {} /\ asked' = {}
    /\ UNCHANGED <<realtimeVars, agent, books, rest, wire, venue, bounds>>

-----------------------------------------------------------------------------
(* The connection and the subscriptions *)

\* The venue begins a subscription with a dump of the book.
Dump(tokens) ==
    LET f[S \in SUBSET Topics] ==
          IF S = {} THEN <<>>
          ELSE LET t == CHOOSE u \in S : TRUE
               IN  Append(f[S \ {t}], [kind |-> "book", token |-> t, raw |-> Shown(venue[t])])
    IN  f[tokens]

Start ==
    /\ started = "no"
    /\ started' = "connecting"
    /\ connect
    /\ UNCHANGED <<timers, subscribed, venueSubs, faults, tokenIds, memory, rest, wire, venue, bounds>>

\* The connection opens; start then subscribes to the tokens, those after it are renewed.
Open ==
    /\ Opened(IF started = "connecting" THEN tokenIds ELSE {})
    /\ started' = IF started = "connecting" THEN "yes" ELSE started
    /\ wire' = Dump(subscribed')
    /\ UNCHANGED <<tokenIds, memory, rest, venue, bounds>>

\* The connection ends; what was under way on it is lost.
ConnectionEnds ==
    /\ started # "connecting"
    /\ Closed \/ OrphanClosed \/ Dropped \/ OpenFails
    /\ wire' = <<>>
    /\ UNCHANGED <<agent, memory, rest, venue, bounds>>

\* If the first connection fails, start does.
StartFails ==
    /\ started = "connecting"
    /\ FirstConnectFails
    /\ started' = "stopped"
    /\ UNCHANGED <<tokenIds, memory, rest, wire, venue, bounds>>

ConnectionSteps ==
    /\ Errs \/ GoesSilent \/ Heartbeat \/ ReconnectTimer
    /\ UNCHANGED <<agent, memory, rest, wire, venue, bounds>>

\* updateSubscriptions, when the catalog has changed.
updateSubscriptions(tokens) ==
    /\ started = "yes" /\ updates < MaxUpdates /\ tokens # tokenIds
    /\ tokenIds' = tokens
    /\ updates' = updates + 1
    /\ \E gone \in {tokenIds \ tokens}, more \in {tokens \ tokenIds} :
         /\ IF gone = {} THEN subscribe(more) ELSE unsubscribe(gone, more)
         /\ wire' = IF gone = {} /\ ws = "open" THEN wire \o Dump(more) ELSE wire
         /\ books' = [t \in Topics |-> IF t \in gone THEN Missing ELSE books[t]]
         /\ resynced' = resynced \ gone
         /\ asked' = asked \ gone
    /\ UNCHANGED <<started, rest, venue, changes>>

\* releaseRuntimeResources.
Shutdown ==
    /\ started = "yes"
    /\ started' = "stopped"
    /\ close
    /\ UNCHANGED <<tokenIds, memory, rest, wire, venue, bounds>>

-----------------------------------------------------------------------------
(* The venue *)

Toggled(b, p) ==
    [b EXCEPT !.version = @ + 1,
              !.asks = IF p \in DOMAIN @ THEN [q \in DOMAIN @ \ {p} |-> 1]
                       ELSE [q \in DOMAIN @ \cup {p} |-> 1]]

\* What the venue may tell of a change, if it tells anything.
Told(t, p, b) ==
    {<<>>,
     <<[kind |-> "book", token |-> t, raw |-> Shown(b)]>>,
     <<[kind |-> "best_bid_ask", token |-> t]>>}
    \cup {<<[kind |-> "price_change", token |-> t, version |-> b.version, price |-> p,
             size |-> IF p \in DOMAIN b.asks THEN 1 ELSE 0, best |-> best]>> :
            best \in {NoPrice, BestAsk(b @@ [bids |-> NoDepth])}}

ConnectionCarries(t, told) ==
    wire' = IF t \in venueSubs /\ ~silent THEN wire \o told ELSE wire

LevelChanges(t, p) ==
    /\ changes < MaxChanges /\ Len(wire) < MaxWire
    /\ changes' = changes + 1
    /\ venue' = [venue EXCEPT ![t] = Toggled(venue[t], p)]
    /\ \E told \in Told(t, p, venue'[t]) : ConnectionCarries(t, told)
    /\ UNCHANGED <<realtimeVars, agent, memory, rest, updates>>

TickChanges(t, tick) ==
    /\ changes < MaxChanges /\ Len(wire) < MaxWire
    /\ changes' = changes + 1
    /\ venue' = [venue EXCEPT ![t].tickSize = tick, ![t].version = @ + 1]
    /\ ConnectionCarries(t, <<[kind |-> "tick_size_change", token |-> t, tickSize |-> tick,
                               version |-> venue'[t].version]>>)
    /\ UNCHANGED <<realtimeVars, agent, memory, rest, updates>>

Next ==
    \/ Start \/ StartFails \/ Open \/ ConnectionEnds \/ ConnectionSteps \/ Shutdown
    \/ Deliver \/ refreshStaleBooks \/ CoolDown
    \/ \E r \in rest : RestRead(r) \/ RestAnswer(r) \/ RestFails(r)
    \/ \E t \in Topics : Age(t) \/ \E p \in Prices : LevelChanges(t, p)
    \/ \E t \in Topics : \E tick \in Ticks \ {venue[t].tickSize} : TickChanges(t, tick)
    \/ \E tokens \in SUBSET Topics : updateSubscriptions(tokens)

Spec == Init /\ [][Next]_dataVars

\* Timers fire, what is closed reports its end, the venue takes connections and answers
\* requests unless one of the bounded faults happens, and what it has sent arrives.
Fairness ==
    /\ WF_connection(Start \/ Open \/ ((Closed \/ OrphanClosed) /\ ConnectionEnds)
                     \/ ((Heartbeat \/ ReconnectTimer) /\ ConnectionSteps))
    /\ WF_wire(Deliver)
    /\ WF_rest(refreshStaleBooks)
    /\ \A t \in Topics :
         /\ WF_books(Age(t))
         /\ WF_rest(\E r \in rest : r.token = t /\ (RestRead(r) \/ RestAnswer(r)))

FairSpec == Spec /\ Fairness

-----------------------------------------------------------------------------
(* Properties *)

\* From the first connection to the shutdown there is exactly one socket or one thing
\* that will make one, a close event to come or a timer: the connection is neither given
\* up nor doubled, in whatever order errors, closes and changes of subscriptions come.
OneLifeline ==
    /\ started = "yes" => (IF ws = "none" THEN 0 ELSE 1) + orphans + timers = 1
    /\ started = "stopped" => ws = "none"

\* An open connection carries exactly the tokens the catalog wants, whatever the
\* connection was doing when the catalog changed.
SubscribedAsWanted == ws = "open" /\ started = "yes" => venueSubs = tokenIds

\* Once the faults end the connection is open and alive for good: one that went silent
\* has been noticed.
StaysConnected == <>[](started = "yes" => ws = "open" /\ ~silent)

\* Once the venue's books do not change any more the agent's books are the venue's, for
\* every token it trades, although messages were lost with connections, left out by the
\* venue or overtaken by snapshots.
BooksCatchUp ==
    <>[](started = "yes" => \A t \in tokenIds : Shown(books[t]) = Shown(venue[t]))
=============================================================================

------------------------------ MODULE OrderBook ------------------------------
(***************************************************************************)
(* Order books (src/src/domain/orderbook.ts), as pure operators.           *)
(*                                                                         *)
(* A side of a book is a function from the prices that have a level to the *)
(* size offered there: the venue gives one level per price, and the code's *)
(* sorting of the levels is the order of the prices.  Prices and sizes are *)
(* whole numbers of their smallest unit.                                   *)
(***************************************************************************)
EXTENDS Integers, FiniteSets, Functions
LOCAL INSTANCE FiniteSetsExt

\* The price of a best level that does not exist.
NoPrice == -1

BestAsk(book) == IF DOMAIN book.asks = {} THEN NoPrice ELSE Min(DOMAIN book.asks)
BestBid(book) == IF DOMAIN book.bids = {} THEN NoPrice ELSE Max(DOMAIN book.bids)

\* The levels whose size is positive; the others are dropped on arrival.
normalizeLevels(raw) == [p \in {q \in DOMAIN raw : raw[q] > 0} |-> raw[p]]

SizeAt(side, p) == IF p = NoPrice THEN 0 ELSE side[p]

\* The best bid and the best ask are what they were, price and size.
SameTop(a, b) ==
    /\ BestBid(a) = BestBid(b) /\ SizeAt(a.bids, BestBid(a)) = SizeAt(b.bids, BestBid(b))
    /\ BestAsk(a) = BestAsk(b) /\ SizeAt(a.asks, BestAsk(a)) = SizeAt(b.asks, BestAsk(b))

FirstPositive(a, b, c) == IF a > 0 THEN a ELSE IF b > 0 THEN b ELSE c

\* A book before its first snapshot.
NoBook == [bids |-> <<>>, asks |-> <<>>, tickSize |-> 0, minOrderSize |-> 0,
           lastUpdateMs |-> -1, stableSinceMs |-> -1]

\* A snapshot replaces the levels.  The top counts as stable since it last changed.
normalizeOrderBook(raw, now, defaults, previous) ==
    LET book == [bids |-> normalizeLevels(raw.bids),
                 asks |-> normalizeLevels(raw.asks),
                 tickSize |-> FirstPositive(raw.tickSize, previous.tickSize, defaults.tickSize),
                 minOrderSize |-> FirstPositive(raw.minOrderSize, previous.minOrderSize,
                                                defaults.minOrderSize),
                 lastUpdateMs |-> now,
                 stableSinceMs |-> now]
    IN  IF SameTop(book, previous) /\ previous # NoBook
        THEN [book EXCEPT !.stableSinceMs = previous.stableSinceMs]
        ELSE book

Changed(side, p, size) ==
    IF size > 0 THEN [q \in DOMAIN side \cup {p} |-> IF q = p THEN size ELSE side[q]]
                ELSE [q \in DOMAIN side \ {p} |-> side[q]]

\* One level changed, added or removed.
applyOrderBookDelta(book, delta) ==
    LET next == [book EXCEPT
                   !.bids = IF delta.side = "bid" THEN Changed(@, delta.price, delta.size) ELSE @,
                   !.asks = IF delta.side = "ask" THEN Changed(@, delta.price, delta.size) ELSE @,
                   !.tickSize = FirstPositive(delta.tickSize, @, @),
                   !.minOrderSize = FirstPositive(delta.minOrderSize, @, @),
                   !.lastUpdateMs = delta.receivedAtMs]
    IN  IF SameTop(book, next) THEN next
                               ELSE [next EXCEPT !.stableSinceMs = delta.receivedAtMs]

-----------------------------------------------------------------------------
(* What the asks offer *)

\* What the levels better than p offer together.
Ahead(asks, p) == SumFunctionOnSet(asks, {q \in DOMAIN asks : q < p})

depthAtTopLevels(asks, count) ==
    SumFunctionOnSet(asks,
                     {p \in DOMAIN asks : Cardinality({q \in DOMAIN asks : q < p}) < count})

\* What an order of this size takes at price p, after the better levels.
Taken(asks, size, p) == Max({0, Min({asks[p], size - Ahead(asks, p)})})

sweepCost(asks, size) ==
    LET filled == SumFunction([p \in DOMAIN asks |-> Taken(asks, size, p)])
    IN  [totalCost |-> SumFunction([p \in DOMAIN asks |-> p * Taken(asks, size, p)]),
         filledSize |-> filled,
         exhausted |-> filled < size]

HasSpread(book) == BestBid(book) # NoPrice /\ BestAsk(book) # NoPrice

spread(book) == Max({BestAsk(book) - BestBid(book), 0})

isAlignedToTick(price, tickSize) == tickSize > 0 /\ price % tickSize = 0
=============================================================================

----------------------------- MODULE FillTracking -----------------------------
(***************************************************************************)
(* How fills are learnt and booked: the order tracker (src/src/agents/     *)
(* execution/ExecutionOrderTracker.ts) and the positions of the portfolio  *)
(* (src/src/agents/portfolio/PortfolioAgent.ts).                           *)
(*                                                                         *)
(* The orders buy the same token, one after the other, each in an          *)
(* execution of its own.  The user channel tells of orders and of trades   *)
(* in any order, late, and any number of times: the venue sends a trade    *)
(* again for each status it goes through.  Prices are left out, and so are *)
(* the maker sides of a trade: the orders take liquidity.                  *)
(***************************************************************************)
EXTENDS Naturals, FiniteSets, FiniteSetsExt

CONSTANTS
    LastOrder,       \* the orders are 1 .. LastOrder, in the order of submission
    Trades,          \* the trade ids of the venue
    Size             \* the size of each order

ASSUME LastOrderAssumption == LastOrder \in Nat \ {0}
ASSUME SizeAssumption == Size \in Nat \ {0}

Orders == 1 .. LastOrder

VARIABLES
    phase,           \* how far the execution of an order is
    trades,          \* the trades of an order at the venue
    tracked,         \* userOrders: what is known of an order
    seen,            \* seenTradesByOrder
    outcome,         \* what waitForFillOutcome answered
    expected,        \* expectedFills: the orders a fill is expected for
    booked,          \* the size booked for each order; their sum is the position
    mismatched       \* trades a fill_mismatch incident was recorded for

vars == <<phase, trades, tracked, seen, outcome, expected, booked, mismatched>>

Phases   == {"new", "submitted", "waiting", "finishing", "done"}
Outcomes == {"none", "full", "cancelled", "timeout"}
Trade    == [id : Trades, size : 1 .. Size]
Tracked  == [orderMatched : 0 .. Size, tradeMatched : Nat, filled : BOOLEAN, cancelled : BOOLEAN]

TypeOK ==
    /\ phase \in [Orders -> Phases]
    /\ trades \in [Orders -> SUBSET Trade]
    /\ tracked \in [Orders -> Tracked]
    /\ seen \in [Orders -> SUBSET Trades]
    /\ outcome \in [Orders -> Outcomes]
    /\ expected \subseteq Orders
    /\ booked \in [Orders -> Nat]
    /\ mismatched \subseteq Trades

Unknown == [orderMatched |-> 0, tradeMatched |-> 0, filled |-> FALSE, cancelled |-> FALSE]

Init ==
    /\ phase = [o \in Orders |-> "new"]
    /\ trades = [o \in Orders |-> {}]
    /\ tracked = [o \in Orders |-> Unknown]
    /\ seen = [o \in Orders |-> {}]
    /\ outcome = [o \in Orders |-> "none"]
    /\ expected = {}
    /\ booked = [o \in Orders |-> 0]
    /\ mismatched = {}

-----------------------------------------------------------------------------
(* Helpers *)

\* The units a set of trades amounts to: their number is the sum of the sizes.
Units(S) == {u \in S \X (1 .. Size) : u[2] <= u[1].size}

Matched(o) == Cardinality(Units(trades[o]))

SizeMatched(s) == IF s.orderMatched >= s.tradeMatched THEN s.orderMatched ELSE s.tradeMatched

\* deriveFillOutcome; "none" as long as there is nothing to tell.
Derived(s) ==
    IF SizeMatched(s) >= Size \/ s.filled THEN "full"
    ELSE IF s.cancelled THEN "cancelled" ELSE "none"

\* An update of what is known of o, and resolveFillWaiters.
Learn(o, s) ==
    /\ tracked' = [tracked EXCEPT ![o] = s]
    /\ IF phase[o] = "waiting" /\ Derived(s) # "none"
       THEN /\ outcome' = [outcome EXCEPT ![o] = Derived(s)]
            /\ phase' = [phase EXCEPT ![o] = "finishing"]
       ELSE UNCHANGED <<outcome, phase>>

\* Mutant of Resolve: the expectation is kept.
ResolveKeeps(n) ==
    IF expected = {} THEN [expected |-> {}, ok |-> FALSE]
    ELSE [expected |-> expected, ok |-> Cardinality(expected) = 1 /\ n = Size]

\* resolveExpectedFill: a trade names no opportunity, so the latest expectation for
\* the token is taken for its own.
Resolve(n) ==
    IF expected = {} THEN [expected |-> {}, ok |-> FALSE]
    ELSE [expected |-> expected \ {Max(expected)},
          ok |-> Cardinality(expected) = 1 /\ n = Size]

\* applyFillWithReconciliation, for a trade t of order o.
Book(o, t) ==
    /\ booked' = [booked EXCEPT ![o] = @ + t.size]
    /\ expected' = Resolve(t.size).expected
    /\ mismatched' = IF Resolve(t.size).ok THEN mismatched ELSE mismatched \cup {t.id}

\* cleanupOrderTracking.
Forget(o) ==
    /\ tracked' = [tracked EXCEPT ![o] = Unknown]
    /\ seen' = [seen EXCEPT ![o] = {}]

-----------------------------------------------------------------------------
(* The execution of an order *)

\* One execution at a time on a market; the runner expects a fill of its order.
Submit(o) ==
    /\ phase[o] = "new"
    /\ \A p \in Orders : p < o => phase[p] = "done"
    /\ phase' = [phase EXCEPT ![o] = "submitted"]
    /\ expected' = expected \cup {o}
    /\ UNCHANGED <<trades, tracked, seen, outcome, booked, mismatched>>

\* Mutant of Wait: what is known already is not looked at.
WaitBlindly(o) ==
    /\ phase[o] = "submitted"
    /\ phase' = [phase EXCEPT ![o] = "waiting"]
    /\ UNCHANGED <<trades, tracked, seen, outcome, expected, booked, mismatched>>

\* waitForFillOutcome: at once if the outcome is known.
Wait(o) ==
    /\ phase[o] = "submitted"
    /\ outcome' = [outcome EXCEPT ![o] = Derived(tracked[o])]
    /\ phase' = [phase EXCEPT ![o] = IF Derived(tracked[o]) = "none" THEN "waiting" ELSE "finishing"]
    /\ UNCHANGED <<trades, tracked, seen, expected, booked, mismatched>>

FillTimeout(o) ==
    /\ phase[o] = "waiting"
    /\ outcome' = [outcome EXCEPT ![o] = "timeout"]
    /\ phase' = [phase EXCEPT ![o] = "finishing"]
    /\ UNCHANGED <<trades, tracked, seen, expected, booked, mismatched>>

\* The execution ends, after an outcome or by a refusal before it waits.
Finish(o) ==
    /\ phase[o] \in {"submitted", "finishing"}
    /\ phase' = [phase EXCEPT ![o] = "done"]
    /\ Forget(o)
    /\ UNCHANGED <<trades, outcome, expected, booked, mismatched>>

\* Without an answer to the submission no order id is known: nothing is forgotten.
FinishUntracked(o) ==
    /\ phase[o] = "submitted"
    /\ phase' = [phase EXCEPT ![o] = "done"]
    /\ UNCHANGED <<trades, tracked, seen, outcome, expected, booked, mismatched>>

-----------------------------------------------------------------------------
(* The user channel *)

\* handleUserOrderUpdate.  Sizes may be stale, statuses are those of the venue at some
\* time; a cancellation once seen stays.
OrderUpdate(o, n, filled, cancelled) ==
    /\ phase[o] # "new"
    /\ n <= Matched(o)
    /\ filled => Matched(o) = Size
    /\ cancelled => Matched(o) < Size
    /\ Learn(o, [tracked[o] EXCEPT !.orderMatched = n, !.filled = filled,
                                   !.cancelled = @ \/ cancelled])
    /\ UNCHANGED <<trades, seen, expected, booked, mismatched>>

\* Mutant of TradeUpdate: trades seen before are not skipped.
TradeUpdateAgain(o, t) ==
    /\ t \in trades[o]
    /\ booked[o] <= 2 * Size
    /\ seen' = [seen EXCEPT ![o] = @ \cup {t.id}]
    /\ Learn(o, [tracked[o] EXCEPT !.tradeMatched = @ + t.size])
    /\ Book(o, t)
    /\ UNCHANGED trades

\* handleUserTradeUpdate for the trade t of order o.
TradeUpdate(o, t) ==
    /\ t \in trades[o]
    /\ t.id \notin seen[o]
    /\ seen' = [seen EXCEPT ![o] = @ \cup {t.id}]
    /\ Learn(o, [tracked[o] EXCEPT !.tradeMatched = @ + t.size])
    /\ Book(o, t)
    /\ UNCHANGED trades

\* The venue matches part of o, external to the code.
VenueTrade(o, t) ==
    /\ phase[o] # "new"
    /\ \A p \in Orders : \A u \in trades[p] : u.id # t.id
    /\ Matched(o) + t.size <= Size
    /\ trades' = [trades EXCEPT ![o] = @ \cup {t}]
    /\ UNCHANGED <<phase, tracked, seen, outcome, expected, booked, mismatched>>

-----------------------------------------------------------------------------

Next ==
    \E o \in Orders :
      \/ Submit(o) \/ Wait(o) \/ FillTimeout(o) \/ Finish(o) \/ FinishUntracked(o)
      \/ \E n \in 0 .. Size, filled, cancelled \in BOOLEAN : OrderUpdate(o, n, filled, cancelled)
      \/ \E t \in Trade : VenueTrade(o, t)
      \/ \E t \in trades[o] : TradeUpdate(o, t)

Spec == Init /\ [][Next]_vars

-----------------------------------------------------------------------------
(* Properties *)

\* What the tracker believes of an order is never ahead of the venue, however order
\* and trade events are delayed, repeated and mixed, before and after it forgets.
NeverAheadOfVenue == \A o \in Orders : SizeMatched(tracked[o]) <= Matched(o)

\* No runner waits for what the tracker already knows, whichever of the event and the
\* wait came first.
NoLostWakeup == \A o \in Orders : phase[o] = "waiting" => Derived(tracked[o]) = "none"

\* As long as an execution runs, what it has booked is what its trades amount to at most.
BookedOnceWhileRunning ==
    \A o \in Orders : phase[o] # "done" => booked[o] <= Matched(o)

\* A trade that is booked again raises a fill mismatch as long as no later order for the
\* token has been placed; the expectation of a later one can absorb the repetition.
ExcessIsReported ==
    \A o \in Orders :
        booked[o] > Matched(o) /\ (\A p \in Orders : p > o => phase[p] = "new") =>
            \E t \in trades[o] : t.id \in mismatched

\* Each trade is booked once, however often the venue sends it.
EachTradeBookedOnce == \A o \in Orders : booked[o] <= Matched(o)
=============================================================================

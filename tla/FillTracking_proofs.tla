-------------------------- MODULE FillTracking_proofs --------------------------
(***************************************************************************)
(* For every number of orders and trades and every size: no runner waits   *)
(* for an outcome the order tracker already knows, the tracker never       *)
(* believes more than the venue has matched, and what is booked in excess  *)
(* of it is booked after the end of the execution and reported.            *)
(***************************************************************************)
EXTENDS FillTracking, FiniteSetTheorems, TLAPS

USE LastOrderAssumption, SizeAssumption

IInv == TypeOK /\ NoLostWakeup

\* What is derived from a tracked record is an outcome.
LEMMA DerivedType == \A s : Derived(s) \in Outcomes
  BY DEF Derived, Outcomes

\* An update of what is known keeps the types it changes, and wakes the waiter.
LEMMA LearnKeeps ==
    ASSUME IInv, NEW o \in Orders, NEW s \in Tracked, Learn(o, s)
    PROVE  /\ tracked' \in [Orders -> Tracked] /\ outcome' \in [Orders -> Outcomes]
           /\ phase' \in [Orders -> Phases] /\ NoLostWakeup'
  <1>1. tracked' = [tracked EXCEPT ![o] = s] /\ tracked' \in [Orders -> Tracked]
    BY DEF Learn, IInv, TypeOK
  <1>2. CASE phase[o] = "waiting" /\ Derived(s) # "none"
    <2>1. /\ outcome' = [outcome EXCEPT ![o] = Derived(s)]
          /\ phase' = [phase EXCEPT ![o] = "finishing"]
      BY <1>2 DEF Learn
    <2> QED
      BY <1>1, <2>1, DerivedType DEF IInv, TypeOK, Phases, NoLostWakeup
  <1>3. CASE ~(phase[o] = "waiting" /\ Derived(s) # "none")
    <2>1. UNCHANGED <<outcome, phase>>
      BY <1>3 DEF Learn
    <2> QED
      BY <1>1, <1>3, <2>1 DEF IInv, TypeOK, NoLostWakeup
  <1> QED
    BY <1>2, <1>3

\* The types and the waiters' invariant hold initially.
LEMMA InvariantInit == Init => IInv
  BY DEF Init, IInv, TypeOK, NoLostWakeup, Orders, Phases, Outcomes, Tracked, Unknown, Derived,
     SizeMatched

\* Every step keeps the types and leaves no runner waiting for a known outcome.
LEMMA InvariantStep ==
    ASSUME IInv, [Next]_vars
    PROVE  IInv'
  <1>1. ASSUME NEW o \in Orders, Submit(o)
        PROVE  IInv'
    BY <1>1 DEF Submit, IInv, TypeOK, Phases, NoLostWakeup
  <1>2. ASSUME NEW o \in Orders, Wait(o)
        PROVE  IInv'
    <2>1. TypeOK'
      BY <1>2, DerivedType DEF Wait, IInv, TypeOK, Phases
    <2>2. NoLostWakeup'
      BY <1>2 DEF Wait, IInv, TypeOK, NoLostWakeup
    <2> QED
      BY <2>1, <2>2 DEF IInv
  <1>3. ASSUME NEW o \in Orders, FillTimeout(o)
        PROVE  IInv'
    BY <1>3 DEF FillTimeout, IInv, TypeOK, Phases, Outcomes, NoLostWakeup
  <1>4. ASSUME NEW o \in Orders, Finish(o)
        PROVE  IInv'
    <2>1. Unknown \in Tracked
      BY DEF Unknown, Tracked
    <2>2. TypeOK'
      BY <1>4, <2>1 DEF Finish, Forget, IInv, TypeOK, Phases
    <2>3. NoLostWakeup'
      BY <1>4 DEF Finish, Forget, IInv, TypeOK, NoLostWakeup
    <2> QED
      BY <2>2, <2>3 DEF IInv
  <1>5. ASSUME NEW o \in Orders, FinishUntracked(o)
        PROVE  IInv'
    BY <1>5 DEF FinishUntracked, IInv, TypeOK, Phases, NoLostWakeup
  <1>6. ASSUME NEW o \in Orders, NEW n \in 0 .. Size, NEW filled \in BOOLEAN,
               NEW cancelled \in BOOLEAN, OrderUpdate(o, n, filled, cancelled)
        PROVE  IInv'
    <2> DEFINE s == [tracked[o] EXCEPT !.orderMatched = n, !.filled = filled,
                                       !.cancelled = @ \/ cancelled]
    <2>1. tracked[o] \in Tracked
      BY DEF IInv, TypeOK
    <2>2. s \in Tracked
      BY <2>1 DEF Tracked
    <2>3. Learn(o, s) /\ UNCHANGED <<trades, seen, expected, booked, mismatched>>
      BY <1>6 DEF OrderUpdate
    <2> HIDE DEF s
    <2> QED
      BY <2>2, <2>3, LearnKeeps DEF IInv, TypeOK
  <1>7. ASSUME NEW o \in Orders, NEW t \in trades[o], TradeUpdate(o, t)
        PROVE  IInv'
    <2> DEFINE s == [tracked[o] EXCEPT !.tradeMatched = @ + t.size]
    <2>1. tracked[o] \in Tracked /\ t \in Trade /\ t.id \in Trades /\ t.size \in Nat
      BY DEF IInv, TypeOK, Trade
    <2>2. s \in Tracked
      BY <2>1 DEF Tracked
    <2>3. Learn(o, s)
      BY <1>7 DEF TradeUpdate
    <2>4. /\ tracked' \in [Orders -> Tracked] /\ outcome' \in [Orders -> Outcomes]
          /\ phase' \in [Orders -> Phases] /\ NoLostWakeup'
      BY <2>2, <2>3, LearnKeeps
    <2>5. /\ seen' \in [Orders -> SUBSET Trades] /\ trades' \in [Orders -> SUBSET Trade]
          /\ booked' \in [Orders -> Nat] /\ mismatched' \subseteq Trades
      BY <1>7, <2>1 DEF TradeUpdate, Book, IInv, TypeOK
    <2>6. expected' \subseteq Orders
      BY <1>7 DEF TradeUpdate, Book, Resolve, IInv, TypeOK
    <2> QED
      BY <2>4, <2>5, <2>6 DEF IInv, TypeOK
  <1>8. ASSUME NEW o \in Orders, NEW t \in Trade, VenueTrade(o, t)
        PROVE  IInv'
    BY <1>8 DEF VenueTrade, IInv, TypeOK, NoLostWakeup
  <1>9. CASE UNCHANGED vars
    BY <1>9 DEF vars, IInv, TypeOK, NoLostWakeup
  <1> QED
    BY <1>1, <1>2, <1>3, <1>4, <1>5, <1>6, <1>7, <1>8, <1>9 DEF Next

\* Whichever of the event and the wait comes first, no runner waits for what the
\* tracker already knows, for any number of orders and trades.
THEOREM WakeupsAreNotLost == Spec => [](TypeOK /\ NoLostWakeup)
  <1>1. Init => IInv
    BY InvariantInit
  <1>2. IInv /\ [Next]_vars => IInv'
    BY InvariantStep
  <1> QED
    BY <1>1, <1>2, PTL DEF Spec, IInv

-----------------------------------------------------------------------------
(* What trades amount to *)

\* Trades amount to a number of units.
LEMMA UnitsFinite ==
    ASSUME NEW S, IsFiniteSet(S)
    PROVE  IsFiniteSet(Units(S)) /\ Cardinality(Units(S)) \in Nat
  <1>1. IsFiniteSet(1 .. Size)
    BY FS_Interval
  <1>2. IsFiniteSet(S \X (1 .. Size))
    BY <1>1, FS_Product
  <1>3. Units(S) \in SUBSET (S \X (1 .. Size))
    BY DEF Units
  <1> QED
    BY <1>2, <1>3, FS_Subset, FS_CardinalityType

\* Some of the trades amount to no more than all.
LEMMA UnitsMonotone ==
    ASSUME NEW T, IsFiniteSet(T), NEW S \in SUBSET T
    PROVE  Cardinality(Units(S)) <= Cardinality(Units(T))
  <1>1. Units(S) \in SUBSET Units(T)
    BY DEF Units
  <1> QED
    BY <1>1, UnitsFinite, FS_Subset

\* No trades amount to nothing.
LEMMA UnitsOfNone == Cardinality(Units({})) = 0
  <1>1. Units({}) = {}
    BY DEF Units
  <1> QED
    BY <1>1, FS_EmptySet

\* One more trade adds its size.
LEMMA UnitsAdd ==
    ASSUME NEW S, IsFiniteSet(S), NEW t \in Trade, t \notin S
    PROVE  /\ IsFiniteSet(S \cup {t})
           /\ Cardinality(Units(S \cup {t})) = Cardinality(Units(S)) + t.size
  <1> DEFINE M == {t} \X (1 .. t.size)
  <1>1. t.size \in 1 .. Size
    BY DEF Trade
  <1>2. IsFiniteSet(M) /\ Cardinality(M) = t.size
    <2>1. IsFiniteSet({t}) /\ Cardinality({t}) = 1
      BY FS_Singleton
    <2>2. IsFiniteSet(1 .. t.size) /\ Cardinality(1 .. t.size) = t.size
      BY <1>1, FS_Interval
    <2> QED
      BY <1>1, <2>1, <2>2, FS_Product
  <1>3. Units(S \cup {t}) = Units(S) \cup M /\ Units(S) \cap M = {}
    BY <1>1 DEF Units
  <1>4. IsFiniteSet(Units(S)) /\ Cardinality(Units(S)) \in Nat
    BY UnitsFinite
  <1>5. Cardinality(Units(S) \cup M) = Cardinality(Units(S)) + Cardinality(M) - Cardinality({})
    BY <1>2, <1>3, <1>4, FS_Union
  <1>6. Cardinality(Units(S) \cup M) = Cardinality(Units(S)) + t.size
    BY <1>1, <1>2, <1>4, <1>5, FS_EmptySet
  <1>7. Cardinality(Units(S \cup {t})) = Cardinality(Units(S) \cup M)
    BY <1>3
  <1> QED
    BY <1>6, <1>7, FS_AddElement

-----------------------------------------------------------------------------
(* What is believed and what is booked *)

\* The trades of o the tracker was told of and has not forgotten.
Told(o) == {t \in trades[o] : t.id \in seen[o]}

\* A trade has one id, and the tracker has seen trades of the venue only.
TradesKnown ==
    /\ \A o \in Orders : IsFiniteSet(trades[o])
    /\ \A o \in Orders : \A t, u \in trades[o] : t.id = u.id => t = u
    /\ \A o \in Orders : \A i \in seen[o] : \E t \in trades[o] : t.id = i

\* The tracker adds up the trades it was told of, and the venue's number is never above.
BeliefTrue ==
    \A o \in Orders :
        /\ tracked[o].tradeMatched = Cardinality(Units(Told(o)))
        /\ tracked[o].orderMatched <= Matched(o)

\* Orders follow one another; an order that was not submitted has traded nothing.
InSequence ==
    \A o \in Orders :
        /\ phase[o] = "new" => trades[o] = {} /\ booked[o] = 0
        /\ phase[o] # "new" => \A p \in Orders : p < o => phase[p] = "done"

\* As long as an execution runs, what the tracker was told of is booked.
BookedAsTold ==
    \A o \in Orders : phase[o] # "done" => booked[o] = Cardinality(Units(Told(o)))

\* Once the latest order has booked, a mismatch of it is reported, or it has taken the last
\* expectation and booked no more than has matched: whatever it books next is reported.
LatestReported ==
    \A o \in Orders : (\A p \in Orders : p > o => phase[p] = "new") =>
        \/ \E t \in trades[o] : t.id \in mismatched
        \/ booked[o] = 0
        \/ expected = {} /\ booked[o] <= Matched(o)

BookInv == IInv /\ TradesKnown /\ BeliefTrue /\ InSequence /\ BookedAsTold /\ LatestReported

\* The numbers of an order: what was told is part of what matched.
LEMMA Amounts ==
    ASSUME TypeOK, TradesKnown, NEW o \in Orders
    PROVE  /\ Told(o) \subseteq trades[o] /\ trades[o] \subseteq Trade
           /\ IsFiniteSet(trades[o]) /\ IsFiniteSet(Told(o))
           /\ Cardinality(Units(Told(o))) \in Nat /\ Matched(o) \in Nat
           /\ Cardinality(Units(Told(o))) <= Matched(o)
           /\ booked[o] \in Nat
  <1>1. Told(o) \in SUBSET trades[o] /\ trades[o] \subseteq Trade /\ IsFiniteSet(trades[o])
    BY DEF Told, TypeOK, TradesKnown
  <1>2. IsFiniteSet(Told(o))
    BY <1>1, FS_Subset
  <1> QED
    BY <1>1, <1>2, UnitsFinite, UnitsMonotone DEF Matched, TypeOK

\* The properties follow.
LEMMA BookingsFollow ==
    ASSUME BookInv
    PROVE  NeverAheadOfVenue /\ BookedOnceWhileRunning /\ ExcessIsReported
  <1> USE DEF BookInv, IInv
  <1>1. NeverAheadOfVenue
    BY Amounts DEF NeverAheadOfVenue, SizeMatched, BeliefTrue
  <1>2. BookedOnceWhileRunning
    BY Amounts DEF BookedOnceWhileRunning, BookedAsTold
  <1>3. ExcessIsReported
    <2> SUFFICES ASSUME NEW o \in Orders, booked[o] > Matched(o),
                        \A p \in Orders : p > o => phase[p] = "new"
                 PROVE  \E t \in trades[o] : t.id \in mismatched
      BY DEF ExcessIsReported
    <2> QED
      BY Amounts DEF LatestReported
  <1> QED
    BY <1>1, <1>2, <1>3

\* Nothing is booked initially.
LEMMA BookInit == Init => BookInv
  <1> SUFFICES ASSUME Init
               PROVE  BookInv
    OBVIOUS
  <1>1. \A o \in Orders : /\ trades[o] = {} /\ seen[o] = {} /\ booked[o] = 0
                          /\ phase[o] = "new" /\ tracked[o] = Unknown
    BY DEF Init
  <1>2. \A o \in Orders : Told(o) = {}
    BY <1>1 DEF Told
  <1>3. TradesKnown /\ InSequence /\ LatestReported
    BY <1>1, FS_EmptySet DEF TradesKnown, InSequence, LatestReported
  <1>4. BeliefTrue /\ BookedAsTold
    <2>1. \A o \in Orders : Cardinality(Units(Told(o))) = 0 /\ Matched(o) = 0
      BY <1>1, <1>2, UnitsOfNone DEF Matched
    <2>2. \A o \in Orders : tracked[o].tradeMatched = 0 /\ tracked[o].orderMatched = 0
      BY <1>1 DEF Unknown
    <2> QED
      BY <1>1, <2>1, <2>2 DEF BeliefTrue, BookedAsTold
  <1> QED
    BY <1>3, <1>4, InvariantInit DEF BookInv

\* An execution goes on, and keeps or forgets what it was told.
LEMMA ExecutionGoesOn ==
    ASSUME BookInv, IInv', NEW o \in Orders, NEW x,
           phase[o] \notin {"new", "done"}, x # "new", phase' = [phase EXCEPT ![o] = x],
           UNCHANGED <<trades, expected, booked, mismatched>>,
           \/ UNCHANGED <<tracked, seen>>
           \/ x = "done" /\ Forget(o)
    PROVE  BookInv'
  <1>1. /\ TypeOK
        /\ \A p \in Orders : p # o => phase'[p] = phase[p]
        /\ phase'[o] = x
    BY DEF BookInv, IInv, TypeOK
  <1>2. \A p \in Orders : Matched(p)' = Matched(p)
    BY DEF Matched
  <1>3. \A p \in Orders : p # o =>
          Told(p)' = Told(p) /\ tracked'[p] = tracked[p] /\ seen'[p] = seen[p]
    BY DEF Forget, Told, BookInv, IInv, TypeOK
  <1>4. CASE UNCHANGED <<tracked, seen>>
    <2>1. Told(o)' = Told(o)
      BY <1>4 DEF Told
    <2>2. TradesKnown' /\ BeliefTrue' /\ BookedAsTold'
      BY <1>1, <1>2, <1>3, <1>4, <2>1 DEF BookInv, TradesKnown, BeliefTrue, BookedAsTold
    <2>3. InSequence'
      BY <1>1 DEF BookInv, InSequence, Orders
    <2>4. LatestReported'
      BY <1>1, <1>2 DEF BookInv, LatestReported
    <2> QED
      BY <2>2, <2>3, <2>4 DEF BookInv
  <1>5. CASE x = "done" /\ Forget(o)
    <2>1. tracked'[o] = Unknown /\ seen'[o] = {}
      BY <1>5 DEF Forget, BookInv, IInv, TypeOK
    <2>2. Told(o)' = {}
      BY <2>1 DEF Told
    <2>3. Matched(o) \in Nat
      BY Amounts DEF BookInv, IInv
    <2>4. BeliefTrue'
      <3>1. /\ tracked'[o].tradeMatched = 0 /\ tracked'[o].orderMatched = 0
            /\ Cardinality(Units(Told(o)')) = 0
        BY <2>1, <2>2, UnitsOfNone DEF Unknown
      <3>2. \A p \in Orders : p # o =>
              /\ tracked'[p].tradeMatched = Cardinality(Units(Told(p)'))
              /\ tracked'[p].orderMatched <= Matched(p)'
        BY <1>2, <1>3 DEF BookInv, BeliefTrue
      <3>3. 0 <= Matched(o)'
        BY <1>2, <2>3
      <3>4. \A p \in Orders : Cardinality(Units(Told(p)))' = Cardinality(Units(Told(p)'))
        BY DEF Units
      <3> QED
        BY <3>1, <3>2, <3>3, <3>4 DEF BeliefTrue
    <2>7. TradesKnown' /\ BookedAsTold'
      BY <1>1, <1>3, <1>5, <2>1 DEF BookInv, TradesKnown, BookedAsTold
    <2>5. InSequence'
      BY <1>1 DEF BookInv, InSequence, Orders
    <2>6. LatestReported'
      BY <1>1, <1>2 DEF BookInv, LatestReported
    <2> QED
      BY <2>4, <2>5, <2>6, <2>7 DEF BookInv
  <1> QED
    BY <1>4, <1>5

\* A submission keeps the invariant: the orders before it are done with.
LEMMA SubmitKeeps ==
    ASSUME BookInv, IInv', NEW o \in Orders, Submit(o)
    PROVE  BookInv'
  <1>1. /\ phase[o] = "new" /\ \A p \in Orders : p < o => phase[p] = "done"
        /\ phase'[o] = "submitted" /\ \A p \in Orders : p # o => phase'[p] = phase[p]
        /\ UNCHANGED <<trades, tracked, seen, booked, mismatched>>
    BY DEF Submit, BookInv, IInv, TypeOK
  <1>2. \A p \in Orders : Matched(p)' = Matched(p) /\ Told(p)' = Told(p)
    BY <1>1 DEF Matched, Told
  <1>3. TradesKnown' /\ BeliefTrue' /\ BookedAsTold'
    BY <1>1, <1>2 DEF BookInv, TradesKnown, BeliefTrue, BookedAsTold
  <1>4. InSequence'
    BY <1>1 DEF BookInv, InSequence, Orders
  <1>5. LatestReported'
    <2> SUFFICES ASSUME NEW q \in Orders, \A p \in Orders : p > q => phase'[p] = "new"
                 PROVE  booked[q] = 0
      BY <1>1 DEF LatestReported
    <2> QED
      BY <1>1 DEF BookInv, InSequence, Orders
  <1> QED
    BY <1>3, <1>4, <1>5 DEF BookInv

\* An update of the order keeps the invariant, if it is not ahead of the venue.
LEMMA OrderUpdateKeeps ==
    ASSUME BookInv, IInv', NEW o \in Orders, NEW n \in 0 .. Size, NEW filled \in BOOLEAN,
           NEW cancelled \in BOOLEAN, OrderUpdate(o, n, filled, cancelled)
    PROVE  BookInv'
  <1> DEFINE s == [tracked[o] EXCEPT !.orderMatched = n, !.filled = filled,
                                     !.cancelled = @ \/ cancelled]
  <1>1. /\ phase[o] # "new" /\ n <= Matched(o) /\ Learn(o, s)
        /\ UNCHANGED <<trades, seen, expected, booked, mismatched>>
    BY DEF OrderUpdate
  <1>2. tracked[o] \in Tracked
    BY DEF BookInv, IInv, TypeOK
  <1>3. s.orderMatched = n /\ s.tradeMatched = tracked[o].tradeMatched
    BY <1>2 DEF Tracked
  <1> HIDE DEF s
  <1>4. tracked'[o] = s /\ \A p \in Orders : p # o => tracked'[p] = tracked[p]
    BY <1>1 DEF Learn, BookInv, IInv, TypeOK
  <1>5. \A p \in Orders : Matched(p)' = Matched(p) /\ Told(p)' = Told(p)
    BY <1>1 DEF Matched, Told
  <1>6. /\ \A p \in Orders : phase'[p] = "new" <=> phase[p] = "new"
        /\ \A p \in Orders : phase'[p] = "done" <=> phase[p] = "done"
    BY <1>1 DEF Learn, BookInv, IInv, TypeOK
  <1>7. TradesKnown' /\ BeliefTrue'
    BY <1>1, <1>3, <1>4, <1>5 DEF BookInv, TradesKnown, BeliefTrue
  <1>8. InSequence' /\ BookedAsTold'
    BY <1>1, <1>5, <1>6 DEF BookInv, InSequence, BookedAsTold
  <1>9. LatestReported'
    BY <1>1, <1>5, <1>6 DEF BookInv, LatestReported
  <1> QED
    BY <1>7, <1>8, <1>9 DEF BookInv

\* What is left of an expectation that was met exactly, or of none.
LEMMA ResolveGives ==
    ASSUME expected \subseteq Orders, NEW n
    PROVE  /\ expected = {} => Resolve(n) = [expected |-> {}, ok |-> FALSE]
           /\ Resolve(n).ok => n = Size /\ Resolve(n).expected = {}
  <1>1. CASE expected = {}
    BY <1>1 DEF Resolve
  <1>2. CASE expected # {}
    <2>1. /\ Resolve(n).ok <=> Cardinality(expected) = 1 /\ n = Size
          /\ Resolve(n).expected = expected \ {Max(expected)}
      BY <1>2 DEF Resolve
    <2>2. IsFiniteSet(expected)
      <3>1. IsFiniteSet(Orders)
        BY FS_Interval DEF Orders
      <3> QED
        BY <3>1, FS_Subset
    <2>3. ASSUME Cardinality(expected) = 1
          PROVE  expected \ {Max(expected)} = {}
      <3>1. PICK x : expected = {x}
        BY <2>2, <2>3, FS_Singleton
      <3>2. x \in Nat
        BY <3>1 DEF Orders
      <3>3. Max(expected) = x
        BY <3>1, <3>2 DEF Max
      <3> QED
        BY <3>1, <3>3
    <2> QED
      BY <1>2, <2>1, <2>3
  <1> QED
    BY <1>1, <1>2

\* A trade the tracker had not seen keeps the invariant, before and after the execution.
LEMMA TradeUpdateKeeps ==
    ASSUME BookInv, IInv', NEW o \in Orders, NEW t \in trades[o], TradeUpdate(o, t)
    PROVE  BookInv'
  <1> DEFINE s == [tracked[o] EXCEPT !.tradeMatched = @ + t.size]
  <1>1. /\ t.id \notin seen[o] /\ Learn(o, s) /\ UNCHANGED trades
        /\ seen' = [seen EXCEPT ![o] = @ \cup {t.id}]
        /\ booked' = [booked EXCEPT ![o] = @ + t.size]
        /\ expected' = Resolve(t.size).expected
        /\ mismatched' = IF Resolve(t.size).ok THEN mismatched ELSE mismatched \cup {t.id}
    BY DEF TradeUpdate, Book
  <1>2. /\ TypeOK /\ TradesKnown /\ tracked[o] \in Tracked /\ t \in Trade
        /\ t.size \in Nat \ {0}
    BY DEF BookInv, IInv, TypeOK, Trade
  <1>3. s.orderMatched = tracked[o].orderMatched /\ s.tradeMatched = tracked[o].tradeMatched + t.size
    BY <1>2 DEF Tracked
  <1> HIDE DEF s
  <1>4. tracked'[o] = s /\ \A p \in Orders : p # o => tracked'[p] = tracked[p]
    BY <1>1, <1>2 DEF Learn, TypeOK
  <1>5. \A p \in Orders : Matched(p)' = Matched(p)
    BY <1>1 DEF Matched
  <1>6. /\ phase[o] # "new"
        /\ \A p \in Orders : phase'[p] = "new" <=> phase[p] = "new"
        /\ \A p \in Orders : phase'[p] = "done" <=> phase[p] = "done"
    BY <1>1, <1>2 DEF Learn, TypeOK, BookInv, InSequence
  <1>7. \A p \in Orders : p # o => Told(p)' = Told(p) /\ booked'[p] = booked[p]
    BY <1>1, <1>2 DEF Told, TypeOK
  <1>8. Told(o)' = Told(o) \cup {t} /\ t \notin Told(o) /\ booked'[o] = booked[o] + t.size
    BY <1>1, <1>2 DEF Told, TypeOK, TradesKnown
  <1>9. /\ IsFiniteSet(Told(o)) /\ Cardinality(Units(Told(o))) \in Nat
        /\ Cardinality(Units(Told(o)))' = Cardinality(Units(Told(o))) + t.size
    <2>1. IsFiniteSet(Told(o)) /\ Cardinality(Units(Told(o))) \in Nat
      BY <1>2, Amounts
    <2>2. Cardinality(Units(Told(o) \cup {t})) = Cardinality(Units(Told(o))) + t.size
      BY <1>2, <1>8, <2>1, UnitsAdd
    <2>3. Cardinality(Units(Told(o)))' = Cardinality(Units(Told(o) \cup {t}))
      BY <1>8 DEF Units
    <2> QED
      BY <2>1, <2>2, <2>3
  <1>10. \A p \in Orders : p # o => Cardinality(Units(Told(p)))' = Cardinality(Units(Told(p)))
    BY <1>7 DEF Units
  <1>11. TradesKnown'
    BY <1>1, <1>2 DEF TradesKnown, TypeOK
  <1>12. BeliefTrue'
    BY <1>3, <1>4, <1>5, <1>9, <1>10 DEF BookInv, BeliefTrue
  <1>13. InSequence'
    BY <1>1, <1>6, <1>7 DEF BookInv, InSequence
  <1>14. BookedAsTold'
    BY <1>6, <1>7, <1>8, <1>9, <1>10 DEF BookInv, BookedAsTold
  <1>15. LatestReported'
    <2> SUFFICES ASSUME NEW q \in Orders, \A p \in Orders : p > q => phase'[p] = "new"
                 PROVE  \/ \E u \in trades'[q] : u.id \in mismatched'
                        \/ booked'[q] = 0
                        \/ expected' = {} /\ booked'[q] <= Matched(q)'
      BY DEF LatestReported
    <2>1. /\ \/ \E u \in trades[q] : u.id \in mismatched
             \/ booked[q] = 0
             \/ expected = {} /\ booked[q] <= Matched(q)
          /\ mismatched \subseteq mismatched'
      BY <1>1, <1>6 DEF BookInv, LatestReported
    <2>2. /\ expected = {} => Resolve(t.size) = [expected |-> {}, ok |-> FALSE]
          /\ Resolve(t.size).ok => t.size = Size /\ Resolve(t.size).expected = {}
      BY <1>2, ResolveGives DEF TypeOK
    <2>3. CASE q # o
      BY <1>1, <1>5, <1>7, <2>1, <2>2, <2>3
    <2>4. CASE q = o
      <3>1. CASE Resolve(t.size).ok /\ booked[o] = 0
        <4>1. t.size <= Matched(o)
          <5>1. Told(o) \cup {t} \in SUBSET trades[o] /\ IsFiniteSet(trades[o])
            BY <1>2 DEF Told, TradesKnown
          <5>2. Cardinality(Units(Told(o) \cup {t})) <= Matched(o)
            BY <5>1, UnitsMonotone DEF Matched
          <5>3. Cardinality(Units(Told(o) \cup {t})) = Cardinality(Units(Told(o))) + t.size
            BY <1>2, <1>8, <1>9, UnitsAdd
          <5>4. Matched(o) \in Nat
            BY <1>2, Amounts
          <5> QED
            BY <1>2, <1>9, <5>2, <5>3, <5>4
        <4> QED
          BY <1>1, <1>2, <1>5, <1>8, <2>2, <2>4, <3>1, <4>1
      <3>2. CASE Resolve(t.size).ok /\ booked[o] # 0
        BY <1>1, <2>1, <2>2, <2>4, <3>2
      <3>3. CASE ~Resolve(t.size).ok
        BY <1>1, <2>4, <3>3
      <3> QED
        BY <3>1, <3>2, <3>3
    <2> QED
      BY <2>3, <2>4
  <1> QED
    BY <1>11, <1>12, <1>13, <1>14, <1>15 DEF BookInv

\* A trade at the venue keeps the invariant: the tracker has not seen it yet.
LEMMA VenueTradeKeeps ==
    ASSUME BookInv, IInv', NEW o \in Orders, NEW t \in Trade, VenueTrade(o, t)
    PROVE  BookInv'
  <1>1. /\ phase[o] # "new" /\ \A p \in Orders : \A u \in trades[p] : u.id # t.id
        /\ trades' = [trades EXCEPT ![o] = @ \cup {t}]
        /\ UNCHANGED <<phase, tracked, seen, outcome, expected, booked, mismatched>>
    BY DEF VenueTrade
  <1>2. TypeOK /\ TradesKnown
    BY DEF BookInv, IInv
  <1>3. /\ trades'[o] = trades[o] \cup {t} /\ IsFiniteSet(trades'[o])
        /\ \A p \in Orders : p # o => trades'[p] = trades[p]
    BY <1>1, <1>2, FS_AddElement DEF TypeOK, TradesKnown
  <1>4. \A p \in Orders : Told(p)' = Told(p)
    BY <1>1, <1>2, <1>3 DEF Told, TradesKnown
  <1>5. TradesKnown'
    <2>1. \A p \in Orders : IsFiniteSet(trades'[p])
      BY <1>2, <1>3 DEF TradesKnown
    <2>2. \A p \in Orders : \A u, v \in trades'[p] : u.id = v.id => u = v
      BY <1>1, <1>2, <1>3 DEF TradesKnown
    <2>3. \A p \in Orders : \A i \in seen'[p] : \E u \in trades'[p] : u.id = i
      BY <1>1, <1>2, <1>3 DEF TradesKnown
    <2> QED
      BY <2>1, <2>2, <2>3 DEF TradesKnown
  <1>6. \A p \in Orders : Matched(p) <= Matched(p)' /\ Matched(p) \in Nat /\ Matched(p)' \in Nat
    <2> SUFFICES ASSUME NEW p \in Orders
                 PROVE  Matched(p) <= Matched(p)' /\ Matched(p) \in Nat /\ Matched(p)' \in Nat
      OBVIOUS
    <2>1. trades[p] \in SUBSET trades'[p] /\ IsFiniteSet(trades'[p]) /\ IsFiniteSet(trades[p])
      BY <1>2, <1>3, <1>5 DEF TradesKnown
    <2>2. Matched(p)' = Cardinality(Units(trades'[p]))
      BY DEF Matched, Units
    <2> QED
      BY <2>1, <2>2, UnitsMonotone, UnitsFinite DEF Matched
  <1>7. BeliefTrue'
    <2>1. \A p \in Orders : Cardinality(Units(Told(p)))' = Cardinality(Units(Told(p)))
      BY <1>4 DEF Units
    <2>2. \A p \in Orders : tracked[p].orderMatched \in Nat
      BY <1>2 DEF TypeOK, Tracked
    <2> QED
      BY <1>1, <1>6, <2>1, <2>2 DEF BookInv, BeliefTrue
  <1>8. InSequence' /\ BookedAsTold'
    BY <1>1, <1>3, <1>4 DEF BookInv, InSequence, BookedAsTold
  <1>9. LatestReported'
    <2>1. \A p \in Orders : booked[p] \in Nat
      BY <1>2 DEF TypeOK
    <2> QED
      BY <1>1, <1>3, <1>6, <2>1 DEF BookInv, LatestReported
  <1> QED
    BY <1>5, <1>7, <1>8, <1>9 DEF BookInv

\* Every step keeps what is believed and booked.
LEMMA BookStep ==
    ASSUME BookInv, [Next]_vars
    PROVE  BookInv'
  <1>1. IInv'
    BY InvariantStep DEF BookInv
  <1>2. ASSUME NEW o \in Orders, Wait(o) \/ FillTimeout(o) \/ Finish(o) \/ FinishUntracked(o)
        PROVE  BookInv'
    <2>1. PICK x \in {"waiting", "finishing", "done"} :
            /\ phase[o] \notin {"new", "done"} /\ phase' = [phase EXCEPT ![o] = x]
            /\ UNCHANGED <<trades, expected, booked, mismatched>>
            /\ UNCHANGED <<tracked, seen>> \/ (x = "done" /\ Forget(o))
      BY <1>2 DEF Wait, FillTimeout, Finish, FinishUntracked
    <2> QED
      BY <1>1, <2>1, ExecutionGoesOn
  <1>3. CASE UNCHANGED vars
    <2>1. \A o \in Orders : Told(o)' = Told(o) /\ Matched(o)' = Matched(o)
      BY <1>3 DEF vars, Told, Matched
    <2> QED
      BY <1>1, <1>3, <2>1 DEF vars, BookInv, TradesKnown, BeliefTrue, InSequence, BookedAsTold,
         LatestReported
  <1>4. ASSUME NEW o \in Orders, Submit(o) PROVE BookInv'
    BY <1>1, <1>4, SubmitKeeps
  <1>5. ASSUME NEW o \in Orders, NEW n \in 0 .. Size, NEW filled \in BOOLEAN,
               NEW cancelled \in BOOLEAN, OrderUpdate(o, n, filled, cancelled)
        PROVE  BookInv'
    BY <1>1, <1>5, OrderUpdateKeeps
  <1>6. ASSUME NEW o \in Orders, NEW t \in Trade, VenueTrade(o, t) PROVE BookInv'
    BY <1>1, <1>6, VenueTradeKeeps
  <1>7. ASSUME NEW o \in Orders, NEW t \in trades[o], TradeUpdate(o, t) PROVE BookInv'
    BY <1>1, <1>7, TradeUpdateKeeps
  <1> QED
    BY <1>2, <1>3, <1>4, <1>5, <1>6, <1>7 DEF Next

\* What the tracker and the portfolio keep of any number of orders, whatever is delayed,
\* repeated and mixed.
THEOREM BookingsAccounted == Spec => []BookInv
  BY BookInit, BookStep, PTL DEF Spec

\* However events are delayed, repeated and mixed, the tracker is never ahead of the venue.
THEOREM TrackerNeverAhead == Spec => []NeverAheadOfVenue
  BY BookingsAccounted, BookingsFollow, PTL

\* As long as an execution runs, it has booked no more than its trades amount to.
THEOREM RunningBooksOnce == Spec => []BookedOnceWhileRunning
  BY BookingsAccounted, BookingsFollow, PTL

\* What the latest order books in excess of what it has matched is reported.
THEOREM ExcessReported == Spec => []ExcessIsReported
  BY BookingsAccounted, BookingsFollow, PTL

=============================================================================

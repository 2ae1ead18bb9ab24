---------------------------- MODULE Services_proofs ----------------------------
(***************************************************************************)
(* Proofs about the services around the pipeline, for any markets, orders, *)
(* events, calls and settings.                                             *)
(*                                                                         *)
(* The life of the process: the reconciliation of the start is over before *)
(* anything can trade, so the open orders it reads are none of this        *)
(* process.  What is open when trading is stopped is never placed again,   *)
(* so a cancelAll that succeeds after it has the last word.                *)
(*                                                                         *)
(* The calls to the venue: a nonce belongs to one call, and everything     *)
(* that is on its way to the venue or has been taken there carries the     *)
(* nonce of its call.  So the venue, which takes a nonce once, takes an    *)
(* order once, and "duplicate" can only mean that it has the order of this *)
(* very call.                                                              *)
(*                                                                         *)
(* Trading and the catalog: every action that changes the decision of the  *)
(* operator or the readiness of the catalog switches the agents in the     *)
(* same turn, and one that installs a catalog installs it everywhere, cut  *)
(* to its limit, whatever the pages of the refresh were of.                *)
(*                                                                         *)
(* The learning counts: what memory and snapshot count of a market is      *)
(* never more than what is stored of it up to the time they stand for, and *)
(* a restart counts what is later only.                                    *)
(***************************************************************************)
EXTENDS Operations, Reconciliation, Learning, VenueCalls, FiniteSetTheorems, SequenceTheorems,
        WellFoundedInduction, TLAPS

-----------------------------------------------------------------------------
(* Finite sets of numbers and of values *)

\* Numbers that are bounded have a greatest one.
LEMMA GreatestNumber ==
    ASSUME NEW K \in SUBSET Nat, K # {}, NEW n \in Nat, \A k \in K : k <= n
    PROVE  \E m \in K : \A k \in K : k <= m
  <1> DEFINE B == {b \in Nat : \A k \in K : k <= b}
  <1>1. PICK b \in B : \A c \in B : ~ (<<c, b>> \in OpToRel(<, Nat))
    <2>1. B # {} /\ B \subseteq Nat
      OBVIOUS
    <2> QED
      BY <2>1, NatLessThanWellFounded, WFMin
  <1>2. \A c \in B : ~ (c < b)
    BY <1>1 DEF OpToRel
  <1>3. b \in K
    <2> SUFFICES ASSUME b \notin K
                 PROVE  FALSE
      OBVIOUS
    <2>1. \A k \in K : k \in Nat /\ k <= b /\ k # b
      OBVIOUS
    <2>2. b - 1 \in B
      <3>1. PICK k \in K : k <= b /\ k # b
        BY <2>1
      <3>2. b \in Nat /\ k \in Nat
        OBVIOUS
      <3>3. b - 1 \in Nat
        BY <3>1, <3>2
      <3>4. \A i \in K : i <= b - 1
        BY <2>1, <3>2
      <3> QED
        BY <3>3, <3>4
    <2> QED
      BY <1>2, <2>2
  <1> QED
    BY <1>3

\* What a function takes from a finite set is finite, and no more.
LEMMA FiniteImage ==
    ASSUME NEW S, IsFiniteSet(S), NEW f, DOMAIN f = S, f = [x \in S |-> f[x]]
    PROVE  /\ IsFiniteSet({f[x] : x \in S})
           /\ Cardinality({f[x] : x \in S}) <= Cardinality(S)
  <1>1. f \in Surjection(S, {f[x] : x \in S})
    BY DEF Surjection
  <1> QED
    BY <1>1, FS_Surjection

-----------------------------------------------------------------------------
(* The life of the process *)

Triggers == {"none", "startup", "interval", "incident", "shutdown"}
ReconStages == {"none", "orders", "positions", "analysis", "sweeping"}

LifeTypes ==
    /\ phase \in Phases /\ handlers \in BOOLEAN
    /\ recon \in [trigger : Triggers, stage : ReconStages,
                  internal : SUBSET AllOrders, open : SUBSET AllOrders]
    /\ order \in [AllOrders -> OrderStates]
    /\ known \in SUBSET AllOrders /\ leftBehind \in SUBSET AllOrders
    /\ running \in SUBSET NewOrders
    /\ cancelled \in {"no", "ok", "failed"}

\* Nothing is placed before the venue is clear.
NothingPlacedYet ==
    phase \in {"new", "starting"}
      => ~handlers /\ \A o \in NewOrders : order[o] = "none"

\* The reconciliation of the start runs in the start, with the executions restored, and has
\* read orders of the time before.
StartupReads ==
    recon.trigger = "startup"
      => /\ phase = "starting" /\ recon.internal = Restored
         /\ \A o \in recon.open : order[o] # "none"

\* cancelAll is the last step but one; what it has to cancel was placed before.
CancelledLast ==
    /\ cancelled # "no" => phase \in {"closing", "exited"}
    /\ \A o \in leftBehind : order[o] # "none"
    /\ cancelled = "ok" => \A o \in leftBehind : order[o] # "open"

LifeIInv == LifeTypes /\ NothingPlacedYet /\ StartupReads /\ CancelledLast /\ OwnOrdersSpared


LEMMA LifeInitial == LifeInit => LifeIInv
  <1> SUFFICES ASSUME LifeInit
               PROVE  LifeIInv
    OBVIOUS
  <1> USE DEF LifeInit
  <1>1. order \in [AllOrders -> OrderStates] /\ \A o \in AllOrders : order[o] # "swept"
    BY DEF OrderStates
  <1>2. recon \in [trigger : Triggers, stage : ReconStages,
                  internal : SUBSET AllOrders, open : SUBSET AllOrders]
    BY DEF NoRecon, Triggers, ReconStages
  <1>3. LifeTypes
    BY <1>1, <1>2 DEF LifeTypes, Phases
  <1>4. NothingPlacedYet /\ StartupReads /\ CancelledLast
    BY DEF NothingPlacedYet, StartupReads, CancelledLast, NoRecon, AllOrders
  <1> QED
    BY <1>1, <1>3, <1>4 DEF LifeIInv, OwnOrdersSpared

\* What the reconciliation of the start may cancel belongs to nobody.
LEMMA ExtrasAreOrphans ==
    ASSUME LifeTypes, NothingPlacedYet, StartupReads
    PROVE  Extras \subseteq Orphans
  BY DEF LifeTypes, NothingPlacedYet, StartupReads, Extras, AllOrders

LEMMA LifeStep == LifeIInv /\ [LifeNext]_lifeVars => LifeIInv'
  <1> SUFFICES ASSUME LifeIInv, [LifeNext]_lifeVars
               PROVE  LifeIInv'
    OBVIOUS
  <1> USE DEF LifeIInv
  <1>1. CASE Start
    BY <1>1 DEF Start, Begin, LifeTypes, NothingPlacedYet, StartupReads, CancelledLast,
                OwnOrdersSpared, Phases, Triggers, ReconStages, AllOrders
  <1>2. CASE Register \/ Connected \/ Reconciled \/ Closed \/ ShutdownTimeout
    <2>1. /\ phase' \in Phases \ {"new", "starting"} /\ handlers' \in BOOLEAN
          /\ phase = "closing" => phase' = "exited"
          /\ phase \in {"starting", "connecting", "reconciling", "cancelling", "closing"}
          /\ UNCHANGED <<recon, order, known, running, leftBehind, cancelled>>
      BY <1>2 DEF Register, Connected, Reconciled, Closed, ShutdownTimeout, Armed, Phases,
                  LifeTypes
    <2>2. recon.trigger # "startup"
      <3>1. CASE Register
        BY <3>1 DEF Register, NoRecon
      <3>2. CASE phase # "starting"
        BY <3>2 DEF StartupReads
      <3> QED
        BY <1>2, <3>1, <3>2 DEF Connected, Reconciled, Closed, ShutdownTimeout, Armed
    <2>3. LifeTypes' /\ NothingPlacedYet' /\ StartupReads'
      BY <2>1, <2>2 DEF LifeTypes, NothingPlacedYet, StartupReads
    <2>4. CancelledLast' /\ OwnOrdersSpared'
      BY <2>1 DEF CancelledLast, OwnOrdersSpared
    <2> QED
      BY <2>3, <2>4
  <1>3. CASE ConnectFails \/ Signal
    <2>1. /\ phase \in {"connecting", "up"} /\ phase' \in {"exited", "reconciling"}
          /\ leftBehind' = Open /\ handlers' = FALSE
          /\ UNCHANGED <<order, known, running, cancelled>>
      BY <1>3 DEF ConnectFails, Signal, stop
    <2>2. recon.trigger # "startup"
      BY <2>1 DEF StartupReads
    <2>3. recon' = recon \/ recon' = [trigger |-> "shutdown", stage |-> "orders",
                                      internal |-> known, open |-> {}]
      BY <1>3 DEF ConnectFails, Signal, Triggered, Begin
    <2>4. LifeTypes'
      <3>1. recon' \in [trigger : Triggers, stage : ReconStages,
                        internal : SUBSET AllOrders, open : SUBSET AllOrders]
        <4>1. CASE recon' = recon
          BY <4>1 DEF LifeTypes
        <4>2. CASE recon' # recon
          BY <2>3, <4>2 DEF LifeTypes, Triggers, ReconStages
        <4> QED
          BY <4>1, <4>2
      <3>2. Open \in SUBSET AllOrders
        BY DEF Open
      <3> QED
        BY <2>1, <3>1, <3>2 DEF LifeTypes, Phases
    <2>5. NothingPlacedYet' /\ StartupReads'
      BY <2>1, <2>2, <2>3 DEF NothingPlacedYet, StartupReads
    <2>6. CancelledLast' /\ OwnOrdersSpared'
      BY <2>1 DEF CancelledLast, OwnOrdersSpared, Open
    <2> QED
      BY <2>4, <2>5, <2>6
  <1>4. CASE IntervalTick \/ AfterIncident
    <2>1. /\ UNCHANGED <<phase, handlers, order, known, running, leftBehind, cancelled>>
          /\ \/ recon' = recon
             \/ \E trigger \in {"interval", "incident"} :
                  recon' = [trigger |-> trigger, stage |-> "orders", internal |-> known,
                            open |-> {}]
      BY <1>4 DEF IntervalTick, AfterIncident, Triggered, Begin
    <2> QED
      BY <2>1 DEF LifeTypes, NothingPlacedYet, StartupReads, CancelledLast, OwnOrdersSpared,
                  Triggers, ReconStages
  <1>5. ASSUME NEW ok \in BOOLEAN, OpenOrders(ok)
        PROVE  LifeIInv'
    BY <1>5 DEF OpenOrders, Open, LifeTypes, NothingPlacedYet, StartupReads, CancelledLast,
                OwnOrdersSpared, Triggers, ReconStages
  <1>6. ASSUME NEW drift \in BOOLEAN, Positions(drift)
        PROVE  LifeIInv'
    BY <1>6 DEF Positions, LifeTypes, NothingPlacedYet, StartupReads, CancelledLast,
                OwnOrdersSpared, Triggers, ReconStages
  <1>7. CASE Analysis
    BY <1>7 DEF Analysis, NoRecon, LifeTypes, NothingPlacedYet, StartupReads, CancelledLast,
                OwnOrdersSpared, Triggers, ReconStages
  <1>8. ASSUME NEW o \in AllOrders, NEW ok \in BOOLEAN, Sweep(o, ok)
        PROVE  LifeIInv'
    <2>1. o \in Orphans
      BY <1>8, ExtrasAreOrphans DEF Sweep
    <2>2. /\ \A p \in AllOrders :
               order'[p] = order[p] \/ (p = o /\ order[p] = "open" /\ order'[p] = "swept")
          /\ order' \in [AllOrders -> OrderStates]
      BY <1>8 DEF Sweep, LifeTypes, OrderStates
    <2>3. recon' = NoRecon \/ recon' = [recon EXCEPT !.open = @ \ {o}]
      BY <1>8 DEF Sweep
    <2>4. UNCHANGED <<phase, handlers, known, running, leftBehind, cancelled>>
      BY <1>8 DEF Sweep
    <2>5. LifeTypes' /\ StartupReads'
      BY <2>2, <2>3, <2>4 DEF LifeTypes, StartupReads, NoRecon, Triggers, ReconStages
    <2>6. NothingPlacedYet'
      BY <2>2, <2>4 DEF NothingPlacedYet, AllOrders
    <2>7. CancelledLast'
      BY <2>2, <2>4 DEF CancelledLast, LifeTypes
    <2>8. OwnOrdersSpared'
      BY <2>1, <2>2 DEF OwnOrdersSpared
    <2> QED
      BY <2>5, <2>6, <2>7, <2>8
  <1>9. ASSUME NEW o \in AllOrders, NEW incident \in BOOLEAN, Ended(o, incident)
        PROVE  LifeIInv'
    BY <1>9 DEF Ended, LifeTypes, NothingPlacedYet, StartupReads, CancelledLast, OwnOrdersSpared
  <1>10. ASSUME NEW ok \in BOOLEAN, OrdersCancelled(ok)
         PROVE  LifeIInv'
    <2>1. /\ phase = "cancelling" /\ phase' = "closing"
          /\ order' = (IF ok THEN CancelAll ELSE order)
          /\ cancelled' = (IF ok THEN "ok" ELSE "failed")
          /\ UNCHANGED <<handlers, recon, known, running, leftBehind>>
      BY <1>10 DEF OrdersCancelled
    <2>2. recon.trigger # "startup"
      BY <2>1 DEF StartupReads
    <2>3. /\ order' \in [AllOrders -> OrderStates]
          /\ \A p \in AllOrders : order'[p] = order[p] \/ (order[p] = "open" /\ order'[p] = "gone")
          /\ ok => \A p \in AllOrders : order'[p] # "open"
      BY <2>1 DEF CancelAll, LifeTypes, OrderStates
    <2>4. LifeTypes' /\ NothingPlacedYet' /\ StartupReads'
      BY <2>1, <2>2, <2>3 DEF LifeTypes, NothingPlacedYet, StartupReads, Phases
    <2>5. CancelledLast' /\ OwnOrdersSpared'
      BY <2>1, <2>3 DEF CancelledLast, OwnOrdersSpared, LifeTypes
    <2> QED
      BY <2>4, <2>5
  <1>11. ASSUME NEW o \in AllOrders, Place(o)
         PROVE  LifeIInv'
    BY <1>11 DEF Place, TradingStarted, LifeTypes, NothingPlacedYet, StartupReads, CancelledLast,
                 OwnOrdersSpared, OrderStates
  <1>12. ASSUME NEW o \in AllOrders, Acknowledged(o)
         PROVE  LifeIInv'
    BY <1>12 DEF Acknowledged, LifeTypes, NothingPlacedYet, StartupReads, CancelledLast,
                 OwnOrdersSpared
  <1>13. ASSUME NEW o \in AllOrders, Decided(o)
         PROVE  LifeIInv'
    <2>1. o \in NewOrders => phase # "starting"
      BY <1>13 DEF Decided, NothingPlacedYet
    <2> QED
      BY <1>13, <2>1 DEF Decided, LifeTypes, NothingPlacedYet, StartupReads, CancelledLast,
                         OwnOrdersSpared, OrderStates
  <1>14. CASE UNCHANGED lifeVars
    BY <1>14 DEF lifeVars, LifeTypes, NothingPlacedYet, StartupReads, CancelledLast,
                 OwnOrdersSpared
  <1> QED
    BY <1>1, <1>2, <1>3, <1>4, <1>5, <1>6, <1>7, <1>8, <1>9, <1>10, <1>11, <1>12, <1>13, <1>14
       DEF LifeNext

LEMMA LifeInvariant == LifeSpec => []LifeIInv
  BY LifeInitial, LifeStep, PTL DEF LifeSpec

\* reconcileWithVenue("startup") cancels no order of an execution, restored or new
\* (cancelExtraOrders).
THEOREM OwnSpared == LifeSpec => []OwnOrdersSpared
  <1>1. LifeIInv => OwnOrdersSpared
    BY DEF LifeIInv
  <1> QED
    BY <1>1, LifeInvariant, PTL

\* An exit after a cancelAll that succeeded leaves none of the orders behind that were open
\* when the supervisor was stopped (executeShutdown).
THEOREM NoneLeftOpen == LifeSpec => []NothingLeftOpen
  <1>1. LifeIInv => NothingLeftOpen
    BY DEF LifeIInv, CancelledLast, NothingLeftOpen
  <1> QED
    BY <1>1, LifeInvariant, PTL

-----------------------------------------------------------------------------
(* The calls to the venue *)

CallTypes ==
    /\ stage \in [Called -> CallStages]
    /\ answer \in [Called -> Told]
    /\ nonce \in [Called -> Nat] /\ nextNonce \in Nat
    /\ inLine \in Seq(Called)

\* Who stands in line has made its request.
LineMade == \A i \in DOMAIN inLine : stage[inLine[i]] # "none"

\* No nonce is used by two calls, and the next one by none.
NoncesOwn ==
    /\ \A c \in Called : stage[c] # "none" => nonce[c] < nextNonce
    /\ \A c, d \in Called :
         stage[c] # "none" /\ stage[d] # "none" /\ nonce[c] = nonce[d] => c = d

Carries(r) == r.call \in Called /\ stage[r.call] # "none" /\ r.nonce = nonce[r.call]

\* What is on its way, or has been taken, carries the nonce of its call.
AllCarry == \A r \in requests \cup placed : Carries(r)

\* The venue takes a nonce once.
NonceTakenOnce == \A p, q \in placed : p.nonce = q.nonce => p = q

CallsIInv ==
    /\ CallTypes /\ LineMade /\ NoncesOwn /\ AllCarry /\ NonceTakenOnce
    /\ AcceptedMeansPlaced


LEMMA CallsInitial == CallsInit => CallsIInv
  BY DEF CallsInit, CallsIInv, CallTypes, LineMade, NoncesOwn, AllCarry, NonceTakenOnce,
         AcceptedMeansPlaced, CallStages, Told

\* Taking the first out of the line leaves the others.
LEMMA LineShrinks ==
    ASSUME NEW S, NEW s \in Seq(S), s # <<>>
    PROVE  /\ Head(s) \in S /\ Head(s) = s[1] /\ 1 \in DOMAIN s
           /\ Tail(s) \in Seq(S)
           /\ \A i \in DOMAIN Tail(s) : i + 1 \in DOMAIN s /\ Tail(s)[i] = s[i + 1]
  OBVIOUS

\* What the venue may take has a nonce that it has not seen.
LEMMA TakingIsFresh ==
    ASSUME NonceTakenOnce, NEW request, ~Seen(request), placed' = placed \cup {request}
    PROVE  NonceTakenOnce'
  BY DEF NonceTakenOnce, Seen

\* An answer, an error or a timeout moves a call that has been made, and accepts it only
\* if told to.
LEMMA HeardKeepsMade ==
    ASSUME CallTypes, NEW c \in Called, stage[c] # "none", NEW verdict, Heard(c, verdict)
    PROVE  /\ stage' \in [Called -> CallStages] /\ answer' \in [Called -> Told]
           /\ \A d \in Called : stage'[d] # "none" <=> stage[d] # "none"
           /\ \A d \in Called : answer'[d] = "accepted" /\ answer[d] # "accepted"
                => d = c /\ verdict \in {"taken", "duplicate"}
  BY DEF Heard, Tell, Retry, duplicateMeans, CallTypes, CallStages, Told

LEMMA CallsStep == CallsIInv /\ [CallsNext]_callVars => CallsIInv'
  <1> SUFFICES ASSUME CallsIInv, [CallsNext]_callVars
               PROVE  CallsIInv'
    OBVIOUS
  <1> USE DEF CallsIInv
  <1>1. ASSUME NEW c \in Called, Call(c)
        PROVE  CallsIInv'
    <2> USE <1>1 DEF Call
    <2>1. /\ stage' = [stage EXCEPT ![c] = "queued"]
          /\ nonce' = [nonce EXCEPT ![c] = nextNonce]
          /\ nextNonce' = nextNonce + 1
      BY DEF allocateNonce
    <2>2. CallTypes'
      BY <2>1 DEF CallTypes, CallStages
    <2>3. LineMade'
      <3>1. \A i \in DOMAIN inLine' :
              inLine'[i] = c \/ (i \in DOMAIN inLine /\ inLine'[i] = inLine[i])
        BY DEF CallTypes
      <3>2. \A i \in DOMAIN inLine : inLine[i] \in Called
        BY DEF CallTypes
      <3> QED
        BY <2>1, <3>1, <3>2 DEF LineMade, CallTypes
    <2>4. NoncesOwn'
      BY <2>1 DEF NoncesOwn, CallTypes
    <2>5. AllCarry'
      BY <2>1 DEF AllCarry, Carries, CallTypes
    <2>6. NonceTakenOnce' /\ AcceptedMeansPlaced'
      BY DEF NonceTakenOnce, AcceptedMeansPlaced
    <2> QED
      BY <2>2, <2>3, <2>4, <2>5, <2>6
  <1>2. CASE acquire
    <2> USE <1>2 DEF acquire
    <2> DEFINE h == Head(inLine)
    <2>1. /\ h \in Called /\ h = inLine[1] /\ 1 \in DOMAIN inLine
          /\ inLine' \in Seq(Called)
          /\ \A i \in DOMAIN inLine' : i + 1 \in DOMAIN inLine /\ inLine'[i] = inLine[i + 1]
      BY LineShrinks DEF CallTypes
    <2>2. stage[h] # "none"
      BY <2>1 DEF LineMade
    <2>3. stage' = [stage EXCEPT ![h] = "sent"] /\ requests' = requests \cup {Request(h, 0)}
      OBVIOUS
    <2> HIDE DEF h
    <2>4. CallTypes'
      BY <2>1, <2>3 DEF CallTypes, CallStages
    <2>5. \A d \in Called : stage'[d] # "none" <=> stage[d] # "none"
      BY <2>1, <2>2, <2>3 DEF CallTypes
    <2>6. LineMade'
      BY <2>1, <2>5 DEF LineMade, CallTypes
    <2>7. NoncesOwn'
      BY <2>5 DEF NoncesOwn
    <2>8. AllCarry'
      BY <2>1, <2>2, <2>3, <2>5 DEF AllCarry, Carries, Request
    <2>9. NonceTakenOnce' /\ AcceptedMeansPlaced'
      BY DEF NonceTakenOnce, AcceptedMeansPlaced
    <2> QED
      BY <2>4, <2>6, <2>7, <2>8, <2>9
  <1>3. ASSUME NEW c \in Called, SendAgain(c)
        PROVE  CallsIInv'
    <2> USE <1>3 DEF SendAgain
    <2>1. CallTypes'
      BY DEF CallTypes, CallStages
    <2>2. \A d \in Called : stage'[d] # "none" <=> stage[d] # "none"
      BY DEF CallTypes
    <2>3. LineMade'
      BY <2>2 DEF LineMade, CallTypes
    <2>4. NoncesOwn'
      BY <2>2 DEF NoncesOwn
    <2>5. AllCarry'
      BY <2>2 DEF AllCarry, Carries, Request
    <2>6. NonceTakenOnce' /\ AcceptedMeansPlaced'
      BY DEF NonceTakenOnce, AcceptedMeansPlaced
    <2> QED
      BY <2>1, <2>3, <2>4, <2>5, <2>6
  <1>4. ASSUME NEW c \in Called, TimesOut(c)
        PROVE  CallsIInv'
    <2> USE <1>4 DEF TimesOut
    <2>1. stage[c] # "none" /\ Heard(c, "timeout")
      BY DEF Heard
    <2>2. /\ stage' \in [Called -> CallStages] /\ answer' \in [Called -> Told]
          /\ \A d \in Called : stage'[d] # "none" <=> stage[d] # "none"
          /\ \A d \in Called : answer'[d] = "accepted" => answer[d] = "accepted"
      BY <2>1, HeardKeepsMade
    <2>3. CallTypes' /\ LineMade'
      BY <2>2 DEF CallTypes, LineMade
    <2>4. NoncesOwn' /\ AllCarry'
      BY <2>2 DEF NoncesOwn, AllCarry, Carries
    <2>5. NonceTakenOnce' /\ AcceptedMeansPlaced'
      BY <2>2 DEF NonceTakenOnce, AcceptedMeansPlaced
    <2> QED
      BY <2>3, <2>4, <2>5
  <1>5. ASSUME NEW request \in requests, NEW verdict, Reads(request, verdict)
        PROVE  CallsIInv'
    <2> USE <1>5 DEF Reads
    <2> DEFINE c == request.call
    <2>1. c \in Called /\ stage[c] # "none" /\ request.nonce = nonce[c]
      BY DEF AllCarry, Carries
    <2>2. /\ stage' \in [Called -> CallStages] /\ answer' \in [Called -> Told]
          /\ \A d \in Called : stage'[d] # "none" <=> stage[d] # "none"
          /\ \A d \in Called : answer'[d] = "accepted" /\ answer[d] # "accepted"
               => d = c /\ verdict \in {"taken", "duplicate"}
      <3>1. CASE Awaited(request)
        BY <2>1, <3>1, HeardKeepsMade
      <3>2. CASE ~Awaited(request)
        BY <3>2 DEF CallTypes
      <3> QED
        BY <3>1, <3>2
    <2>3. CallTypes' /\ LineMade'
      BY <2>2 DEF CallTypes, LineMade
    <2>4. requests' \cup placed' \subseteq requests \cup placed
      OBVIOUS
    <2>5. NoncesOwn' /\ AllCarry'
      BY <2>2, <2>4 DEF NoncesOwn, AllCarry, Carries
    <2>6. NonceTakenOnce'
      <3>1. CASE verdict \in {"taken", "garbled"}
        <4>1. ~Seen(request)
          BY <3>1 DEF MayAnswer
        <4> QED
          BY <3>1, <4>1, TakingIsFresh
      <3>2. CASE verdict \notin {"taken", "garbled"}
        BY <3>2 DEF NonceTakenOnce
      <3> QED
        BY <3>1, <3>2
    <2>7. AcceptedMeansPlaced'
      <3>1. placed \subseteq placed'
        OBVIOUS
      <3>2. verdict \in {"taken", "duplicate"} => \E placedOrder \in placed' : placedOrder.call = c
        <4>1. CASE verdict = "taken"
          BY <4>1
        <4>2. CASE verdict = "duplicate"
          <5>1. PICK placedOrder \in placed : placedOrder.nonce = request.nonce
            BY <4>2 DEF MayAnswer, Seen
          <5>2. /\ placedOrder.call \in Called /\ stage[placedOrder.call] # "none"
                /\ placedOrder.nonce = nonce[placedOrder.call]
            BY DEF AllCarry, Carries
          <5>3. placedOrder.call = c
            BY <2>1, <5>1, <5>2 DEF NoncesOwn
          <5> QED
            BY <3>1, <5>3
        <4> QED
          BY <4>1, <4>2
      <3> QED
        BY <2>2, <3>1, <3>2 DEF AcceptedMeansPlaced
    <2> QED
      BY <2>3, <2>5, <2>6, <2>7
  <1>6. ASSUME NEW request \in requests, AnswerLost(request)
        PROVE  CallsIInv'
    <2> USE <1>6 DEF AnswerLost
    <2>1. CallTypes' /\ LineMade' /\ NoncesOwn' /\ AllCarry'
      BY DEF CallTypes, LineMade, NoncesOwn, AllCarry, Carries
    <2>2. NonceTakenOnce'
      BY TakingIsFresh
    <2>3. AcceptedMeansPlaced'
      BY DEF AcceptedMeansPlaced
    <2> QED
      BY <2>1, <2>2, <2>3
  <1>7. CASE CallTick
    BY <1>7 DEF CallTick, CallTypes, LineMade, NoncesOwn, AllCarry, Carries, NonceTakenOnce,
                AcceptedMeansPlaced
  <1>8. CASE UNCHANGED callVars
    BY <1>8 DEF callVars, CallTypes, LineMade, NoncesOwn, AllCarry, Carries, NonceTakenOnce,
                AcceptedMeansPlaced
  <1> QED
    BY <1>1, <1>2, <1>3, <1>4, <1>5, <1>6, <1>7, <1>8 DEF CallsNext

LEMMA CallsInvariant == CallsSpec => []CallsIInv
  BY CallsInitial, CallsStep, PTL DEF CallsSpec

\* However requests, answers, timeouts and repetitions interleave, a call places one order
\* (RetryPolicy.execute sends the body it was given, with the nonce of the first attempt).
THEOREM OrderedOnce == CallsSpec => []OneOrderPerCall
  <1>1. CallsIInv => OneOrderPerCall
    BY DEF CallsIInv, AllCarry, Carries, NonceTakenOnce, OneOrderPerCall
  <1> QED
    BY <1>1, CallsInvariant, PTL

\* What createOrder and createBatchOrders report as accepted is at the venue, the answer
\* "duplicate" included (isDuplicateOrderError).
THEOREM AcceptedIsPlaced == CallsSpec => []AcceptedMeansPlaced
  <1>1. CallsIInv => AcceptedMeansPlaced
    BY DEF CallsIInv
  <1> QED
    BY <1>1, CallsInvariant, PTL

-----------------------------------------------------------------------------
(* The trading state and the catalog *)

MarketStates == {"good", "thin", "ended"}
Entries == [id : Listed, state : MarketStates]
OverrideStates == Modes \cup {"none"}
TestRecords == [stage : {"none", "deciding", "executing"}, override : OverrideStates,
                previousMode : OverrideStates]

OperationTypes ==
    /\ manager \in [enabled : BOOLEAN, mode : Modes]
    /\ trading \in [enabled : BOOLEAN, mode : Modes]
    /\ ready \in BOOLEAN /\ crossed \in BOOLEAN
    /\ tests \in [Tests -> TestRecords]
    /\ \A t \in Tests : tests[t].stage = "executing" => tests[t].previousMode \in Modes
    /\ listing \in Seq(Entries)
    /\ refresh.pass \in Passes /\ refresh.offset \in Nat /\ refresh.page \in Nat

\* What a refresh has found is no more than the catalog holds, the exploration adds to what
\* the core pass found, and whatever is installed is installed everywhere.
CatalogBounded ==
    /\ IsFiniteSet(refresh.found) /\ Cardinality(refresh.found) <= MaxPairs
    /\ refresh.core \subseteq refresh.found
    /\ refresh.pass = "core" => refresh.core = {}
    /\ IsFiniteSet(currentPairs) /\ Cardinality(currentPairs) <= MaxPairs
    /\ \A copy \in {marketPairs, subscribed, signalled, tokenMap, related} : copy = currentPairs

\* Until something crosses it, only one test overrides the mode, and what it will put back
\* is what the operator has decided on.
OneOverrides ==
    ~crossed => \A t \in Overriding : /\ tests[t].previousMode = manager.mode
                                      /\ \A u \in Overriding : u = t

OperationsInv == OperationTypes /\ TradingAsDecided /\ OneOverrides /\ CatalogBounded

Overrides(test) == test.stage = "executing" /\ test.override \notin {"none", test.previousMode}

\* What a step of one test makes of the tests that override the mode.
LEMMA OverridingAfter ==
    ASSUME tests \in [Tests -> TestRecords], NEW t \in Tests, NEW test,
           tests' = [tests EXCEPT ![t] = test]
    PROVE  /\ Overriding' = IF Overrides(test) THEN Overriding \cup {t} ELSE Overriding \ {t}
           /\ tests'[t] = test /\ \A u \in Tests \ {t} : tests'[u] = tests[u]
  <1>1. tests'[t] = test /\ \A u \in Tests \ {t} : tests'[u] = tests[u]
    OBVIOUS
  <1>2. Overriding = {u \in Tests : Overrides(tests[u])}
    BY DEF Overriding, Overrides
  <1>3. Overriding' = {u \in Tests : Overrides(tests'[u])}
    BY DEF Overriding, Overrides
  <1> HIDE DEF Overrides
  <1>4. CASE Overrides(test)
    BY <1>1, <1>2, <1>3, <1>4
  <1>5. CASE ~Overrides(test)
    BY <1>1, <1>2, <1>3, <1>5
  <1> QED
    BY <1>1, <1>4, <1>5

\* Steps that are of no test change nothing about which of them override the mode.
LEMMA OverridingStays ==
    ASSUME UNCHANGED tests
    PROVE  Overriding' = Overriding
  BY DEF Overriding

\* A page is a part of the listing.
LEMMA PageOfListing ==
    ASSUME OperationTypes
    PROVE  Page \in Seq(Entries)
  <1> DEFINE n == Len(listing)
             ordered == IF refresh.pass = "core" THEN listing
                        ELSE [i \in 1 .. n |-> listing[n + 1 - i]]
             last == Smaller(n, refresh.offset + PageSize)
  <1>1. n \in Nat /\ \A i \in 1 .. n : listing[i] \in Entries
    BY DEF OperationTypes
  <1>2. \A i \in 1 .. n : ordered[i] \in Entries
    <2> HIDE DEF n
    <2>1. CASE refresh.pass = "core"
      BY <1>1, <2>1
    <2>2. CASE refresh.pass # "core"
      <3>1. \A i \in 1 .. n : n + 1 - i \in 1 .. n
        BY <1>1
      <3> QED
        BY <1>1, <2>2, <3>1
    <2> QED
      BY <2>1, <2>2
  <1> HIDE DEF n
  <1>3. refresh.offset + 1 \in Int /\ last \in Int /\ last <= n /\ refresh.offset + 1 >= 1
    BY <1>1, OperationsAssumption DEF OperationTypes, Smaller
  <1>4. \A i \in refresh.offset + 1 .. last : ordered[i] \in Entries
    BY <1>1, <1>2, <1>3
  <1>5. Page = SubSeq(ordered, refresh.offset + 1, last)
    BY DEF Page, n
  <1> HIDE DEF ordered, last
  <1> QED
    BY <1>3, <1>4, <1>5, SubSeqProperties

\* What is accepted of a page is listed, new, and no more than the pass may add.
LEMMA AcceptedBounded ==
    ASSUME NEW page \in Seq(Entries), NEW target \in Int
    PROVE  /\ Accepted(page, target) \subseteq Listed
           /\ IsFiniteSet(Accepted(page, target))
           /\ Accepted(page, target) \cap refresh.found = {}
           /\ Cardinality(Accepted(page, target)) <= IF target > 0 THEN target ELSE 0
  <1> DEFINE Fits(i) == /\ page[i].state # "ended"
                        /\ page[i].id \notin refresh.found
                        /\ page[i].id \in currentPairs \/ page[i].state = "good"
             Ids(I) == {page[i].id : i \in I}
             Earlier(i) == {h \in 1 .. i - 1 : Fits(h)}
             K == {k \in DOMAIN page : Fits(k) /\ Cardinality(Ids(Earlier(k))) < target}
  <1>1. Accepted(page, target) = Ids(K)
    BY DEF Accepted
  <1>2. DOMAIN page = 1 .. Len(page) /\ Len(page) \in Nat
    OBVIOUS
  <1>3. \A i \in DOMAIN page : page[i].id \in Listed
    <2>1. \A i \in DOMAIN page : page[i] \in Entries
      BY <1>2, ElementOfSeq
    <2> QED
      BY <2>1 DEF Entries
  <1>4. ASSUME NEW n \in Nat, NEW I \in SUBSET (1 .. n)
        PROVE  IsFiniteSet(Ids(I)) /\ Cardinality(Ids(I)) \in Nat
    <2> DEFINE f == [i \in I |-> page[i].id]
    <2>1. IsFiniteSet(I)
      <3>1. IsFiniteSet(1 .. n)
        BY FS_Interval
      <3> QED
        BY <3>1, FS_Subset
    <2>2. IsFiniteSet({f[i] : i \in I})
      BY <2>1, FiniteImage
    <2>3. {f[i] : i \in I} = Ids(I)
      OBVIOUS
    <2> QED
      BY <2>2, <2>3, FS_CardinalityType
  <1>5. K \in SUBSET (1 .. Len(page)) /\ K \in SUBSET Nat
    BY <1>2
  <1>6. IsFiniteSet(Ids(K)) /\ Cardinality(Ids(K)) \in Nat
    <2> HIDE DEF K, Ids
    <2> QED
      BY <1>2, <1>4, <1>5
  <1>7. Ids(K) \subseteq Listed /\ Ids(K) \cap refresh.found = {}
    BY <1>3
  <1>8. Cardinality(Ids(K)) <= IF target > 0 THEN target ELSE 0
    <2>1. CASE K = {}
      <3>1. Ids(K) = {}
        BY <2>1
      <3> HIDE DEF K, Ids
      <3> QED
        BY <3>1, FS_EmptySet
    <2>2. CASE K # {}
      <3>1. PICK k \in K : \A i \in K : i <= k
        <4>1. \A i \in K : i <= Len(page)
          BY <1>5
        <4> HIDE DEF K
        <4> QED
          BY <1>2, <1>5, <2>2, <4>1, GreatestNumber
      <3>2. k \in Nat \ {0} /\ Cardinality(Ids(Earlier(k))) < target
        <4>1. k \in 1 .. Len(page)
          BY <1>2
        <4> HIDE DEF Earlier, Ids, Fits
        <4> QED
          BY <1>2, <4>1
      <3>3. Earlier(k) \in SUBSET (1 .. k - 1) /\ k - 1 \in Nat
        BY <3>2
      <3>4. Ids(K) \subseteq Ids(Earlier(k)) \cup {page[k].id}
        <4>1. K \subseteq Earlier(k) \cup {k}
          BY <1>2, <3>1
        <4> HIDE DEF K, Earlier
        <4> QED
          BY <4>1
      <3> HIDE DEF K, Earlier, Ids
      <3>5. IsFiniteSet(Ids(Earlier(k))) /\ Cardinality(Ids(Earlier(k))) \in Nat
        BY <1>4, <3>3
      <3>6. /\ IsFiniteSet(Ids(Earlier(k)) \cup {page[k].id})
            /\ \/ Cardinality(Ids(Earlier(k)) \cup {page[k].id}) = Cardinality(Ids(Earlier(k)))
               \/ Cardinality(Ids(Earlier(k)) \cup {page[k].id}) = Cardinality(Ids(Earlier(k))) + 1
        BY <3>5, FS_AddElement
      <3>7. Cardinality(Ids(K)) <= Cardinality(Ids(Earlier(k)) \cup {page[k].id})
        BY <3>4, <3>6, FS_Subset
      <3> QED
        BY <1>6, <3>2, <3>5, <3>6, <3>7
    <2> QED
      BY <2>1, <2>2
  <1> HIDE DEF K, Ids
  <1> QED
    BY <1>1, <1>6, <1>7, <1>8

\* No pass may add more than the catalog still takes.
LEMMA TargetBounded ==
    ASSUME CatalogBounded, NEW pass
    PROVE  /\ Cardinality(refresh.found) \in Nat
           /\ Target(pass) \in Int /\ Target(pass) <= MaxPairs - Cardinality(refresh.found)
  <1>1. /\ IsFiniteSet(refresh.found) /\ Cardinality(refresh.found) \in Nat
        /\ refresh.core \in SUBSET refresh.found
    BY FS_CardinalityType DEF CatalogBounded
  <1>2. /\ IsFiniteSet(refresh.core) /\ Cardinality(refresh.core) \in Nat
        /\ IsFiniteSet(refresh.found \cap refresh.core)
    BY <1>1, FS_Subset, FS_CardinalityType
  <1>3. refresh.found \cap refresh.core = refresh.core
    BY <1>1
  <1>4. Cardinality(refresh.found \ refresh.core)
          = Cardinality(refresh.found) - Cardinality(refresh.core)
    BY <1>1, <1>3, FS_Difference
  <1> DEFINE a == Cardinality(refresh.found)
             b == Cardinality(refresh.core)
             c == Cardinality(refresh.found \ refresh.core)
  <1>5. a \in Nat /\ b \in Nat /\ c = a - b /\ MaxPairs \in Nat /\ ExplorationMax \in Nat
    BY <1>1, <1>2, <1>4, OperationsAssumption
  <1>6. Target(pass) = IF pass = "core" THEN MaxPairs - a
                       ELSE Smaller(MaxPairs - b, ExplorationMax) - c
    BY DEF Target
  <1>7. a \in Nat
    BY <1>5
  <1> HIDE DEF a, b, c
  <1>8. Smaller(MaxPairs - b, ExplorationMax) \in Int
        /\ Smaller(MaxPairs - b, ExplorationMax) <= MaxPairs - b
    BY <1>5 DEF Smaller
  <1>9. Target(pass) \in Int /\ Target(pass) <= MaxPairs - a
    BY <1>5, <1>6, <1>8
  <1> QED
    BY <1>7, <1>9 DEF a

\* What a refresh has found after a page still fits into the catalog.
LEMMA FoundBounded ==
    ASSUME OperationTypes, CatalogBounded, NEW found,
           found = refresh.found \cup Accepted(Page, Target(refresh.pass))
    PROVE  IsFiniteSet(found) /\ Cardinality(found) <= MaxPairs
  <1> DEFINE accepted == Accepted(Page, Target(refresh.pass))
  <1>1. /\ Cardinality(refresh.found) \in Nat /\ Target(refresh.pass) \in Int
        /\ Target(refresh.pass) <= MaxPairs - Cardinality(refresh.found)
    BY TargetBounded
  <1>2. /\ IsFiniteSet(accepted) /\ accepted \cap refresh.found = {}
        /\ Cardinality(accepted) <= IF Target(refresh.pass) > 0 THEN Target(refresh.pass) ELSE 0
    BY <1>1, PageOfListing, AcceptedBounded
  <1> HIDE DEF accepted
  <1>3. /\ IsFiniteSet(refresh.found \cup accepted) /\ Cardinality(accepted) \in Nat
        /\ Cardinality(refresh.found \cup accepted)
             = Cardinality(refresh.found) + Cardinality(accepted)
                 - Cardinality(refresh.found \cap accepted)
        /\ refresh.found \cap accepted = {} /\ Cardinality({}) = 0
        /\ Cardinality(refresh.found) <= MaxPairs
    BY <1>2, FS_Union, FS_CardinalityType, FS_EmptySet DEF CatalogBounded
  <1> DEFINE a == Cardinality(refresh.found)
             b == Cardinality(accepted)
             c == Cardinality(refresh.found \cup accepted)
             t == Target(refresh.pass)
  <1>4. /\ a \in Nat /\ b \in Nat /\ c = a + b /\ t \in Int /\ t <= MaxPairs - a
        /\ b <= (IF t > 0 THEN t ELSE 0) /\ a <= MaxPairs /\ MaxPairs \in Nat
    <2>1. Cardinality(refresh.found \cap accepted) = 0
      BY <1>3
    <2>2. a \in Nat /\ b \in Nat /\ c = a + b
      <3> DEFINE d == Cardinality(refresh.found \cap accepted)
      <3>1. a \in Nat /\ b \in Nat /\ c = a + b - d /\ d = 0
        BY <1>1, <1>3, <2>1
      <3> HIDE DEF a, b, c, d
      <3> QED
        BY <3>1
    <2> QED
      BY <1>1, <1>2, <1>3, <2>2, OperationsAssumption
  <1> HIDE DEF a, b, c, t
  <1>5. c <= MaxPairs
    <2>1. CASE t > 0
      BY <1>4, <2>1
    <2>2. CASE ~(t > 0)
      BY <1>4, <2>2
    <2> QED
      BY <2>1, <2>2
  <1>6. Cardinality(refresh.found \cup accepted) <= MaxPairs
    BY <1>5 DEF c
  <1> QED
    BY <1>3, <1>6 DEF accepted

\* The commands of the operator and the synthetic tests keep what the switch and the mode owe to
\* the decision.
LEMMA CommandsKeep ==
    ASSUME OperationsInv,
           \/ \E m \in Modes : setMode(m)
           \/ \E e \in BOOLEAN : setEnabled(e)
           \/ \E t \in Tests : \/ \E o \in Modes \cup {"none"} : StartTest(t, o)
                               \/ ExecuteTest(t) \/ FinishTest(t) \/ RejectTest(t)
    PROVE  OperationsInv'
  <1>1. UNCHANGED <<ready, listing, refresh, currentPairs, copies>>
    BY DEF setMode, setEnabled, StartTest, ExecuteTest, FinishTest, RejectTest
  <1>2. CatalogBounded'
    BY <1>1 DEF OperationsInv, CatalogBounded, copies
  <1>3. ASSUME NEW m \in Modes, setMode(m)
        PROVE  OperationsInv'
    <2>1. /\ manager' = [manager EXCEPT !.mode = m] /\ trading' = [trading EXCEPT !.mode = m]
          /\ crossed' = (Overriding # {}) /\ UNCHANGED tests
      BY <1>3 DEF setMode, updateTradingMode
    <2>2. Overriding' = Overriding
      BY <2>1, OverridingStays
    <2>3. OperationTypes'
      BY <1>1, <2>1 DEF OperationsInv, OperationTypes
    <2>4. TradingAsDecided'
      BY <1>1, <2>1, <2>2 DEF OperationsInv, OperationTypes, TradingAsDecided, Effective
    <2>5. OneOverrides'
      BY <2>1, <2>2 DEF OneOverrides
    <2> QED
      BY <1>2, <2>3, <2>4, <2>5 DEF OperationsInv
  <1>4. ASSUME NEW e \in BOOLEAN, setEnabled(e)
        PROVE  OperationsInv'
    <2>1. /\ manager' = [manager EXCEPT !.enabled = e]
          /\ trading' = [trading EXCEPT !.enabled = Effective(e, ready)]
          /\ UNCHANGED <<tests, crossed>>
      BY <1>4 DEF setEnabled
    <2>2. Overriding' = Overriding
      BY <2>1, OverridingStays
    <2>3. OperationTypes'
      BY <1>1, <2>1 DEF OperationsInv, OperationTypes, Effective
    <2>4. TradingAsDecided'
      BY <1>1, <2>1, <2>2 DEF OperationsInv, OperationTypes, TradingAsDecided, Effective
    <2>5. OneOverrides'
      BY <2>1, <2>2 DEF OperationsInv, OperationTypes, OneOverrides
    <2> QED
      BY <1>2, <2>3, <2>4, <2>5 DEF OperationsInv
  <1>5. ASSUME NEW t \in Tests, NEW test \in TestRecords,
               test.stage = "executing" => test.previousMode \in Modes,
               tests' = [tests EXCEPT ![t] = test], UNCHANGED manager,
               NEW mode \in Modes, updateTradingMode(mode), crossed' \in BOOLEAN,
               ~crossed' => /\ \A u \in Overriding' : mode = tests'[u].override
                            /\ Overriding' = {} => mode = manager.mode,
               OneOverrides'
        PROVE  OperationsInv'
    <2>1. /\ tests' \in [Tests -> TestRecords]
          /\ \A u \in Tests : tests'[u].stage = "executing" => tests'[u].previousMode \in Modes
      BY <1>5 DEF OperationsInv, OperationTypes
    <2>2. /\ trading' \in [enabled : BOOLEAN, mode : Modes]
          /\ trading'.enabled = trading.enabled /\ trading'.mode = mode
      BY <1>5 DEF OperationsInv, OperationTypes, updateTradingMode
    <2>3. OperationTypes'
      BY <1>1, <1>5, <2>1, <2>2 DEF OperationsInv, OperationTypes
    <2>4. TradingAsDecided'
      BY <1>1, <1>5, <2>2 DEF OperationsInv, TradingAsDecided, Effective
    <2> QED
      BY <1>2, <1>5, <2>3, <2>4 DEF OperationsInv
  <1>6. /\ tests \in [Tests -> TestRecords] /\ trading \in [enabled : BOOLEAN, mode : Modes]
        /\ \A t \in Tests : tests[t].stage = "executing" => tests[t].previousMode \in Modes
        /\ manager \in [enabled : BOOLEAN, mode : Modes] /\ crossed \in BOOLEAN
    BY DEF OperationsInv, OperationTypes
  <1>7. trading = [trading EXCEPT !.mode = trading.mode] /\ trading.mode \in Modes
    BY <1>6
  <1>8. NoTest \in TestRecords /\ NoTest.stage = "none"
    BY DEF NoTest, TestRecords, OverrideStates
  <1>9. ~crossed => /\ \A u \in Overriding : trading.mode = tests[u].override
                    /\ Overriding = {} => trading.mode = manager.mode
                    /\ \A u \in Overriding : /\ tests[u].previousMode = manager.mode
                                             /\ \A v \in Overriding : v = u
    BY DEF OperationsInv, TradingAsDecided, OneOverrides
  <1>10. Overriding = {u \in Tests : Overrides(tests[u])}
    BY DEF Overriding, Overrides
  \* A test that neither did nor does override the mode, and leaves it.
  <1>11. ASSUME NEW t \in Tests, NEW test \in TestRecords,
                test.stage = "executing" => test.previousMode \in Modes,
                tests' = [tests EXCEPT ![t] = test], UNCHANGED manager,
                ~Overrides(tests[t]), ~Overrides(test), updateTradingMode(trading.mode),
                crossed' \in BOOLEAN, ~crossed' => ~crossed
         PROVE  OperationsInv'
    <2>1. /\ Overriding' = Overriding \ {t} /\ t \notin Overriding
          /\ tests'[t] = test /\ \A u \in Tests \ {t} : tests'[u] = tests[u]
      BY <1>6, <1>10, <1>11, OverridingAfter
    <2>2. Overriding' = Overriding /\ \A u \in Overriding : tests'[u] = tests[u]
      BY <1>10, <2>1
    <2>3. OneOverrides'
      BY <1>9, <1>11, <2>2 DEF OneOverrides
    <2>4. ~crossed' => /\ \A u \in Overriding' : trading.mode = tests'[u].override
                       /\ Overriding' = {} => trading.mode = manager.mode
      BY <1>9, <1>11, <2>2
    <2> QED
      BY <1>5, <1>7, <1>11, <2>3, <2>4
  <1>12. ASSUME NEW t \in Tests, NEW o \in Modes \cup {"none"}, StartTest(t, o)
         PROVE  OperationsInv'
    <2> DEFINE started == [NoTest EXCEPT !.stage = "deciding", !.override = o]
    <2>1. started \in TestRecords /\ started.stage = "deciding"
      BY <1>8 DEF TestRecords, OverrideStates
    <2>2. /\ tests' = [tests EXCEPT ![t] = started] /\ tests[t].stage = "none"
          /\ UNCHANGED <<manager, trading, crossed>>
      BY <1>8, <1>12 DEF StartTest
    <2>3. ~Overrides(tests[t]) /\ ~Overrides(started) /\ updateTradingMode(trading.mode)
      BY <1>7, <2>1, <2>2 DEF Overrides, updateTradingMode
    <2>4. started.stage # "executing"
      BY <2>1
    <2> HIDE DEF started
    <2> QED
      BY <1>6, <1>11, <2>1, <2>2, <2>3, <2>4
  <1>13. ASSUME NEW t \in Tests, ExecuteTest(t)
         PROVE  OperationsInv'
    <2>1. tests[t].stage = "deciding" /\ ~Overrides(tests[t])
      BY <1>13 DEF ExecuteTest, Overrides
    <2>2. CASE tests[t].override = "none" /\ trading.mode = "live"
      <3>1. /\ tests' = [tests EXCEPT ![t] = NoTest] /\ UNCHANGED <<manager, trading, crossed>>
        BY <1>13, <2>2 DEF ExecuteTest
      <3>2. ~Overrides(NoTest) /\ updateTradingMode(trading.mode)
        BY <1>7, <1>8, <3>1 DEF Overrides, updateTradingMode
      <3> QED
        BY <1>6, <1>8, <1>11, <2>1, <3>1, <3>2
    <2>3. CASE ~(tests[t].override = "none" /\ trading.mode = "live")
      <3> DEFINE test == [tests[t] EXCEPT !.stage = "executing", !.previousMode = trading.mode]
                 mode == IF tests[t].override = "none" THEN trading.mode ELSE tests[t].override
      <3>1. /\ tests' = [tests EXCEPT ![t].stage = "executing", ![t].previousMode = trading.mode]
            /\ updateTradingMode(mode) /\ UNCHANGED manager
            /\ crossed' = (crossed \/ (Overriding # {} /\ Overriding' # Overriding))
        BY <1>13, <2>3 DEF ExecuteTest
      <3>2. tests[t] \in TestRecords /\ trading.mode \in Modes
        BY <1>6
      <3>3. tests' = [tests EXCEPT ![t] = test]
        BY <1>6, <3>1
      <3>4. /\ test \in TestRecords /\ test.previousMode = trading.mode
            /\ test.stage = "executing" /\ test.override = tests[t].override
        BY <3>2 DEF TestRecords, OverrideStates
      <3>5. mode \in Modes
        BY <3>2 DEF TestRecords, OverrideStates
      <3>6. crossed' \in BOOLEAN /\ (~crossed' => ~crossed)
        BY <1>6, <3>1
      <3>7. CASE Overrides(test)
        <4>1. mode = test.override
          BY <3>4, <3>7 DEF Overrides
        <4> HIDE DEF test, mode
        <4>2. Overriding' = Overriding \cup {t} /\ tests'[t] = test
          BY <1>6, <3>3, <3>7, OverridingAfter
        <4>3. t \notin Overriding
          BY <1>10, <2>1
        <4>4. ~crossed' => Overriding = {}
          BY <3>1, <4>2, <4>3
        <4>5. ~crossed' => \A u \in Overriding' : u = t
          BY <4>2, <4>4
        <4>6. OneOverrides'
          BY <1>9, <3>1, <3>4, <3>6, <4>2, <4>4, <4>5 DEF OneOverrides
        <4>7. ~crossed' => /\ \A u \in Overriding' : mode = tests'[u].override
                           /\ Overriding' = {} => mode = manager.mode
          BY <4>1, <4>2, <4>5
        <4> QED
          BY <1>5, <1>7, <3>1, <3>3, <3>4, <3>5, <3>6, <4>6, <4>7
      <3>8. CASE ~Overrides(test)
        <4>1. mode = trading.mode
          BY <3>4, <3>8 DEF Overrides
        <4> HIDE DEF test, mode
        <4> QED
          BY <1>7, <1>11, <2>1, <3>1, <3>3, <3>4, <3>6, <3>8, <4>1
      <3> QED
        BY <3>7, <3>8
    <2> QED
      BY <2>2, <2>3
  <1>14. ASSUME NEW t \in Tests, FinishTest(t)
         PROVE  OperationsInv'
    <2> DEFINE mode == IF tests[t].override \notin {"none", tests[t].previousMode}
                       THEN tests[t].previousMode ELSE trading.mode
    <2>1. /\ tests[t].stage = "executing" /\ tests' = [tests EXCEPT ![t] = NoTest]
          /\ updateTradingMode(mode) /\ UNCHANGED <<manager, crossed>>
      BY <1>14 DEF FinishTest
    <2>2. mode \in Modes /\ ~Overrides(NoTest)
      BY <1>6, <1>8, <2>1 DEF Overrides
    <2>3. CASE Overrides(tests[t])
      <3>1. mode = tests[t].previousMode
        BY <2>3 DEF Overrides
      <3> HIDE DEF mode
      <3>2. Overriding' = Overriding \ {t}
        BY <1>6, <2>1, <2>2, OverridingAfter
      <3>3. t \in Overriding
        BY <1>10, <2>3
      <3>4. ~crossed => Overriding' = {} /\ mode = manager.mode
        BY <1>9, <3>1, <3>2, <3>3
      <3>5. OneOverrides'
        BY <2>1, <3>4 DEF OneOverrides
      <3> QED
        BY <1>5, <1>6, <1>8, <2>1, <2>2, <3>4, <3>5
    <2>4. CASE ~Overrides(tests[t])
      <3>1. mode = trading.mode
        BY <2>1, <2>4 DEF Overrides
      <3> HIDE DEF mode
      <3> QED
        BY <1>6, <1>8, <1>11, <2>1, <2>2, <2>4, <3>1
    <2> QED
      BY <2>3, <2>4
  <1>15. ASSUME NEW t \in Tests, RejectTest(t)
         PROVE  OperationsInv'
    <2>1. /\ tests[t].stage = "deciding" /\ tests' = [tests EXCEPT ![t] = NoTest]
          /\ UNCHANGED <<manager, trading, crossed>>
      BY <1>15 DEF RejectTest
    <2>2. ~Overrides(tests[t]) /\ ~Overrides(NoTest) /\ updateTradingMode(trading.mode)
      BY <1>7, <1>8, <2>1 DEF Overrides, updateTradingMode
    <2> QED
      BY <1>6, <1>8, <1>11, <2>1, <2>2
  <1> QED
    BY <1>3, <1>4, <1>12, <1>13, <1>14, <1>15

\* A catalog that fits is installed everywhere, and lets trading begin if it is wanted.
LEMMA CompleteKeeps ==
    ASSUME OperationsInv, NEW found, NEW ended, Complete(found, ended),
           IsFiniteSet(found), Cardinality(found) <= MaxPairs,
           UNCHANGED <<manager, tests, crossed, listing>>
    PROVE  OperationsInv'
  <1>1. refresh' = Idle
    BY DEF Complete
  <1> USE OverridingStays
  <1>2. CASE found = {} /\ currentPairs # {} /\ ended = 0
    BY <1>1, <1>2, FS_EmptySet, OperationsAssumption
       DEF Complete, OperationsInv, OperationTypes, TradingAsDecided, OneOverrides, Effective,
           CatalogBounded, Idle, Passes, copies
  <1>3. CASE ~(found = {} /\ currentPairs # {} /\ ended = 0)
    <2>1. currentPairs' = found /\ Refreshed(found)
      BY <1>3 DEF Complete
    <2>2. marketPairs' = found /\ subscribed' = found /\ signalled' = found
      BY <2>1 DEF Refreshed, updateMarketPairs, OperationsInv, CatalogBounded
    <2>3. CatalogBounded'
      BY <1>1, <2>1, <2>2, FS_EmptySet, OperationsAssumption DEF Refreshed, CatalogBounded, Idle
    <2>4. OperationTypes' /\ TradingAsDecided' /\ OneOverrides'
      BY <1>1, <2>1 DEF Refreshed, OperationsInv, OperationTypes, TradingAsDecided, OneOverrides,
         Effective, Idle, Passes
    <2> QED
      BY <2>3, <2>4 DEF OperationsInv
  <1> QED
    BY <1>2, <1>3

\* A page keeps what a refresh has found within the catalog.
LEMMA PageKeeps ==
    ASSUME OperationsInv, PageArrives
    PROVE  OperationsInv'
  <1> DEFINE found == refresh.found \cup Accepted(Page, Target(refresh.pass))
             ended == refresh.ended + EndedIn(Page)
  <1>1. /\ PageAnswer(Complete) /\ UNCHANGED <<manager, tests, crossed, listing>>
    BY DEF PageArrives
  <1>2. IsFiniteSet(found) /\ Cardinality(found) <= MaxPairs
    BY FoundBounded DEF OperationsInv
  <1>3. \/ Complete(found, ended)
        \/ /\ refresh'.pass \in Passes /\ refresh'.offset \in Nat /\ refresh'.page \in Nat
           /\ refresh'.found = found /\ refresh'.core \subseteq found
           /\ refresh'.pass = "core" => refresh'.core = {}
           /\ UNCHANGED <<trading, ready, currentPairs, copies>>
    <2> DEFINE more == /\ Len(Page) = PageSize /\ refresh.page + 1 < Pages(refresh.pass)
                       /\ Cardinality(found \ refresh.found) < Target(refresh.pass)
               pass == IF more THEN refresh.pass ELSE NextPass(refresh.pass, found)
    <2>1. /\ pass \in Passes /\ refresh.core \subseteq found
          /\ refresh.offset \in Nat /\ refresh.page \in Nat
      BY DEF NextPass, Passes, OperationsInv, OperationTypes, CatalogBounded
    <2>2. IF pass = "none" THEN Complete(found, ended)
          ELSE /\ refresh' = [pass |-> pass,
                              offset |-> IF more THEN refresh.offset + PageSize ELSE 0,
                              page |-> IF more THEN refresh.page + 1 ELSE 0,
                              found |-> found,
                              core |-> IF pass = "core" THEN {} ELSE
                                       IF refresh.pass = "core" THEN found ELSE refresh.core,
                              ended |-> ended]
               /\ UNCHANGED <<trading, ready, backingOff, currentPairs, copies>>
      BY <1>1 DEF PageAnswer
    <2> HIDE DEF more, pass, found, ended
    <2> QED
      BY <2>1, <2>2, OperationsAssumption
  <1> HIDE DEF found, ended
  <1>4. CASE Complete(found, ended)
    BY <1>1, <1>2, <1>4, CompleteKeeps
  <1>5. CASE ~Complete(found, ended)
    BY <1>1, <1>2, <1>3, <1>5, OverridingStays
       DEF OperationsInv, OperationTypes, TradingAsDecided, OneOverrides, CatalogBounded, copies
  <1> QED
    BY <1>4, <1>5


\* What the venue may list is a sequence of markets with their states.
LEMMA ListingsAreSequences == Listings \subseteq Seq(Entries)
  <1> DEFINE ids == {<<>>} \cup {<<m>> : m \in Listed} \cup {s \in Listed \X Listed : s[1] # s[2]}
  <1> SUFFICES ASSUME NEW s \in ids, NEW f \in [Listed -> MarketStates]
               PROVE  [i \in DOMAIN s |-> [id |-> s[i], state |-> f[s[i]]]] \in Seq(Entries)
    BY DEF Listings, MarketStates
  <1>1. s \in Seq(Listed)
    <2>1. CASE s = <<>>
      BY <2>1
    <2>2. ASSUME NEW m \in Listed, s = <<m>>
          PROVE  s \in Seq(Listed)
      BY <2>2
    <2>3. CASE s \in Listed \X Listed
      <3>1. PICK m \in Listed, n \in Listed : s = <<m, n>>
        BY <2>3
      <3> QED
        BY <3>1
    <2> QED
      BY <2>1, <2>2, <2>3
  <1>2. \A i \in 1 .. Len(s) : [id |-> s[i], state |-> f[s[i]]] \in Entries
    BY <1>1 DEF Entries
  <1>3. DOMAIN s = 1 .. Len(s) /\ Len(s) \in Nat
    BY <1>1
  <1> DEFINE t == [i \in 1 .. Len(s) |-> [id |-> s[i], state |-> f[s[i]]]]
  <1>4. t \in [1 .. Len(s) -> Entries]
    BY <1>2
  <1> HIDE DEF ids
  <1> QED
    BY <1>3, <1>4, IsASeq

\* The other steps of the refresher and of the venue.
LEMMA RefreshesKeep ==
    ASSUME OperationsInv,
           \/ StartRefresh \/ PageFails \/ BackoffEnds \/ UNCHANGED operationVars
           \/ \E next \in Listings : ListingChanges(next)
    PROVE  OperationsInv'
  <1>1. UNCHANGED <<manager, trading, ready, tests, crossed, currentPairs, copies>>
    BY DEF StartRefresh, PageFails, BackoffEnds, ListingChanges, operationVars
  <1>2. /\ UNCHANGED <<marketPairs, subscribed, signalled, tokenMap, related>>
    BY <1>1 DEF copies
  <1>3. /\ listing' \in Seq(Entries)
        /\ refresh' = refresh \/ refresh' = Idle \/ refresh' = [Idle EXCEPT !.pass = "core"]
    <2>1. CASE StartRefresh \/ PageFails \/ BackoffEnds \/ UNCHANGED operationVars
      BY <2>1 DEF StartRefresh, PageFails, FailRefresh, BackoffEnds, operationVars, OperationsInv,
         OperationTypes
    <2>2. CASE \E next \in Listings : ListingChanges(next)
      <3>1. PICK next \in Listings : listing' = next /\ refresh' = refresh
        BY <2>2 DEF ListingChanges
      <3>2. next \in Seq(Entries)
        BY ListingsAreSequences
      <3> QED
        BY <3>1, <3>2
    <2> QED
      BY <2>1, <2>2
  <1>4. OperationTypes'
    BY <1>1, <1>3 DEF OperationsInv, OperationTypes, Idle, Passes
  <1>5. TradingAsDecided' /\ OneOverrides'
    BY <1>1, OverridingStays DEF OperationsInv, TradingAsDecided, OneOverrides, Effective
  <1>6. CatalogBounded'
    <2>1. \/ refresh' = refresh
          \/ refresh'.found = {} /\ refresh'.core = {}
      BY <1>3 DEF Idle
    <2>2. IsFiniteSet({}) /\ Cardinality({}) <= MaxPairs
      BY FS_EmptySet, OperationsAssumption
    <2>3. CatalogBounded
      BY DEF OperationsInv
    <2>4. CASE refresh' = refresh
      BY <1>1, <1>2, <2>3, <2>4 DEF CatalogBounded
    <2>5. CASE refresh'.found = {} /\ refresh'.core = {}
      BY <1>1, <1>2, <2>2, <2>3, <2>5 DEF CatalogBounded
    <2> QED
      BY <2>1, <2>4, <2>5
  <1> QED
    BY <1>4, <1>5, <1>6 DEF OperationsInv

LEMMA OperationsInitial == OperationsInit => OperationsInv
  <1> SUFFICES ASSUME OperationsInit
               PROVE  OperationsInv
    OBVIOUS
  <1>1. tests \in [Tests -> TestRecords] /\ \A t \in Tests : tests[t].stage = "none"
    BY DEF OperationsInit, NoTest, TestRecords, OverrideStates
  <1>2. listing \in Seq(Entries)
    BY DEF OperationsInit
  <1>3. OperationTypes /\ TradingAsDecided /\ OneOverrides
    <2>1. Overriding = {}
      BY <1>1 DEF Overriding
    <2> QED
      BY <1>1, <1>2, <2>1 DEF OperationsInit, OperationTypes, TradingAsDecided, OneOverrides,
         Effective, Idle, Passes
  <1>4. CatalogBounded
    BY FS_EmptySet, OperationsAssumption DEF OperationsInit, CatalogBounded, Idle
  <1> QED
    BY <1>3, <1>4 DEF OperationsInv

LEMMA OperationsStep == OperationsInv /\ [OperationsNext]_operationVars => OperationsInv'
  BY CommandsKeep, PageKeeps, RefreshesKeep DEF OperationsNext

LEMMA OperationsInvariant == OperationsSpec => []OperationsInv
  <1>1. OperationsInv /\ [OperationsNext]_operationVars => OperationsInv'
    BY OperationsStep
  <1> QED
    BY <1>1, OperationsInitial, PTL DEF OperationsSpec

\* The switch the process works with is the operator's as soon as the process is ready, and
\* its mode is the operator's or that of the one test that overrides it, until a command or
\* a second test crosses such a test: the test puts back the mode it has found, and only for
\* a test that nothing crosses is that the operator's.
THEOREM TradingDecided == OperationsSpec => []TradingAsDecided
  <1>1. OperationsInv => TradingAsDecided
    BY DEF OperationsInv
  <1> QED
    BY <1>1, OperationsInvariant, PTL

\* All copies of the catalog agree, and its size is bounded, whatever the venue lists and
\* however its listing changes between two pages of a refresh.
THEOREM CatalogsAgree == OperationsSpec => []CatalogAgrees
  <1>1. OperationsInv => CatalogAgrees
    BY DEF OperationsInv, CatalogBounded, CatalogAgrees
  <1> QED
    BY <1>1, OperationsInvariant, PTL


-----------------------------------------------------------------------------
(* What is learned from the events *)

\* The stored events of a kind up to a moment.
UpTo(events, m, k, t) == {e \in OfKind(events, m, k) : e.at <= t}

\* No count is more than what is stored up to the moment the counts are good for.
CountsWithin(counts, events, t) ==
    \A m \in DOMAIN counts, k \in CountedKinds :
        /\ counts[m].count[k] \in Nat
        /\ counts[m].count[k] <= Cardinality(UpTo(events, m, k, t))

\* A moment is passed once everything stored up to it is counted: this is what lets a restart
\* go by the time alone.
LearnInv ==
    /\ IsFiniteSet(storedEvents)
    /\ \A e \in storedEvents : /\ e.id \in Nat /\ e.id < Cardinality(storedEvents)
                               /\ e.at \in Nat /\ e.at <= learnClock
    /\ learnClock \in Nat
    /\ lastAppliedAt \in Nat /\ lastAppliedAt <= learnClock
    /\ snapshot.appliedThrough \in Nat /\ snapshot.appliedThrough <= learnClock
    /\ CountsWithin(stats, storedEvents, lastAppliedAt)
    /\ CountsWithin(snapshot.stats, storedEvents, snapshot.appliedThrough)

\* Two parts that share nothing are together no more than the whole.
LEMMA PartsOfWhole ==
    ASSUME NEW A, NEW B, NEW C, IsFiniteSet(C), A \subseteq C, B \subseteq C, A \cap B = {}
    PROVE  /\ Cardinality(A) \in Nat /\ Cardinality(B) \in Nat /\ Cardinality(C) \in Nat
           /\ Cardinality(A) + Cardinality(B) <= Cardinality(C)
  <1>1. /\ IsFiniteSet(A) /\ IsFiniteSet(B) /\ IsFiniteSet(A \cup B)
        /\ Cardinality(A \cup B) <= Cardinality(C)
    <2>1. A \cup B \subseteq C
      OBVIOUS
    <2> QED
      BY <2>1, FS_Subset
  <1>2. /\ Cardinality(A) \in Nat /\ Cardinality(B) \in Nat /\ Cardinality(C) \in Nat
        /\ Cardinality({}) = 0
    BY <1>1, FS_CardinalityType, FS_EmptySet
  <1>3. Cardinality(A \cup B) = Cardinality(A) + Cardinality(B) - Cardinality(A \cap B)
    BY <1>1, FS_Union
  <1> DEFINE a == Cardinality(A)
             b == Cardinality(B)
             c == Cardinality(C)
             d == Cardinality(A \cup B)
  <1>4. a \in Nat /\ b \in Nat /\ c \in Nat /\ d <= c /\ d = a + b - 0
    BY <1>1, <1>2, <1>3
  <1> HIDE DEF a, b, c, d
  <1>5. a \in Nat /\ b \in Nat /\ c \in Nat /\ a + b <= c
    BY <1>4
  <1> QED
    BY <1>5 DEF a, b, c

\* Counts stay within what is stored when more is stored or a later moment is taken.
LEMMA WithinMore ==
    ASSUME NEW counts, NEW old, NEW new, NEW s \in Nat, NEW t \in Nat,
           CountsWithin(counts, old, s), old \subseteq new, s <= t,
           IsFiniteSet(new), \A e \in new : e.at \in Nat
    PROVE  CountsWithin(counts, new, t)
  <1> SUFFICES ASSUME NEW m \in DOMAIN counts, NEW k \in CountedKinds
               PROVE  /\ counts[m].count[k] \in Nat
                      /\ counts[m].count[k] <= Cardinality(UpTo(new, m, k, t))
    BY DEF CountsWithin
  <1>1. /\ counts[m].count[k] \in Nat
        /\ counts[m].count[k] <= Cardinality(UpTo(old, m, k, s))
    BY DEF CountsWithin
  <1>2. UpTo(old, m, k, s) \subseteq UpTo(new, m, k, t) /\ UpTo(new, m, k, t) \subseteq new
    BY DEF UpTo, OfKind
  <1>3. IsFiniteSet(UpTo(new, m, k, t))
    BY <1>2, FS_Subset
  <1>4. /\ Cardinality(UpTo(old, m, k, s)) <= Cardinality(UpTo(new, m, k, t))
        /\ Cardinality(UpTo(old, m, k, s)) \in Nat /\ Cardinality(UpTo(new, m, k, t)) \in Nat
    BY <1>2, <1>3, FS_Subset, FS_CardinalityType
  <1> QED
    BY <1>1, <1>4

\* Counting events that are stored, and were not counted before.
LEMMA UpdatedWithin ==
    ASSUME NEW counts, NEW old, NEW s, NEW new, NEW t, NEW added,
           CountsWithin(counts, old, s),
           \A m, k : /\ Cardinality(UpTo(old, m, k, s)) \in Nat
                     /\ Cardinality(OfKind(added, m, k)) \in Nat
                     /\ Cardinality(UpTo(new, m, k, t)) \in Nat
                     /\ Cardinality(UpTo(old, m, k, s)) + Cardinality(OfKind(added, m, k))
                            <= Cardinality(UpTo(new, m, k, t))
    PROVE  CountsWithin(Updated(counts, added), new, t)
  <1> SUFFICES ASSUME NEW m \in DOMAIN Updated(counts, added), NEW k \in CountedKinds
               PROVE  /\ Updated(counts, added)[m].count[k] \in Nat
                      /\ Updated(counts, added)[m].count[k] <= Cardinality(UpTo(new, m, k, t))
    BY DEF CountsWithin
  <1>1. Updated(counts, added)[m].count[k]
            = Counted(counts, m, k) + Cardinality(OfKind(added, m, k))
    BY DEF Updated
  <1>2. Counted(counts, m, k) \in Nat /\ Counted(counts, m, k) <= Cardinality(UpTo(old, m, k, s))
    BY DEF Counted, CountsWithin
  <1> DEFINE a == Cardinality(UpTo(old, m, k, s))
             b == Cardinality(OfKind(added, m, k))
             c == Cardinality(UpTo(new, m, k, t))
             d == Counted(counts, m, k)
  <1>3. a \in Nat /\ b \in Nat /\ c \in Nat /\ a + b <= c /\ d \in Nat /\ d <= a
    BY <1>2
  <1> HIDE DEF a, b, c, d
  <1>4. d + b \in Nat /\ d + b <= c
    BY <1>3
  <1> QED
    BY <1>1, <1>4 DEF b, c, d

LEMMA PrunedWithin ==
    ASSUME NEW counts, NEW events, NEW t, NEW now, CountsWithin(counts, events, t)
    PROVE  CountsWithin(Pruned(counts, now), events, t)
  BY DEF Pruned, CountsWithin

\* The last of some moments.
LEMMA LatestIsLast ==
    ASSUME NEW times \in SUBSET Nat, times # {}, NEW n \in Nat, \A u \in times : u <= n
    PROVE  Latest(times) \in times /\ \A u \in times : u <= Latest(times)
  BY GreatestNumber DEF Latest

\* An event is counted no later than the moment the counts are then good for.
LEMMA RecordKeeps ==
    ASSUME LearnInv, NEW event \in BusEvents, NEW lag \in 0 .. 1, Record(event, lag)
    PROVE  LearnInv'
  <1> DEFINE n == Cardinality(storedEvents)
             stored == [id |-> n, at |-> learnClock, market |-> event.market, kind |-> event.kind]
             added == [market |-> event.market, kind |-> event.kind, at |-> learnClock']
  <1>1. /\ storedEvents' = storedEvents \cup {stored}
        /\ learnClock' = learnClock + lag
        /\ UNCHANGED snapshot
    BY DEF Record
  <1>2. /\ IsFiniteSet(storedEvents) /\ n \in Nat /\ learnClock \in Nat
        /\ \A e \in storedEvents : e.id \in Nat /\ e.id < n /\ e.at \in Nat /\ e.at <= learnClock
        /\ lastAppliedAt \in Nat /\ lastAppliedAt <= learnClock
        /\ snapshot.appliedThrough \in Nat /\ snapshot.appliedThrough <= learnClock
        /\ CountsWithin(stats, storedEvents, lastAppliedAt)
        /\ CountsWithin(snapshot.stats, storedEvents, snapshot.appliedThrough)
    BY FS_CardinalityType DEF LearnInv
  <1>3. stored.id = n /\ stored.at = learnClock /\ stored.market = event.market
        /\ stored.kind = event.kind
    OBVIOUS
  <1> HIDE DEF n, stored
  <1>4. stored \notin storedEvents
    BY <1>2, <1>3
  <1>5. IsFiniteSet(storedEvents') /\ Cardinality(storedEvents') = n + 1
    BY <1>1, <1>2, <1>4, FS_AddElement DEF n
  <1>6. learnClock' \in Nat /\ learnClock <= learnClock'
    BY <1>1, <1>2
  <1>7. /\ \A e \in storedEvents' : /\ e.id \in Nat /\ e.id < n + 1
                                    /\ e.at \in Nat /\ e.at <= learnClock /\ e.at <= learnClock'
    BY <1>1, <1>2, <1>3, <1>6
  <1>8. CountsWithin(snapshot.stats, storedEvents', snapshot.appliedThrough)
    BY <1>1, <1>2, <1>5, <1>7, WithinMore
  <1>9. /\ snapshot'.appliedThrough \in Nat /\ snapshot'.appliedThrough <= learnClock'
        /\ CountsWithin(snapshot'.stats, storedEvents', snapshot'.appliedThrough)
    BY <1>1, <1>2, <1>6, <1>8
  <1>10. \A e \in storedEvents' : /\ e.id \in Nat /\ e.id < Cardinality(storedEvents')
                                  /\ e.at \in Nat /\ e.at <= learnClock'
    BY <1>5, <1>7
  <1>11. CASE event.kind \notin CountedKinds
    <2>1. UNCHANGED <<stats, lastAppliedAt>>
      BY <1>11 DEF Record
    <2>2. CountsWithin(stats, storedEvents', lastAppliedAt)
      BY <1>1, <1>2, <1>5, <1>7, WithinMore
    <2>3. lastAppliedAt \in Nat /\ lastAppliedAt <= learnClock'
      BY <1>2, <1>6
    <2> QED
      BY <1>5, <1>6, <1>9, <1>10, <2>1, <2>2, <2>3 DEF LearnInv
  <1>12. CASE event.kind \in CountedKinds
    <2>1. stats' = Updated(stats, {added}) /\ lastAppliedAt' = Later(lastAppliedAt, learnClock')
      BY <1>12 DEF Record
    <2>2. /\ lastAppliedAt' \in Nat /\ lastAppliedAt' <= learnClock' /\ learnClock' <= lastAppliedAt'
          /\ lastAppliedAt <= lastAppliedAt'
      BY <1>2, <1>6, <2>1 DEF Later
    <2>3. ASSUME NEW m, NEW k
          PROVE  /\ Cardinality(UpTo(storedEvents, m, k, lastAppliedAt)) \in Nat
                 /\ Cardinality(OfKind({added}, m, k)) \in Nat
                 /\ Cardinality(UpTo(storedEvents', m, k, lastAppliedAt')) \in Nat
                 /\ Cardinality(UpTo(storedEvents, m, k, lastAppliedAt))
                      + Cardinality(OfKind({added}, m, k))
                        <= Cardinality(UpTo(storedEvents', m, k, lastAppliedAt'))
      <3> DEFINE A == UpTo(storedEvents, m, k, lastAppliedAt)
                 B == OfKind({stored}, m, k)
                 C == UpTo(storedEvents', m, k, lastAppliedAt')
      <3>1. A \subseteq C
        BY <1>1, <1>7, <2>2 DEF UpTo, OfKind
      <3>2. B \subseteq C
        BY <1>1, <1>2, <1>3, <1>6, <2>2 DEF UpTo, OfKind
      <3>3. A \cap B = {}
        BY <1>4 DEF UpTo, OfKind
      <3>4. IsFiniteSet(C)
        <4>1. C \subseteq storedEvents'
          BY DEF UpTo, OfKind
        <4> QED
          BY <1>5, <4>1, FS_Subset
      <3> HIDE DEF A, B, C
      <3>5. /\ Cardinality(A) \in Nat /\ Cardinality(B) \in Nat /\ Cardinality(C) \in Nat
            /\ Cardinality(A) + Cardinality(B) <= Cardinality(C)
        BY <3>1, <3>2, <3>3, <3>4, PartsOfWhole
      <3>6. Cardinality(B) = Cardinality(OfKind({added}, m, k))
        <4>1. CASE event.market = m /\ event.kind = k
          <5>1. B = {stored} /\ OfKind({added}, m, k) = {added}
            BY <1>3, <4>1 DEF B, OfKind
          <5> QED
            BY <5>1, FS_Singleton
        <4>2. CASE ~(event.market = m /\ event.kind = k)
          <5>1. B = {} /\ OfKind({added}, m, k) = {}
            BY <1>3, <4>2 DEF B, OfKind
          <5> QED
            BY <5>1
        <4> QED
          BY <4>1, <4>2
      <3> QED
        BY <3>5, <3>6 DEF A, C
    <2>4. CountsWithin(stats', storedEvents', lastAppliedAt')
      <3> HIDE DEF added
      <3> QED
        BY <1>2, <2>1, <2>3, UpdatedWithin
    <2> QED
      BY <1>5, <1>6, <1>9, <1>10, <2>2, <2>4 DEF LearnInv
  <1> QED
    BY <1>11, <1>12

\* A restart counts again exactly what was stored after the moment of the snapshot.
LEMMA RestoreKeeps ==
    ASSUME LearnInv, Restore, UNCHANGED <<storedEvents, snapshot, learnClock>>
    PROVE  LearnInv'
  <1> USE DEF LearnInv
  <1>1. CASE snapshot.exists /\ DOMAIN snapshot.stats = {}
    <2>1. stats' = snapshot.stats /\ lastAppliedAt' = 0
      BY <1>1 DEF Restore
    <2>2. CountsWithin(stats', storedEvents, 0)
      BY <1>1, <2>1 DEF CountsWithin
    <2> QED
      BY <2>1, <2>2
  <1>2. CASE ~(snapshot.exists /\ DOMAIN snapshot.stats = {})
    <2> DEFINE s == snapshot.appliedThrough
               later == {e.at : e \in {f \in storedEvents : f.at > s}}
               t == Latest(later \cup {s})
               added == {e \in storedEvents : e.at > s /\ e.kind \in CountedKinds}
    <2>1. stats' = Pruned(Updated(snapshot.stats, added), learnClock) /\ lastAppliedAt' = t
      BY <1>2 DEF Restore, Replayed
    <2>2. s \in Nat /\ later \cup {s} \in SUBSET Nat /\ \A u \in later \cup {s} : u <= learnClock
      OBVIOUS
    <2>3. t \in later \cup {s} /\ \A u \in later \cup {s} : u <= t
      <3> HIDE DEF later, s, t
      <3>1. learnClock \in Nat /\ later \cup {s} # {}
        OBVIOUS
      <3> QED
        BY <2>2, <3>1, LatestIsLast DEF t
    <2>4. t \in Nat /\ t <= learnClock /\ \A e \in storedEvents : e.at <= t
      <3>1. t \in Nat /\ t <= learnClock /\ s <= t
        BY <2>2, <2>3
      <3>2. \A e \in storedEvents : e.at > s => e.at <= t
        BY <2>3
      <3> HIDE DEF s, t
      <3> QED
        BY <2>2, <3>1, <3>2
    <2>5. ASSUME NEW m, NEW k
          PROVE  /\ Cardinality(UpTo(storedEvents, m, k, s)) \in Nat
                 /\ Cardinality(OfKind(added, m, k)) \in Nat
                 /\ Cardinality(UpTo(storedEvents, m, k, t)) \in Nat
                 /\ Cardinality(UpTo(storedEvents, m, k, s)) + Cardinality(OfKind(added, m, k))
                        <= Cardinality(UpTo(storedEvents, m, k, t))
      <3> DEFINE A == UpTo(storedEvents, m, k, s)
                 B == OfKind(added, m, k)
                 C == UpTo(storedEvents, m, k, t)
      <3>1. A \subseteq C /\ B \subseteq C /\ C \subseteq storedEvents
        <4> HIDE DEF s, t
        <4> QED
          BY <2>4 DEF UpTo, OfKind
      <3>2. A \cap B = {}
        <4>1. \A e \in A : e.at \in Nat /\ e.at <= s
          BY DEF UpTo, OfKind
        <4>2. \A e \in B : e.at > s
          BY DEF OfKind
        <4> HIDE DEF A, B, s
        <4> QED
          BY <2>2, <4>1, <4>2
      <3>3. IsFiniteSet(C)
        <4> HIDE DEF C
        <4> QED
          BY <3>1, FS_Subset
      <3> HIDE DEF A, B, C
      <3>4. /\ Cardinality(A) \in Nat /\ Cardinality(B) \in Nat /\ Cardinality(C) \in Nat
            /\ Cardinality(A) + Cardinality(B) <= Cardinality(C)
        BY <3>1, <3>2, <3>3, PartsOfWhole
      <3> HIDE DEF s, t, added
      <3> QED
        BY <3>4 DEF A, B, C
    <2>6. CountsWithin(stats', storedEvents, t)
      <3>1. CountsWithin(snapshot.stats, storedEvents, s)
        OBVIOUS
      <3> HIDE DEF s, t, added
      <3>2. CountsWithin(Updated(snapshot.stats, added), storedEvents, t)
        BY <2>5, <3>1, UpdatedWithin
      <3> QED
        BY <2>1, <3>2, PrunedWithin
    <2> HIDE DEF s, t
    <2> QED
      BY <2>1, <2>4, <2>6
  <1> QED
    BY <1>1, <1>2

\* The other steps store nothing, and only forget counts.
LEMMA LearningKeeps ==
    ASSUME LearnInv,
           \/ LearningTick \/ Synthesized \/ LearnClockTick
           \/ LearningStops \/ LearningCrashes \/ UNCHANGED learnVars
    PROVE  LearnInv'
  <1>1. ASSUME NEW counts, CountsWithin(counts, storedEvents, lastAppliedAt)
        PROVE  /\ CountsWithin(Pruned(counts, learnClock), storedEvents, lastAppliedAt)
               /\ Persist(counts)
                  => /\ snapshot'.appliedThrough = lastAppliedAt
                     /\ CountsWithin(snapshot'.stats, storedEvents, lastAppliedAt)
    BY <1>1, PrunedWithin DEF Persist
  <1>2. CASE LearningTick
    <2> DEFINE pruned == IF PruneDue THEN Pruned(stats, learnClock) ELSE stats
               dirty == statsDirty \/ pruned # stats
    <2>1. CountsWithin(pruned, storedEvents, lastAppliedAt)
      BY <1>1 DEF LearnInv
    <2>2. /\ UNCHANGED <<lastAppliedAt, storedEvents, learnClock>>
          /\ \/ Persist(pruned) /\ stats' = Pruned(pruned, learnClock)
             \/ stats' = pruned /\ UNCHANGED snapshot
      BY <1>2 DEF LearningTick
    <2> HIDE DEF pruned
    <2>3. CASE Persist(pruned) /\ stats' = Pruned(pruned, learnClock)
      BY <1>1, <2>1, <2>2, <2>3 DEF LearnInv
    <2>4. CASE stats' = pruned /\ UNCHANGED snapshot
      BY <2>1, <2>2, <2>4 DEF LearnInv
    <2> QED
      BY <2>2, <2>3, <2>4
  <1>3. CASE Synthesized \/ UNCHANGED learnVars
    BY <1>3 DEF Synthesized, learnVars, trackerVars, LearnInv
  <1>4. CASE LearnClockTick
    <2>1. /\ learnClock' = learnClock + 1
          /\ UNCHANGED <<stats, lastAppliedAt, storedEvents, snapshot>>
      BY <1>4 DEF LearnClockTick, trackerVars
    <2>2. learnClock \in Nat
      BY DEF LearnInv
    <2>3. learnClock' \in Nat /\ \A n \in Nat : n <= learnClock => n <= learnClock'
      BY <2>1, <2>2
    <2> QED
      BY <2>1, <2>3 DEF LearnInv
  <1>5. CASE LearningStops \/ LearningCrashes
    <2>1. stats' = <<>> /\ lastAppliedAt' = 0 /\ UNCHANGED <<storedEvents, learnClock>>
      BY <1>5 DEF LearningStops, LearningCrashes, ProcessEnds
    <2>2. Persist(stats) \/ UNCHANGED snapshot
      BY <1>5 DEF LearningStops, LearningCrashes
    <2>3. CountsWithin(stats', storedEvents, 0)
      BY <2>1 DEF CountsWithin
    <2> QED
      BY <1>1, <2>1, <2>2, <2>3 DEF LearnInv
  <1> QED
    BY <1>2, <1>3, <1>4, <1>5

LEMMA LearningInitial == LearningInit => LearnInv
  <1> SUFFICES ASSUME LearningInit
               PROVE  LearnInv
    OBVIOUS
  <1>1. CountsWithin(<<>>, {}, 0)
    BY DEF CountsWithin
  <1> QED
    BY <1>1, FS_EmptySet DEF LearningInit, LearnInv, NoSnapshot

LEMMA LearningStep == LearnInv /\ [LearningNext]_learnVars => LearnInv'
  <1> SUFFICES ASSUME LearnInv, [LearningNext]_learnVars
               PROVE  LearnInv'
    OBVIOUS
  <1>1. CASE LearningStarts
    BY <1>1, RestoreKeeps DEF LearningStarts
  <1> QED
    BY <1>1, RecordKeeps, LearningKeeps DEF LearningNext

\* However the agent is stopped, crashes and starts again, no stored event counts twice.
THEOREM CountedOnce == LearningSpec => []NothingCountedTwice
  <1>1. LearnInv => NothingCountedTwice
    <2> SUFFICES ASSUME LearnInv, NEW m \in DOMAIN stats, NEW k \in CountedKinds
                 PROVE  stats[m].count[k] <= Cardinality(OfKind(storedEvents, m, k))
      BY DEF NothingCountedTwice
    <2> DEFINE C == OfKind(storedEvents, m, k)
               A == UpTo(storedEvents, m, k, lastAppliedAt)
    <2>1. A \subseteq C /\ C \subseteq storedEvents
      BY DEF UpTo, OfKind
    <2>2. /\ Cardinality(A) <= Cardinality(C)
          /\ Cardinality(A) \in Nat /\ Cardinality(C) \in Nat
      <3> HIDE DEF A, C
      <3> QED
        BY <2>1, FS_Subset, FS_CardinalityType DEF LearnInv
    <2>3. stats[m].count[k] \in Nat /\ stats[m].count[k] <= Cardinality(A)
      BY DEF LearnInv, CountsWithin
    <2> HIDE DEF A
    <2> QED
      BY <2>2, <2>3
  <1>2. LearnInv /\ [LearningNext]_learnVars => LearnInv'
    BY LearningStep
  <1> QED
    BY <1>1, <1>2, LearningInitial, PTL DEF LearningSpec

=============================================================================

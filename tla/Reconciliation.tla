---------------------------- MODULE Reconciliation ----------------------------
(***************************************************************************)
(* The life of the process: Supervisor.start, stop and shutdown            *)
(* (src/src/core/Supervisor.ts), the reconciliation of open orders with    *)
(* the venue, and the shutdown handler (src/src/core/shutdown.ts).         *)
(*                                                                         *)
(* An execution is reduced to its order: it is placed, acknowledged,       *)
(* decided by the venue, and ended.  A reconciliation waits for the open   *)
(* orders, the positions and the analysis, and meanwhile all this goes on. *)
(***************************************************************************)
EXTENDS Naturals, FiniteSets

CONSTANTS
    Restored,        \* orders of executions the event store still holds
    Orphans,         \* open orders nobody remembers
    NewOrders,       \* orders this process may place
    MaxFailures      \* bound: how often the venue fails to answer

VARIABLES
    phase,           \* where start or the shutdown has got to
    handlers,        \* whether the handlers of the supervisor are registered
    recon,           \* the reconciliation under way
    interval,        \* whether the interval of reconciliations runs
    incidentTimer,   \* whether a reconciliation after an incident is scheduled
    order,           \* each order at the venue
    known,           \* the orders the active executions know
    running,         \* the orders whose execution has a runner
    live,            \* isLiveTrading
    leftBehind,      \* the orders that were open when the handlers were removed
    cancelled,       \* whether cancelAll was asked for, and succeeded
    failures

lifeVars == <<phase, handlers, recon, interval, incidentTimer, order, known, running, live,
              leftBehind, cancelled, failures>>

AllOrders == Restored \cup Orphans \cup NewOrders

NoRecon == [trigger |-> "none", stage |-> "none", internal |-> {}, open |-> {}]

Phases == {"new", "starting", "connecting", "up", "reconciling", "cancelling", "closing", "exited"}

OrderStates == {"none", "open", "gone", "swept"}

LifeTypeOK ==
    /\ phase \in Phases
    /\ handlers \in BOOLEAN /\ interval \in BOOLEAN /\ incidentTimer \in BOOLEAN
    /\ order \in [AllOrders -> OrderStates]
    /\ known \subseteq AllOrders /\ running \subseteq NewOrders
    /\ recon.internal \subseteq AllOrders /\ recon.open \subseteq AllOrders
    /\ cancelled \in {"no", "ok", "failed"} /\ failures \in 0 .. MaxFailures

LifeInit ==
    /\ phase = "new" /\ handlers = FALSE /\ recon = NoRecon
    /\ interval = FALSE /\ incidentTimer = FALSE
    /\ order \in [AllOrders -> {"none", "open"}]
    /\ \A o \in AllOrders : o \in NewOrders => order[o] = "none"
    /\ known = {} /\ running = {}
    /\ live \in BOOLEAN
    /\ leftBehind = {} /\ cancelled = "no" /\ failures = 0

Open == {o \in AllOrders : order[o] = "open"}

Fail == failures < MaxFailures /\ failures' = failures + 1

\* scheduleIncidentReconciliation, once the handler of incidents is registered: it is with
\* the interval.
Schedule(incident) == incidentTimer' = (incidentTimer \/ (incident /\ interval))

-----------------------------------------------------------------------------
(* Reconciliation *)

\* collectInternalOpenOrders: what the active executions know now.
Begin(trigger, internal) ==
    recon' = [trigger |-> trigger, stage |-> "orders", internal |-> internal, open |-> {}]

\* The venue reads the open orders; a failure counts as if there were none.
OpenOrders(ok) ==
    /\ recon.stage = "orders"
    /\ recon' = [recon EXCEPT !.stage = "positions", !.open = IF ok THEN Open ELSE {}]
    /\ IF ok THEN UNCHANGED failures ELSE Fail
    /\ UNCHANGED <<phase, handlers, interval, incidentTimer, order, known, running, live,
                   leftBehind, cancelled>>

\* reconcileWithVenue: an order only one side has is an incident.
Compared(internal, open) == internal # open

\* The positions have come or failed; an incident schedules another reconciliation.
Positions(drift) ==
    /\ recon.stage = "positions"
    /\ recon' = [recon EXCEPT !.stage = "analysis"]
    /\ Schedule(drift \/ Compared(recon.internal, recon.open))
    /\ UNCHANGED <<phase, handlers, interval, order, known, running, live, leftBehind, cancelled,
                   failures>>

\* The orders to cancel at the start: those no active execution knows.
Extras == IF recon.trigger = "startup" THEN recon.open \ recon.internal ELSE {}

\* analyzeAnomalies has answered; the reconciliation is over unless orders are to be
\* cancelled.
Analysis ==
    /\ recon.stage = "analysis"
    /\ recon' = IF Extras = {} THEN NoRecon ELSE [recon EXCEPT !.stage = "sweeping"]
    /\ UNCHANGED <<phase, handlers, interval, incidentTimer, order, known, running, live,
                   leftBehind, cancelled, failures>>

\* The next order is cancelled, or that fails, which is an incident.
Sweep(o, ok) ==
    /\ recon.stage = "sweeping" /\ o \in Extras
    /\ order' = IF ok /\ order[o] = "open" THEN [order EXCEPT ![o] = "swept"] ELSE order
    /\ IF ok THEN UNCHANGED failures ELSE Fail
    /\ Schedule(~ok)
    /\ recon' = IF Extras = {o} THEN NoRecon ELSE [recon EXCEPT !.open = @ \ {o}]
    /\ UNCHANGED <<phase, handlers, interval, known, running, live, leftBehind, cancelled>>

\* A reconciliation that is asked for while another runs is dropped.
Triggered(trigger) == IF recon = NoRecon THEN Begin(trigger, known) ELSE UNCHANGED recon

IntervalTick ==
    /\ interval /\ recon = NoRecon
    /\ Triggered("interval")
    /\ UNCHANGED <<phase, handlers, interval, incidentTimer, order, known, running, live,
                   leftBehind, cancelled, failures>>

AfterIncident ==
    /\ incidentTimer
    /\ incidentTimer' = FALSE
    /\ Triggered("incident")
    /\ UNCHANGED <<phase, handlers, interval, order, known, running, live, leftBehind, cancelled,
                   failures>>

-----------------------------------------------------------------------------
(* Executions *)

\* Not in the code: opportunities are handled from the moment start is called.
TradingStartedAtOnce == handlers \/ phase = "starting"

\* An execution starts only through the handlers, or through a synthetic test while the
\* API is up.
TradingStarted == handlers \/ phase \in {"up", "reconciling", "cancelling"}

Place(o) ==
    /\ TradingStarted /\ o \in NewOrders /\ order[o] = "none"
    /\ order' = [order EXCEPT ![o] = "open"]
    /\ running' = running \cup {o}
    /\ UNCHANGED <<phase, handlers, recon, interval, incidentTimer, known, live, leftBehind,
                   cancelled, failures>>

Acknowledged(o) ==
    /\ o \in running \ known
    /\ known' = known \cup {o}
    /\ UNCHANGED <<phase, handlers, recon, interval, incidentTimer, order, running, live,
                   leftBehind, cancelled, failures>>

\* The venue fills, kills or cancels the order.
Decided(o) ==
    /\ order[o] = "open" /\ phase # "new"
    /\ order' = [order EXCEPT ![o] = "gone"]
    /\ UNCHANGED <<phase, handlers, recon, interval, incidentTimer, known, running, live,
                   leftBehind, cancelled, failures>>

\* The execution ends, with an incident or without.
Ended(o, incident) ==
    /\ o \in running
    /\ running' = running \ {o} /\ known' = known \ {o}
    /\ Schedule(incident)
    /\ UNCHANGED <<phase, handlers, recon, interval, order, live, leftBehind, cancelled, failures>>

-----------------------------------------------------------------------------
(* Start, stop and shutdown *)

\* restoreActiveExecutions, then the reconciliation that clears the venue.
Start ==
    /\ phase = "new"
    /\ phase' = "starting"
    /\ known' = Restored
    /\ Begin("startup", Restored)
    /\ UNCHANGED <<handlers, interval, incidentTimer, order, running, live, leftBehind, cancelled,
                   failures>>

\* The venue is clear: handlers, intervals and timers, then the connection.
Register ==
    /\ phase = "starting" /\ recon = NoRecon
    /\ phase' = "connecting"
    /\ handlers' = TRUE /\ interval' = TRUE
    /\ UNCHANGED <<recon, incidentTimer, order, known, running, live, leftBehind, cancelled,
                   failures>>

Connected ==
    /\ phase = "connecting"
    /\ phase' = "up"
    /\ UNCHANGED <<handlers, recon, interval, incidentTimer, order, known, running, live,
                   leftBehind, cancelled, failures>>

stop == handlers' = FALSE /\ interval' = FALSE /\ incidentTimer' = FALSE /\ leftBehind' = Open

\* The first connection fails, and the process with it.
ConnectFails ==
    /\ phase = "connecting" /\ Fail
    /\ phase' = "exited"
    /\ stop
    /\ UNCHANGED <<recon, order, known, running, live, cancelled>>

\* executeShutdown arms its timeout and stops the supervisor, which reconciles once more;
\* another signal joins this one.
Signal ==
    /\ phase = "up"
    /\ phase' = "reconciling"
    /\ stop
    /\ Triggered("shutdown")
    /\ UNCHANGED <<order, known, running, live, cancelled, failures>>

\* The reconciliation has ended, or was dropped: live orders are cancelled next.
Reconciled ==
    /\ phase = "reconciling" /\ recon.trigger # "shutdown"
    /\ phase' = IF live THEN "cancelling" ELSE "closing"
    /\ UNCHANGED <<handlers, recon, interval, incidentTimer, order, known, running, live,
                   leftBehind, cancelled, failures>>

\* Not in the code: the orders this process knows of.
CancelKnown == [o \in AllOrders |-> IF order[o] = "open" /\ o \in known THEN "gone" ELSE order[o]]

CancelAll == [o \in AllOrders |-> IF order[o] = "open" THEN "gone" ELSE order[o]]

OrdersCancelled(ok) ==
    /\ phase = "cancelling"
    /\ phase' = "closing"
    /\ order' = IF ok THEN CancelAll ELSE order
    /\ cancelled' = IF ok THEN "ok" ELSE "failed"
    /\ IF ok THEN UNCHANGED failures ELSE Fail
    /\ UNCHANGED <<handlers, recon, interval, incidentTimer, known, running, live, leftBehind>>

\* The API is closed, the connections and the store are released.
Closed ==
    /\ phase = "closing"
    /\ phase' = "exited"
    /\ UNCHANGED <<handlers, recon, interval, incidentTimer, order, known, running, live,
                   leftBehind, cancelled, failures>>

\* From the signal to the exit.
Armed == phase \in {"reconciling", "cancelling", "closing"}

ShutdownTimeout ==
    /\ Armed
    /\ phase' = "exited"
    /\ UNCHANGED <<handlers, recon, interval, incidentTimer, order, known, running, live,
                   leftBehind, cancelled, failures>>

Lives == phase # "exited"

LifeNext ==
    /\ Lives
    /\ \/ Start \/ Register \/ Connected \/ ConnectFails \/ Signal \/ Reconciled \/ Closed
       \/ ShutdownTimeout \/ IntervalTick \/ AfterIncident \/ Analysis
       \/ \E ok \in BOOLEAN : OpenOrders(ok) \/ Positions(ok) \/ OrdersCancelled(ok)
       \/ \E o \in AllOrders, ok \in BOOLEAN : Sweep(o, ok) \/ Ended(o, ok)
       \/ \E o \in AllOrders : Place(o) \/ Acknowledged(o) \/ Decided(o)

LifeSpec == LifeInit /\ [][LifeNext]_lifeVars

-----------------------------------------------------------------------------
(* Properties *)

\* Cleaning up at the start cancels only orders no execution of this process or of the
\* last one owns: it reads the venue before anything can trade.
OwnOrdersSpared == \A o \in AllOrders : order[o] = "swept" => o \in Orphans

\* After a shutdown in live mode whose cancelAll succeeded, none of the orders that were
\* open when trading was stopped is left at the venue, remembered or not.
NothingLeftOpen ==
    phase = "exited" /\ cancelled = "ok" => \A o \in leftBehind : order[o] # "open"
=============================================================================

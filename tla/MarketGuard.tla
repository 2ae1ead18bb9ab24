----------------------------- MODULE MarketGuard -----------------------------
(***************************************************************************)
(* Admission together with the market allowlist (src/src/domain/           *)
(* allowlist.ts) and the incidents that quarantine markets (src/src/       *)
(* services/IncidentTracker.ts).  Scans look at the allowlist; admission   *)
(* does not, it only feeds it with incidents.  A catalog refresh and the   *)
(* operator's resume write to it from outside.                             *)
(***************************************************************************)
EXTENDS Admission

CONSTANTS
    AutoResume,      \* ALLOWLIST_AUTO_RESUME
    Catalogs         \* the sets of markets a catalog refresh may deliver

ASSUME GuardAssumption ==
    /\ AutoResume \in BOOLEAN
    /\ Catalogs \subseteq SUBSET Markets

VARIABLE allowlist

guardVars == <<vars, allowlist>>

Entry == [status : {"allowed", "quarantined"}, until : Nat]

GuardTypeOK == allowlist \in [Markets -> Entry]

AllowedEntry == [status |-> "allowed", until |-> 0]

\* Mutant of QuarantinedEntry: lapses a tick too early.
ShortQuarantineEntry == [status |-> "quarantined", until |-> now + config.cooldown - 1]

\* quarantine(): a later quarantine replaces an earlier one.
QuarantinedEntry == [status |-> "quarantined", until |-> now + config.cooldown]

\* isAllowed(), without the entry it rewrites when a quarantine has lapsed.
Allowed(m) ==
    \/ allowlist[m].status = "allowed"
    \/ AutoResume /\ now >= allowlist[m].until

\* record() of an incident that is more than an alert: every recovery action,
\* "pause" and "block" included, is a quarantine.
Quarantine(S) ==
    allowlist' = [m \in Markets |-> IF m \in S THEN QuarantinedEntry ELSE allowlist[m]]

Allow(S) ==
    allowlist' = [m \in Markets |-> IF m \in S THEN AllowedEntry ELSE allowlist[m]]

GuardInit == Init /\ allowlist = [m \in Markets |-> AllowedEntry]

-----------------------------------------------------------------------------
(* The steps of admission, and what they do to the allowlist *)

\* Looking at a lapsed quarantine turns the entry back to allowed.
GuardedDetect(o) ==
    /\ \A m \in MarketsOf[o] : Allowed(m)
    /\ Detect(o)
    /\ Allow(MarketsOf[o])

GuardedRejectCircuit(o, m, looked) ==
    /\ RejectCircuit(o, m, looked)
    /\ Quarantine({m})

\* The outcome of an execution trips circuits that were not open before it.
Trips(m, outcome) ==
    /\ ~BreakerOpen(m)
    /\ Refresh(Recorded(breaker[m], outcome), now, config).state = "open"

GuardedSettle(o, outcome) ==
    /\ Settle(o, outcome)
    /\ Quarantine({m \in MarketsOf[o] : Trips(m, outcome)})

OtherSteps ==
    \/ \E o \in Opps : Drop(o) \/ SettleThrown(o)
    \/ \E o \in Opps, c \in Costs : RejectLimit(o, c) \/ RejectGate(o, c) \/ Admit(o, c)
    \/ LookAtBreakers
    \/ \E c \in Configs : UpdateBreakerConfig(c)
    \/ Tick

-----------------------------------------------------------------------------
(* The steps of the rest of the system *)

\* An execution, the order book watchdog or a connection reports an incident.
Incident(m) ==
    /\ Quarantine({m})
    /\ UNCHANGED vars

\* POST /allowlist/:marketId/resume
OperatorResume(m) ==
    /\ Allow({m})
    /\ UNCHANGED vars

\* The refreshed catalog seeds the allowlist again, whatever its entries say.
CatalogRefresh(S) ==
    /\ Allow(S)
    /\ UNCHANGED vars

GuardNext ==
    \/ \E o \in Opps : GuardedDetect(o)
    \/ \E o \in Opps, m \in Markets, looked \in SUBSET Markets : GuardedRejectCircuit(o, m, looked)
    \/ \E o \in Opps, outcome \in Outcomes : GuardedSettle(o, outcome)
    \/ OtherSteps /\ UNCHANGED allowlist
    \/ \E m \in Markets : Incident(m) \/ OperatorResume(m)
    \/ \E S \in Catalogs : CatalogRefresh(S)

GuardSpec == GuardInit /\ [][GuardNext]_guardVars

-----------------------------------------------------------------------------
(* Properties *)

\* When the clock ends a market's quarantine, its circuit is not open: scanning
\* never resumes on a market whose executions would all be refused.  It relates
\* two clocks that start in different components, for a fixed cooldown.
ExpiryFindsCircuitShut ==
    [][\A m \in Markets : (now' > now /\ ~Allowed(m) /\ Allowed(m)') => ~BreakerOpen(m)']_guardVars

\* "Quarantines can temporarily override this allowlist" for execution as well
\* as for scanning: no execution starts on a market in quarantine.
StartsOnlyOnAllowedMarkets ==
    [][\A o \in Opps : (o \notin Running /\ o \in Running') =>
         \A m \in MarketsOf[o] : Allowed(m)]_guardVars
=============================================================================

----------------------------- MODULE ExecutionLog -----------------------------
(***************************************************************************)
(* The set of active executions, the event log it is persisted in, and its *)
(* restoration after a crash (src/src/agents/execution/ExecutionAgent.ts,  *)
(* ExecutionAgentSupport.ts, src/src/core/EventStore.ts).                  *)
(*                                                                         *)
(* A lifecycle transition changes memory and appends a snapshot in one     *)
(* turn of the event loop.  A snapshot carries the time of its event: the  *)
(* local clock of the turn, the time an answer came, or, once fills were   *)
(* awaited, the time of the last user event on an order, as the venue gave *)
(* it or as it was received.  The last two may lie in the past, before     *)
(* times that are logged already.  Restoration replays the snapshots in    *)
(* the order of these times.                                               *)
(*                                                                         *)
(* The transitions of one turn that carry one time are one append here, of *)
(* the last of them.  The executions are keyed by id and replayed into a   *)
(* map, so only the order among the events of one execution matters: each  *)
(* has its own part of the log.                                            *)
(***************************************************************************)
EXTENDS ExecutionState, Naturals, Sequences

CONSTANTS
    Ids,              \* the executions
    MaxTime           \* bound on the local clock

ASSUME MaxTimeAssumption == MaxTime \in Nat

VARIABLES
    clock,            \* the local clock
    log,              \* the events of each execution, in the order of insertion
    active,           \* activeExecutions: the active executions in memory
    runners,          \* the executions whose runner is alive
    run,              \* the record each runner holds
    atMs,             \* the time the recovery of an execution was called with
    awaited,          \* the executions that went on to await their fills
    up                \* is the process up?

vars == <<clock, log, active, runners, run, atMs, awaited, up>>

Entry == [ts : 0 .. MaxTime, state : States]

TypeOK ==
    /\ clock \in 0 .. MaxTime
    /\ log \in [Ids -> Seq(Entry)]
    /\ active \subseteq Ids
    /\ runners \subseteq Ids
    /\ run \in [Ids -> Execution]
    /\ atMs \in [Ids -> 0 .. MaxTime]
    /\ awaited \subseteq Ids
    /\ up \in BOOLEAN

Init ==
    /\ clock = 0
    /\ log = [x \in Ids |-> <<>>]
    /\ active = {}
    /\ runners = {}
    /\ run = [x \in Ids |-> NewExecution]
    /\ atMs = [x \in Ids |-> 0]
    /\ awaited = {}
    /\ up = TRUE

-----------------------------------------------------------------------------
(* Helpers *)

\* getRequiredAction: the executions kept are those that wait for something.
Needs(state) == RequiredAction(state) # "none"

\* Mutant of Transition: a finished execution is forgotten before it is logged.
TransitionForgets(x, next, ts) ==
    /\ up
    /\ runners' = IF Needs(next.state) THEN runners \cup {x} ELSE runners \ {x}
    /\ run' = [run EXCEPT ![x] = next]
    /\ log' = IF Needs(next.state)
              THEN [log EXCEPT ![x] = Append(@, [ts |-> ts, state |-> next.state])] ELSE log
    /\ active' = IF Needs(next.state) THEN active \cup {x} ELSE active \ {x}
    /\ UNCHANGED <<clock, up>>

\* ExecutionLifecycleSupport.transition: remember, append, forget when terminal.
Transition(x, next, ts) ==
    /\ up
    /\ runners' = IF Needs(next.state) THEN runners \cup {x} ELSE runners \ {x}
    /\ run' = [run EXCEPT ![x] = next]
    /\ log' = [log EXCEPT ![x] = Append(@, [ts |-> ts, state |-> next.state])]
    /\ active' = IF Needs(next.state) THEN active \cup {x} ELSE active \ {x}
    /\ UNCHANGED <<clock, up>>

\* Mutant of ReplayedLast: of insertions of one time the first is replayed last.
ReplayedLastOfTies(e, i) ==
    \A j \in DOMAIN e : e[j].ts < e[i].ts \/ (e[j].ts = e[i].ts /\ j >= i)

\* Entry i of the events e is the last by time, insertions of one time in their order.
ReplayedLast(e, i) ==
    \A j \in DOMAIN e : e[j].ts < e[i].ts \/ (e[j].ts = e[i].ts /\ j <= i)

\* restoreActiveExecutions: the last snapshot in replay order decides.
Restored ==
    {x \in Ids : /\ log[x] # <<>>
                 /\ \A i \in DOMAIN log[x] :
                      ReplayedLast(log[x], i) => Needs(log[x][i].state)}

\* The times an answer to the submission of x can have come at, and its orders can have
\* been observed at: on the user channel the time the venue gave the event, or the time
\* it was received.
Since(x) == log[x][1].ts .. clock

\* ackStageMs: the later of the times the two answers came at.
AckStage(x) ==
    {log[x][i].ts : i \in {i \in DOMAIN log[x] : ReplayedLast(log[x], i)}}

-----------------------------------------------------------------------------
(* The runner, one action for each turn or, where times differ, each append *)

Submit(x) ==
    /\ log[x] = <<>>
    /\ Transition(x, Submitted(Submitted(SubmitStarted(run[x]), "yes"), "no"), clock)
    /\ UNCHANGED <<atMs, awaited>>

\* Both legs have answered, each at a time of its own: two appends of one turn.
AckYes(x) ==
    /\ x \in runners /\ run[x].state = "both_pending"
    /\ \E t \in Since(x) : Transition(x, Ack(run[x], "yes"), t)
    /\ UNCHANGED <<atMs, awaited>>

AckNo(x) ==
    /\ x \in runners /\ run[x].state = "yes_acked"
    /\ \E t \in Since(x) : Transition(x, Ack(run[x], "no"), t)
    /\ UNCHANGED <<atMs, awaited>>

\* The policy requires the user channel, and the fill timeout has not run out.
AwaitFills(x) ==
    /\ x \in runners \ awaited /\ run[x].state = "both_acked"
    /\ awaited' = awaited \cup {x}
    /\ UNCHANGED <<clock, log, active, runners, run, atMs, up>>

\* Fills that are not awaited are taken to have happened now.
AssumeFilled(x) ==
    /\ x \in runners \ awaited /\ run[x].state = "both_acked"
    /\ Transition(x, Complete(Fill(Fill(run[x], "yes"), "no")), clock)
    /\ UNCHANGED <<atMs, awaited>>

\* fillMs: the later of the times the two orders were observed at.  Nothing relates it
\* to the times of the answers: an event may come before its order's answer does.
BothFilled(x) ==
    /\ x \in runners \cap awaited /\ run[x].state = "both_acked"
    /\ \E t \in Since(x) : Transition(x, Complete(Fill(Fill(run[x], "yes"), "no")), t)
    /\ UNCHANGED <<atMs, awaited>>

\* The times the recovery is called with: now, the later answer's, or the observed one.
FailedAt(x) ==
    IF x \in awaited THEN Since(x)
    ELSE IF run[x].state = "both_acked" THEN AckStage(x) \cup {clock} ELSE {clock}

CancelBoth(x) ==
    /\ x \in runners /\ run[x].state \in {"both_pending", "both_acked"}
    /\ \E t \in FailedAt(x) :
         /\ Transition(x, CancelStarted(run[x]), t)
         /\ atMs' = [atMs EXCEPT ![x] = t]
    /\ UNCHANGED awaited

\* failWithCancel keeps the time it was called with across the await of the cancels.
BothCancelled(x) ==
    /\ x \in runners /\ run[x].state = "cancelling"
    /\ Transition(x, Failed(run[x]), atMs[x])
    /\ UNCHANGED <<atMs, awaited>>

RecoverLeg(x) ==
    /\ x \in runners /\ run[x].state \in {"both_pending", "both_acked"}
    /\ \E t \in FailedAt(x) : \E l \in Legs :
         Transition(x, PartialFill(Fill(run[x], l)), t)
    /\ UNCHANGED <<atMs, awaited>>

StartUnwinding(x) ==
    /\ x \in runners /\ run[x].state = "partial_fill"
    /\ Transition(x, StartUnwind(run[x]), clock)
    /\ UNCHANGED <<atMs, awaited>>

Unwound(x) ==
    /\ x \in runners /\ run[x].state = "unwinding"
    /\ \E next \in {Complete(UnwindComplete(run[x])), Failed(run[x])} :
         Transition(x, next, clock)
    /\ UNCHANGED <<atMs, awaited>>

-----------------------------------------------------------------------------

Tick ==
    /\ clock < MaxTime
    /\ clock' = clock + 1
    /\ UNCHANGED <<log, active, runners, run, atMs, awaited, up>>

\* Memory is lost, the runners and what they hold with it.
Crash ==
    /\ up
    /\ up' = FALSE
    /\ active' = {}
    /\ runners' = {}
    /\ run' = [x \in Ids |-> NewExecution]
    /\ atMs' = [x \in Ids |-> 0]
    /\ UNCHANGED <<clock, log, awaited>>

\* Supervisor.start.
Restart ==
    /\ ~up
    /\ up' = TRUE
    /\ active' = Restored
    /\ UNCHANGED <<clock, log, runners, run, atMs, awaited>>

RunnerStep(x) ==
    \/ Submit(x) \/ AckYes(x) \/ AckNo(x)
    \/ AwaitFills(x) \/ AssumeFilled(x) \/ BothFilled(x)
    \/ CancelBoth(x) \/ BothCancelled(x)
    \/ RecoverLeg(x) \/ StartUnwinding(x) \/ Unwound(x)

Next == Tick \/ Crash \/ Restart \/ \E x \in Ids : RunnerStep(x)

Spec == Init /\ [][Next]_vars

-----------------------------------------------------------------------------
(* Properties *)

\* The executions whose last event, in the order they happened, is not terminal.
Unfinished ==
    {x \in Ids : log[x] # <<>> /\ Needs(log[x][Len(log[x])].state)}

\* The end of x may carry an observed time: its fills were awaited, and neither leg
\* was unwound.
EndObserved(x) ==
    /\ x \in awaited
    /\ \A i \in DOMAIN log[x] : log[x][i].state # "unwinding"

\* Before and after any number of crashes, no execution the log leaves unfinished is
\* missing in memory, and none that has finished is active there, unless its end was
\* observed.
ActiveMatchesLog ==
    up => /\ Unfinished \subseteq active
          /\ \A x \in active \ Unfinished : EndObserved(x)

\* A crash at any moment would lose nothing: what is in memory now would be restored,
\* although times differ from the order of events, and nothing else would, but
\* executions whose end was observed.
CrashLosesNothing ==
    up => /\ active \subseteq Restored
          /\ \A x \in Restored \ active : EndObserved(x)

\* An execution that has finished is never active again.
FinishedStaysFinished == active \subseteq Unfinished
=============================================================================

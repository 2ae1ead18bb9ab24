------------------------------- MODULE Learning -------------------------------
(***************************************************************************)
(* What the learning agent counts for every market (src/src/agents/        *)
(* learning/LearningAgent.ts, LearningStatsTracker.ts): every event is     *)
(* stored and counted, and the counts are saved from time to time.  After  *)
(* a restart the last snapshot is read and the events stored since are     *)
(* counted again.                                                          *)
(*                                                                         *)
(* The averages of edges and slippages follow the counts and are left out; *)
(* the insights go to the rounds of Signals.                               *)
(***************************************************************************)
EXTENDS Integers, FiniteSets

CONSTANTS
    LearnMarkets,      \* numbers, in the order of their ids
    BusEvents,         \* the events that may arrive: records of a market and a kind
    Retention,         \* statsRetentionMs, in ticks; 0: no limit
    MaxTracked,        \* statsMaxMarkets
    SnapshotInterval, PruneInterval,
    MinEvents,         \* minEventsPerRun
    MaxBusEvents, MaxLearnTime, MaxSyntheses   \* bounds: events stored, the clock, calls under way

VARIABLES
    learning,          \* whether the agent runs
    stats,             \* what it has counted: a record for every tracked market
    pendingEvents,     \* counted since the last synthesis
    statsDirty, lastStatsSnapshotAt, lastAppliedAt, lastPruneAt,
    synthesizing,      \* the calls of the language model under way
    storedEvents,      \* in the event store
    snapshot,          \* the last snapshot there, or none
    learnClock

trackerVars == <<stats, pendingEvents, statsDirty, lastStatsSnapshotAt, lastAppliedAt, lastPruneAt>>
learnVars == <<learning, trackerVars, synthesizing, storedEvents, snapshot, learnClock>>

CountedKinds == {"opportunity", "approval", "timeout", "slippage"}
NoSnapshot == [at |-> 0, appliedThrough |-> 0, stats |-> <<>>, exists |-> FALSE]

Later(a, b) == IF a > b THEN a ELSE b
Latest(times) == CHOOSE t \in times : \A u \in times : u <= t

-----------------------------------------------------------------------------
(* The tracker *)

OfKind(events, m, k) == {e \in events : e.market = m /\ e.kind = k}
Counted(counts, m, k) == IF m \in DOMAIN counts THEN counts[m].count[k] ELSE 0

\* update, for a set of events: the counts go up, and the market is as recent as its last event.
Updated(counts, events) ==
    [m \in DOMAIN counts \cup {e.market : e \in events} |->
        [count |-> [k \in CountedKinds |->
                        Counted(counts, m, k) + Cardinality(OfKind(events, m, k))],
         updated |-> LET times == {e.at : e \in {f \in events : f.market = m}}
                     IN  IF times = {} THEN counts[m].updated ELSE Latest(times)]]

\* prune: markets without an event for too long go, then all but the most recent ones.
Pruned(counts, now) ==
    LET kept == {m \in DOMAIN counts : Retention = 0 \/ counts[m].updated >= now - Retention}
        before(l, m) == \/ counts[l].updated > counts[m].updated
                        \/ counts[l].updated = counts[m].updated /\ l < m
        first == {m \in kept : Cardinality({l \in kept : before(l, m)}) < MaxTracked}
    IN  [m \in first |-> counts[m]]

\* Mutant of Replayed: the last moment of the snapshot is replayed, too.
ReplayedInclusively(counts, since) ==
    Updated(counts, {e \in storedEvents : e.at >= since /\ e.kind \in CountedKinds})

\* replayFromStore: what was stored after that moment.
Replayed(counts, since) ==
    Updated(counts, {e \in storedEvents : e.at > since /\ e.kind \in CountedKinds})

\* restore: a snapshot without markets ends it, and nothing is replayed.
Restore ==
    IF snapshot.exists /\ DOMAIN snapshot.stats = {}
    THEN /\ stats' = snapshot.stats
         /\ lastStatsSnapshotAt' = 0 /\ lastAppliedAt' = 0 /\ lastPruneAt' = 0
         /\ statsDirty' = FALSE
    ELSE LET replayed == Replayed(snapshot.stats, snapshot.appliedThrough)
         IN  /\ stats' = Pruned(replayed, learnClock)
             /\ statsDirty' = (replayed # snapshot.stats \/ stats' # replayed)
             /\ lastStatsSnapshotAt' = snapshot.at
             /\ lastAppliedAt' = Latest({e.at : e \in {f \in storedEvents : f.at > snapshot.appliedThrough}}
                                        \cup {snapshot.appliedThrough})
             /\ lastPruneAt' = learnClock

PruneDue == learnClock - lastPruneAt >= PruneInterval
PersistDue(dirty) == dirty /\ learnClock - lastStatsSnapshotAt >= SnapshotInterval

\* maybePersist, once it is due or forced; it prunes first.
Persist(counts) ==
    snapshot' = [at |-> learnClock, appliedThrough |-> lastAppliedAt, exists |-> TRUE,
                 stats |-> Pruned(counts, learnClock)]

-----------------------------------------------------------------------------
(* The agent *)

LearningInit ==
    /\ learning = TRUE /\ stats = <<>> /\ pendingEvents = 0 /\ statsDirty = FALSE
    /\ lastStatsSnapshotAt = 0 /\ lastAppliedAt = 0 /\ lastPruneAt = 1
    /\ synthesizing = 0 /\ storedEvents = {} /\ snapshot = NoSnapshot
    /\ learnClock = 1

\* An event is stored and, if it counts, counted; the clock may move in between.
Record(event, lag) ==
    /\ learning /\ Cardinality(storedEvents) < MaxBusEvents
    /\ learnClock + lag <= MaxLearnTime
    /\ storedEvents' = storedEvents \cup
           {[id |-> Cardinality(storedEvents), at |-> learnClock,
             market |-> event.market, kind |-> event.kind]}
    /\ learnClock' = learnClock + lag
    /\ IF event.kind \notin CountedKinds
       THEN UNCHANGED <<stats, pendingEvents, statsDirty, lastAppliedAt>>
       ELSE /\ stats' = Updated(stats, {[market |-> event.market, kind |-> event.kind, at |-> learnClock']})
            /\ lastAppliedAt' = Later(lastAppliedAt, learnClock')
            /\ pendingEvents' = pendingEvents + 1 /\ statsDirty' = TRUE
    /\ UNCHANGED <<learning, lastStatsSnapshotAt, lastPruneAt, synthesizing, snapshot>>

\* tick: prune, persist, and ask the language model for insights, even while it is being asked.
LearningTick ==
    /\ learning
    /\ LET pruned == IF PruneDue THEN Pruned(stats, learnClock) ELSE stats
           dirty == statsDirty \/ pruned # stats
       IN  IF PersistDue(dirty)
           THEN /\ Persist(pruned)
                /\ stats' = Pruned(pruned, learnClock) /\ statsDirty' = FALSE
                /\ lastStatsSnapshotAt' = learnClock /\ lastPruneAt' = learnClock
           ELSE /\ stats' = pruned /\ statsDirty' = dirty
                /\ lastPruneAt' = IF PruneDue THEN learnClock ELSE lastPruneAt
                /\ UNCHANGED <<lastStatsSnapshotAt, snapshot>>
    /\ synthesizing' = IF pendingEvents >= MinEvents /\ synthesizing < MaxSyntheses THEN synthesizing + 1
                       ELSE synthesizing
    /\ UNCHANGED <<learning, pendingEvents, lastAppliedAt, storedEvents, learnClock>>

\* Its answer is in: all that is pending counts as told, what came meanwhile included.
Synthesized ==
    /\ synthesizing > 0
    /\ synthesizing' = synthesizing - 1
    /\ pendingEvents' = 0
    /\ UNCHANGED <<learning, stats, statsDirty, lastStatsSnapshotAt, lastAppliedAt, lastPruneAt,
                   storedEvents, snapshot, learnClock>>

\* The process ends, with all it has in memory.
ProcessEnds ==
    /\ learning /\ learning' = FALSE
    /\ stats' = <<>> /\ pendingEvents' = 0 /\ statsDirty' = FALSE
    /\ lastStatsSnapshotAt' = 0 /\ lastAppliedAt' = 0 /\ lastPruneAt' = 0
    /\ synthesizing' = 0
    /\ UNCHANGED <<storedEvents, learnClock>>

\* stop: the last snapshot is forced.
LearningStops == Persist(stats) /\ ProcessEnds

LearningCrashes == ProcessEnds /\ UNCHANGED snapshot

LearningStarts ==
    /\ ~learning /\ learning' = TRUE
    /\ Restore
    /\ UNCHANGED <<pendingEvents, synthesizing, storedEvents, snapshot, learnClock>>

LearnClockTick ==
    /\ learnClock < MaxLearnTime /\ learnClock' = learnClock + 1
    /\ UNCHANGED <<learning, trackerVars, synthesizing, storedEvents, snapshot>>

LearningNext ==
    \/ \E event \in BusEvents, lag \in 0 .. 1 : Record(event, lag)
    \/ LearningTick \/ Synthesized \/ LearnClockTick
    \/ LearningStops \/ LearningCrashes \/ LearningStarts

LearningSpec == LearningInit /\ [][LearningNext]_learnVars

-----------------------------------------------------------------------------
(* Properties *)

\* However the agent is stopped, crashes and starts again, no count of a market is above the
\* number of the stored events it stands for, though the snapshot knows of time only, not of
\* the events it has in it.  (It is about totals: an event counted twice in the place of
\* another that was lost is not seen.)
NothingCountedTwice ==
    \A m \in DOMAIN stats, k \in CountedKinds :
        stats[m].count[k] <= Cardinality(OfKind(storedEvents, m, k))
=============================================================================

-------------------------- MODULE ExecutionLog_proofs --------------------------
(***************************************************************************)
(* Whatever times the snapshots carry, no crash loses an unfinished        *)
(* execution, and none that has finished comes back, unless its end was    *)
(* observed on the user channel; for any number of executions, events and  *)
(* crashes.                                                                *)
(***************************************************************************)
EXTENDS ExecutionLog, TLAPS

USE MaxTimeAssumption

\* No snapshot and no recovery is stamped later than now.
NotAhead ==
    /\ \A x \in Ids : atMs[x] <= clock
    /\ \A x \in Ids : \A i \in DOMAIN log[x] : log[x][i].ts <= clock

\* A terminal snapshot is the last of its execution, and ends its runner.
TerminalLast ==
    /\ \A x \in Ids : \A i \in DOMAIN log[x] : i # Len(log[x]) => Needs(log[x][i].state)
    /\ \A x \in runners : log[x] # <<>> /\ Needs(log[x][Len(log[x])].state)

\* A runner that has started to unwind does nothing else.
UnwindsToTheEnd ==
    \A x \in runners : \A i \in DOMAIN log[x] :
        log[x][i].state = "unwinding" => run[x].state = "unwinding"

\* While the cancels of an execution are awaited that did not await its fills, the time
\* its recovery was called with is not before any of its snapshots.
RecoveryIsLatest ==
    \A x \in runners \ awaited : run[x].state = "cancelling" =>
        \A i \in DOMAIN log[x] : log[x][i].ts <= atMs[x]

\* A terminal snapshot is the latest of its execution, unless its time was observed.
EndsInOrder ==
    \A x \in Ids :
        ~EndObserved(x) /\ log[x] # <<>> /\ ~Needs(log[x][Len(log[x])].state) =>
            \A i \in DOMAIN log[x] : log[x][i].ts <= log[x][Len(log[x])].ts

\* The active set is between what is unfinished and what would be restored.
ActiveBetween == up => Unfinished \subseteq active /\ active \subseteq Restored

IInv ==
    /\ TypeOK /\ NotAhead /\ TerminalLast /\ UnwindsToTheEnd
    /\ RecoveryIsLatest /\ EndsInOrder /\ ActiveBetween

\* Every event of the lifecycle table takes an execution record to one.
LEMMA EventTypes ==
    ASSUME NEW e \in Execution, NEW l \in Legs
    PROVE  /\ SubmitStarted(e) \in Execution /\ Submitted(e, l) \in Execution
           /\ Ack(e, l) \in Execution /\ Fill(e, l) \in Execution
           /\ PartialFill(e) \in Execution /\ StartUnwind(e) \in Execution
           /\ UnwindComplete(e) \in Execution /\ CancelStarted(e) \in Execution
           /\ Failed(e) \in Execution /\ Complete(e) \in Execution
  BY DEF Execution, States, PendingStates, AckedStates, HalfFilled, TerminalStates,
         SubmitStarted, Submitted, Ack, Fill, PartialFill, StartUnwind, UnwindComplete,
         CancelStarted, Failed, Complete, Move, Legs, Pending, Acked, Filled

\* Positions and times of snapshots are numbers.
LEMMA SnapshotNumbers ==
    ASSUME TypeOK, NEW x \in Ids
    PROVE  /\ log[x] \in Seq(Entry) /\ Len(log[x]) \in Nat /\ DOMAIN log[x] = 1 .. Len(log[x])
           /\ \A i \in DOMAIN log[x] : log[x][i] \in Entry /\ log[x][i].ts \in Nat
           /\ log[x] # <<>> => Len(log[x]) \in DOMAIN log[x]
           /\ log[x] = <<>> => DOMAIN log[x] = {}
  <1>1. log[x] \in Seq(Entry)
    BY DEF TypeOK
  <1>2. /\ DOMAIN log[x] = 1 .. Len(log[x]) /\ Len(log[x]) \in Nat
        /\ \A i \in DOMAIN log[x] : log[x][i] \in Entry
        /\ log[x] # <<>> => Len(log[x]) > 0
    BY <1>1
  <1>3. \A e \in Entry : e.ts \in Nat
    BY DEF Entry
  <1> QED
    BY <1>1, <1>2, <1>3

\* What is unfinished is restored, however the times of its events lie.
LEMMA UnfinishedIsRestored ==
    ASSUME TypeOK, TerminalLast
    PROVE  Unfinished \subseteq Restored
  BY SnapshotNumbers DEF TerminalLast, Unfinished, Restored

\* What is restored is unfinished, if its end was not observed.
LEMMA RestoredIsUnfinished ==
    ASSUME TypeOK, EndsInOrder, NEW x \in Restored, ~EndObserved(x)
    PROVE  x \in Unfinished
  <1> SUFFICES ASSUME ~Needs(log[x][Len(log[x])].state)
               PROVE  FALSE
    BY DEF Restored, Unfinished
  <1>1. x \in Ids /\ log[x] # <<>>
    BY DEF Restored
  <1>2. \A i \in DOMAIN log[x] : log[x][i].ts <= log[x][Len(log[x])].ts
    BY <1>1 DEF EndsInOrder
  <1>3. ReplayedLast(log[x], Len(log[x]))
    BY <1>1, <1>2, SnapshotNumbers DEF ReplayedLast
  <1> QED
    BY <1>1, <1>3, SnapshotNumbers DEF Restored

\* A transition keeps the invariant, if it comes from the runner, and if, where its time
\* decides and was not observed, it is no earlier than what is logged.
LEMMA TransitionKeeps ==
    ASSUME IInv, NEW x \in Ids, NEW next \in Execution, NEW ts \in 0 .. MaxTime,
           Transition(x, next, ts), UNCHANGED awaited,
           ts <= clock,
           x \in runners \/ log[x] = <<>>,
           atMs' \in [Ids -> 0 .. MaxTime],
           \A y \in Ids \ {x} : atMs'[y] = atMs[y],
           atMs'[x] <= clock,
           next.state = "cancelling" => ts = atMs'[x],
           next.state = "cancelling" /\ x \notin awaited =>
               \A i \in DOMAIN log[x] : log[x][i].ts <= ts,
           ~Needs(next.state) /\ ~EndObserved(x) =>
               \A i \in DOMAIN log[x] : log[x][i].ts <= ts,
           \A i \in DOMAIN log[x] : log[x][i].state = "unwinding" => ~Needs(next.state)
    PROVE  IInv'
  <1> DEFINE new == [ts |-> ts, state |-> next.state]
             n   == Len(log[x])
  <1>1. /\ new \in Entry /\ log' = [log EXCEPT ![x] = Append(@, new)]
        /\ clock' = clock /\ clock \in Nat /\ run' = [run EXCEPT ![x] = next]
        /\ up /\ up' /\ run \in [Ids -> Execution] /\ log \in [Ids -> Seq(Entry)]
        /\ awaited' = awaited
    <2>1. next.state \in States
      BY DEF Execution
    <2>2. new \in Entry
      BY <2>1 DEF Entry
    <2>3. clock \in Nat
      BY DEF IInv, TypeOK
    <2> QED
      BY <2>2, <2>3 DEF Transition, IInv, TypeOK
  <1>2. /\ log[x] \in Seq(Entry) /\ n \in Nat /\ DOMAIN log[x] = 1 .. n
        /\ \A i \in DOMAIN log[x] : log[x][i].ts \in Nat
        /\ log[x] = <<>> => n = 0
    BY SnapshotNumbers DEF IInv
  <1>3. /\ log'[x] = Append(log[x], new)
        /\ \A y \in Ids \ {x} : log'[y] = log[y] /\ run'[y] = run[y]
        /\ run'[x] = next
    BY <1>1
  <1>4. /\ Len(log'[x]) = n + 1 /\ DOMAIN log'[x] = 1 .. n + 1
        /\ log'[x] # <<>> /\ log'[x][n + 1] = new
        /\ \A i \in 1 .. n : log'[x][i] = log[x][i]
    BY <1>2, <1>3
  <1>5. \A i \in 1 .. n : Needs(log[x][i].state)
    BY <1>2 DEF IInv, TerminalLast
  <1>6. runners' = IF Needs(next.state) THEN runners \cup {x} ELSE runners \ {x}
    BY DEF Transition
  <1> HIDE DEF new, n
  <1>7. new.ts = ts /\ new.state = next.state
    BY DEF new
  <1>8. TypeOK'
    <2>1. log' \in [Ids -> Seq(Entry)]
      BY <1>1, <1>2
    <2>2. active' \subseteq Ids /\ runners' \subseteq Ids /\ run' \in [Ids -> Execution]
      BY <1>1 DEF Transition, IInv, TypeOK
    <2> QED
      BY <2>1, <2>2, <1>1 DEF Transition, IInv, TypeOK
  <1>9. NotAhead'
    <2>1. \A y \in Ids : atMs'[y] <= clock'
      BY <1>1 DEF IInv, NotAhead
    <2>2. \A i \in DOMAIN log'[x] : log'[x][i].ts <= clock'
      BY <1>1, <1>2, <1>4, <1>7 DEF IInv, NotAhead
    <2>3. \A y \in Ids \ {x} : \A i \in DOMAIN log'[y] : log'[y][i].ts <= clock'
      BY <1>1, <1>3 DEF IInv, NotAhead
    <2> QED
      BY <2>1, <2>2, <2>3 DEF NotAhead
  <1>10. TerminalLast'
    <2>1. \A i \in DOMAIN log'[x] : i # Len(log'[x]) => Needs(log'[x][i].state)
      BY <1>2, <1>4, <1>5
    <2>2. x \in runners' => log'[x] # <<>> /\ Needs(log'[x][Len(log'[x])].state)
      BY <1>4, <1>6, <1>7
    <2> QED
      BY <2>1, <2>2, <1>3, <1>6 DEF IInv, TypeOK, TerminalLast
  <1>11. UnwindsToTheEnd'
    <2>1. ASSUME x \in runners', NEW i \in DOMAIN log'[x], log'[x][i].state = "unwinding"
          PROVE  run'[x].state = "unwinding"
      <3>1. Needs(next.state)
        BY <1>6, <2>1
      <3>2. i \notin 1 .. n
        BY <1>2, <1>4, <2>1, <3>1
      <3>3. i = n + 1
        BY <1>2, <1>4, <2>1, <3>2
      <3> QED
        BY <1>3, <1>4, <1>7, <2>1, <3>3
    <2>2. ASSUME NEW y \in runners', y # x, NEW i \in DOMAIN log'[y],
                 log'[y][i].state = "unwinding"
          PROVE  run'[y].state = "unwinding"
      BY <1>3, <1>6, <2>2 DEF IInv, TypeOK, UnwindsToTheEnd
    <2> QED
      BY <2>1, <2>2 DEF UnwindsToTheEnd
  <1>12. RecoveryIsLatest'
    <2>1. ASSUME x \in runners' \ awaited, next.state = "cancelling",
                 NEW i \in DOMAIN log'[x]
          PROVE  log'[x][i].ts <= atMs'[x]
      <3>1. ts = atMs'[x] /\ \A j \in DOMAIN log[x] : log[x][j].ts <= ts
        BY <2>1
      <3>2. (i \in DOMAIN log[x] /\ log'[x][i] = log[x][i]) \/ log'[x][i] = new
        BY <1>2, <1>4, <2>1
      <3> QED
        BY <1>7, <3>1, <3>2
    <2>2. ASSUME NEW y \in runners' \ awaited, y # x, run'[y].state = "cancelling",
                 NEW i \in DOMAIN log'[y]
          PROVE  log'[y][i].ts <= atMs'[y]
      BY <1>3, <1>6, <2>2 DEF IInv, TypeOK, RecoveryIsLatest
    <2> QED
      BY <1>1, <1>3, <2>1, <2>2 DEF RecoveryIsLatest
  <1>13. EndsInOrder'
    <2>1. ASSUME ~EndObserved(x)', ~Needs(next.state), NEW i \in DOMAIN log'[x]
          PROVE  log'[x][i].ts <= ts
      <3>1. next.state # "unwinding"
        BY <2>1 DEF Needs, RequiredAction
      <3>2. ~EndObserved(x)
        BY <1>1, <1>2, <1>4, <1>7, <2>1, <3>1 DEF EndObserved
      <3>3. (i \in DOMAIN log[x] /\ log'[x][i] = log[x][i]) \/ log'[x][i] = new
        BY <1>2, <1>4, <2>1
      <3> QED
        BY <1>7, <2>1, <3>2, <3>3
    <2>2. ASSUME NEW y \in Ids \ {x}
          PROVE  EndObserved(y)' = EndObserved(y)
      BY <1>1, <1>3 DEF EndObserved
    <2> QED
      BY <1>3, <1>4, <1>7, <2>1, <2>2 DEF IInv, EndsInOrder
  <1>14. ActiveBetween'
    <2>1. /\ active' = IF Needs(next.state) THEN active \cup {x} ELSE active \ {x}
          /\ Unfinished \subseteq active /\ active \subseteq Restored
      BY DEF Transition, IInv, ActiveBetween
    <2>2. \A y \in Ids \ {x} : /\ y \in Unfinished' <=> y \in Unfinished
                               /\ y \in Restored' <=> y \in Restored
      BY <1>3 DEF Unfinished, Restored
    <2>3. x \in Unfinished' <=> Needs(next.state)
      BY <1>4, <1>7 DEF Unfinished
    <2>4. x \in Unfinished' => x \in Restored'
      BY <1>2, <1>4, <1>5, <1>7, <2>3 DEF Restored
    <2>5. Unfinished \subseteq Ids /\ Unfinished' \subseteq Ids /\ Restored \subseteq Ids
      BY DEF Unfinished, Restored
    <2> QED
      BY <2>1, <2>2, <2>3, <2>4, <2>5 DEF ActiveBetween
  <1> QED
    BY <1>8, <1>9, <1>10, <1>11, <1>12, <1>13, <1>14 DEF IInv

\* The invariant holds in the initial state.
LEMMA InvariantInit == Init => IInv
  <1> SUFFICES ASSUME Init PROVE IInv
    OBVIOUS
  <1>1. \A x \in Ids : log[x] = <<>> /\ DOMAIN log[x] = {}
    BY DEF Init
  <1>2. NewExecution \in Execution
    BY DEF NewExecution, Execution, States
  <1> QED
    BY <1>1, <1>2 DEF Init, IInv, TypeOK, NotAhead, TerminalLast, UnwindsToTheEnd,
       RecoveryIsLatest, EndsInOrder, ActiveBetween, Unfinished, Restored

\* What the times of answers, observations and recoveries are: not later than now and,
\* unless observed, not before what is logged.
LEMMA Times ==
    ASSUME IInv, NEW x \in Ids
    PROVE  /\ clock \in 0 .. MaxTime /\ \A i \in DOMAIN log[x] : log[x][i].ts <= clock
           /\ x \in runners => \A t \in Since(x) : t \in 0 .. MaxTime /\ t <= clock
           /\ \A t \in AckStage(x) : /\ t \in 0 .. MaxTime /\ t <= clock
                                     /\ \A i \in DOMAIN log[x] : log[x][i].ts <= t
           /\ atMs \in [Ids -> 0 .. MaxTime] /\ \A y \in Ids : atMs[y] <= clock
  <1>1. /\ clock \in 0 .. MaxTime /\ clock \in Nat
        /\ \A i \in DOMAIN log[x] : log[x][i].ts <= clock
    BY DEF IInv, TypeOK, NotAhead
  <1>2. /\ Len(log[x]) \in Nat /\ DOMAIN log[x] = 1 .. Len(log[x])
        /\ \A i \in DOMAIN log[x] : log[x][i].ts \in Nat
        /\ log[x] # <<>> => Len(log[x]) \in DOMAIN log[x]
    BY SnapshotNumbers DEF IInv
  <1>3. ASSUME x \in runners
        PROVE  \A t \in Since(x) : t \in 0 .. MaxTime /\ t <= clock
    <2>1. log[x] # <<>>
      BY <1>3 DEF IInv, TerminalLast
    <2>2. 1 \in DOMAIN log[x]
      BY <1>2, <2>1
    <2>3. log[x][1].ts \in Nat
      BY <1>2, <2>2
    <2> QED
      BY <1>1, <2>3 DEF Since
  <1>4. ASSUME NEW t \in AckStage(x)
        PROVE  /\ t \in 0 .. MaxTime /\ t <= clock
               /\ \A i \in DOMAIN log[x] : log[x][i].ts <= t
    <2>1. PICK i \in DOMAIN log[x] : t = log[x][i].ts /\ ReplayedLast(log[x], i)
      BY DEF AckStage
    <2>2. \A j \in DOMAIN log[x] : log[x][j].ts <= t
      BY <1>2, <2>1 DEF ReplayedLast
    <2> QED
      BY <1>1, <1>2, <2>1, <2>2
  <1> QED
    BY <1>1, <1>3, <1>4 DEF IInv, TypeOK, NotAhead

\* A transition that starts neither a recovery nor an end keeps the invariant at any
\* time, one that starts no recovery at the time of the clock.
LEMMA PlainKeeps ==
    ASSUME IInv, NEW x \in Ids, NEW next \in Execution, NEW ts \in 0 .. clock,
           Transition(x, next, ts), UNCHANGED <<atMs, awaited>>,
           x \in runners \/ log[x] = <<>>,
           next.state # "cancelling",
           ts = clock \/ Needs(next.state),
           x \in runners /\ Needs(next.state) => run[x].state # "unwinding"
    PROVE  IInv'
  <1>1. ts \in 0 .. MaxTime /\ ts <= clock
    BY Times
  <1>2. ~Needs(next.state) => \A i \in DOMAIN log[x] : log[x][i].ts <= ts
    BY Times
  <1>3. \A i \in DOMAIN log[x] : log[x][i].state = "unwinding" => ~Needs(next.state)
    BY SnapshotNumbers DEF IInv, UnwindsToTheEnd
  <1> QED
    BY <1>1, <1>2, <1>3, Times, TransitionKeeps

\* Every turn of a runner keeps the invariant.
LEMMA RunnerKeeps ==
    ASSUME IInv, NEW x \in Ids, RunnerStep(x)
    PROVE  IInv'
  <1>1. run[x] \in Execution /\ clock \in Nat
    BY DEF IInv, TypeOK
  <1>2. /\ \A l \in Legs : PartialFill(Fill(run[x], l)) \in Execution
        /\ Submitted(Submitted(SubmitStarted(run[x]), "yes"), "no") \in Execution
        /\ Ack(run[x], "yes") \in Execution /\ Ack(run[x], "no") \in Execution
        /\ Complete(Fill(Fill(run[x], "yes"), "no")) \in Execution
        /\ StartUnwind(run[x]) \in Execution
        /\ Complete(UnwindComplete(run[x])) \in Execution
        /\ Failed(run[x]) \in Execution /\ CancelStarted(run[x]) \in Execution
    BY <1>1, EventTypes DEF Legs
  <1>3. clock \in 0 .. clock
    BY <1>1
  <1>4. ASSUME NEW next \in Execution, Transition(x, next, clock), UNCHANGED <<atMs, awaited>>,
               x \in runners \/ log[x] = <<>>, next.state # "cancelling",
               x \in runners /\ Needs(next.state) => run[x].state # "unwinding"
        PROVE  IInv'
    BY <1>3, <1>4, PlainKeeps
  <1>5. CASE Submit(x)
    <2>1. Submitted(Submitted(SubmitStarted(run[x]), "yes"), "no").state # "cancelling"
      BY <1>5 DEF Submit, Submitted, SubmitStarted, Move, Pending, SubmitPendingStates,
         PendingStates, Execution
    <2>2. x \notin runners
      BY <1>5 DEF Submit, IInv, TerminalLast
    <2> QED
      BY <1>2, <1>4, <1>5, <2>1, <2>2 DEF Submit
  <1>6. CASE AckYes(x) \/ AckNo(x)
    <2>1. PICK l \in Legs, t \in Since(x) : Transition(x, Ack(run[x], l), t)
      BY <1>6 DEF AckYes, AckNo, Legs
    <2>2. x \in runners /\ run[x].state \in {"both_pending", "yes_acked"}
          /\ UNCHANGED <<atMs, awaited>>
      BY <1>6 DEF AckYes, AckNo
    <2>3. /\ Ack(run[x], l) \in Execution
          /\ Ack(run[x], l).state \in {"yes_acked", "no_acked", "both_acked"}
      BY <1>1, <2>2, EventTypes
         DEF Ack, Move, Acked, Execution, AckStates, PendingStates, AckedStates
    <2>4. Needs(Ack(run[x], l).state) /\ Ack(run[x], l).state # "cancelling"
      BY <2>3 DEF Needs, RequiredAction, PendingStates, AckedStates, HalfFilled
    <2>5. t \in 0 .. clock
      BY <1>1, <2>2, Times
    <2> QED
      BY <2>1, <2>2, <2>3, <2>4, <2>5, PlainKeeps
  <1>7. CASE AwaitFills(x)
    <2>1. /\ UNCHANGED <<clock, log, active, runners, run, atMs, up>>
          /\ awaited' = awaited \cup {x}
          /\ x \in runners
      BY <1>7 DEF AwaitFills
    <2>2. TypeOK' /\ NotAhead' /\ TerminalLast' /\ UnwindsToTheEnd'
      BY <2>1 DEF IInv, TypeOK, NotAhead, TerminalLast, UnwindsToTheEnd
    <2>3. RecoveryIsLatest'
      BY <2>1 DEF IInv, RecoveryIsLatest
    <2>4. \A y \in Ids : EndObserved(y) => EndObserved(y)'
      BY <2>1 DEF EndObserved
    <2>5. EndsInOrder' /\ ActiveBetween'
      BY <2>1, <2>4 DEF IInv, EndsInOrder, ActiveBetween, Unfinished, Restored
    <2> QED
      BY <2>2, <2>3, <2>5 DEF IInv
  <1>8. CASE AssumeFilled(x)
    <2>1. Complete(Fill(Fill(run[x], "yes"), "no")).state # "cancelling"
      BY <1>2 DEF Complete, Fill, Move, Execution
    <2> QED
      BY <1>2, <1>4, <1>8, <2>1 DEF AssumeFilled
  <1>9. ASSUME run[x].state # "unwinding", x \in runners
        PROVE  \A i \in DOMAIN log[x] : log[x][i].state # "unwinding"
    BY <1>9 DEF IInv, UnwindsToTheEnd
  <1>10. CASE BothFilled(x)
    <2>1. PICK t \in Since(x) : Transition(x, Complete(Fill(Fill(run[x], "yes"), "no")), t)
      BY <1>10 DEF BothFilled
    <2>2. x \in runners /\ x \in awaited /\ run[x].state = "both_acked"
          /\ UNCHANGED <<atMs, awaited>>
      BY <1>10 DEF BothFilled
    <2>3. Complete(Fill(Fill(run[x], "yes"), "no")).state # "cancelling"
      BY <1>2 DEF Complete, Fill, Move, Execution
    <2>4. \A i \in DOMAIN log[x] : log[x][i].state # "unwinding"
      BY <1>9, <2>2
    <2>5. EndObserved(x)
      BY <2>2, <2>4 DEF EndObserved
    <2> QED
      BY <1>2, <2>1, <2>2, <2>3, <2>4, <2>5, Times, TransitionKeeps
  <1>11. ASSUME NEW t \in FailedAt(x), x \in runners
         PROVE  /\ t \in 0 .. MaxTime /\ t <= clock
                /\ x \notin awaited => \A i \in DOMAIN log[x] : log[x][i].ts <= t
    BY <1>1, <1>11, Times DEF FailedAt
  <1>12. CASE CancelBoth(x)
    <2>1. PICK t \in FailedAt(x) : /\ Transition(x, CancelStarted(run[x]), t)
                                   /\ atMs' = [atMs EXCEPT ![x] = t]
      BY <1>12 DEF CancelBoth
    <2>2. x \in runners /\ run[x].state # "unwinding" /\ UNCHANGED awaited
          /\ run[x].state \in CancellableStates
      BY <1>12 DEF CancelBoth, CancellableStates, FillStates, AckStates, PendingStates,
         AckedStates
    <2>3. CancelStarted(run[x]).state = "cancelling"
      BY <1>1, <2>2 DEF CancelStarted, Move, Execution
    <2>4. Needs("cancelling")
      BY DEF Needs, RequiredAction, PendingStates, AckedStates, HalfFilled, FinalizeStates
    <2>5. \A i \in DOMAIN log[x] : log[x][i].state # "unwinding"
      BY <1>9, <2>2
    <2>6. /\ t \in 0 .. MaxTime /\ t <= clock
          /\ x \notin awaited => \A i \in DOMAIN log[x] : log[x][i].ts <= t
      BY <1>11, <2>2
    <2>7. /\ atMs' \in [Ids -> 0 .. MaxTime] /\ atMs'[x] = t
          /\ \A y \in Ids \ {x} : atMs'[y] = atMs[y]
      BY <2>1, <2>6, Times
    <2> QED
      BY <1>2, <2>1, <2>2, <2>3, <2>4, <2>5, <2>6, <2>7, TransitionKeeps
  <1>13. CASE BothCancelled(x)
    <2>1. /\ Transition(x, Failed(run[x]), atMs[x]) /\ UNCHANGED <<atMs, awaited>>
          /\ x \in runners /\ run[x].state = "cancelling"
      BY <1>13 DEF BothCancelled
    <2>2. Failed(run[x]).state # "cancelling"
      BY <1>1 DEF Failed, Move, FailableStates, Execution
    <2>3. \A i \in DOMAIN log[x] : log[x][i].state # "unwinding"
      BY <1>9, <2>1
    <2>4. ~EndObserved(x) => x \notin awaited
      BY <2>3 DEF EndObserved
    <2>5. x \notin awaited => \A i \in DOMAIN log[x] : log[x][i].ts <= atMs[x]
      BY <2>1 DEF IInv, RecoveryIsLatest
    <2>6. atMs[x] \in 0 .. MaxTime /\ atMs[x] <= clock /\ atMs \in [Ids -> 0 .. MaxTime]
      BY Times
    <2> QED
      BY <1>2, <2>1, <2>2, <2>3, <2>4, <2>5, <2>6, TransitionKeeps
  <1>14. CASE RecoverLeg(x)
    <2>1. PICK t \in FailedAt(x), l \in Legs : Transition(x, PartialFill(Fill(run[x], l)), t)
      BY <1>14 DEF RecoverLeg
    <2>2. /\ x \in runners /\ run[x].state \in {"both_pending", "both_acked"}
          /\ UNCHANGED <<atMs, awaited>>
      BY <1>14 DEF RecoverLeg
    <2>3. PartialFill(Fill(run[x], l)).state # "cancelling"
      BY <1>1 DEF PartialFill, Fill, Move, Execution, Filled
    <2>4. \A i \in DOMAIN log[x] : log[x][i].state # "unwinding"
      BY <1>9, <2>2
    <2>5. /\ t \in 0 .. MaxTime /\ t <= clock
          /\ x \notin awaited => \A i \in DOMAIN log[x] : log[x][i].ts <= t
      BY <1>11, <2>2
    <2>6. ~EndObserved(x) => x \notin awaited
      BY <2>4 DEF EndObserved
    <2> QED
      BY <1>2, <2>1, <2>2, <2>3, <2>4, <2>5, <2>6, Times, TransitionKeeps
  <1>15. CASE StartUnwinding(x)
    <2>1. StartUnwind(run[x]).state # "cancelling"
      BY <1>1, <1>15 DEF StartUnwinding, StartUnwind, Move, Execution
    <2> QED
      BY <1>2, <1>4, <1>15, <2>1 DEF StartUnwinding
  <1>16. CASE Unwound(x)
    <2>1. PICK next \in {Complete(UnwindComplete(run[x])), Failed(run[x])} :
            Transition(x, next, clock)
      BY <1>16 DEF Unwound
    <2>2. x \in runners /\ run[x].state = "unwinding" /\ UNCHANGED <<atMs, awaited>>
      BY <1>16 DEF Unwound
    <2>3. next.state \in {"complete", "failed"} /\ next \in Execution
      BY <1>1, <1>2, <2>1, <2>2 DEF Complete, UnwindComplete, Failed, Move, Execution,
         FinalizeStates, FailableStates
    <2>4. ~Needs(next.state) /\ next.state # "cancelling"
      BY <2>3 DEF Needs, RequiredAction, PendingStates, AckedStates, HalfFilled, FinalizeStates
    <2> QED
      BY <1>4, <2>1, <2>2, <2>3, <2>4
  <1> QED
    BY <1>5, <1>6, <1>7, <1>8, <1>10, <1>12, <1>13, <1>14, <1>15, <1>16 DEF RunnerStep

\* The invariant holds in every reachable state.
LEMMA Invariant == Spec => []IInv
  <1>1. Init => IInv
    BY InvariantInit
  <1>2. IInv /\ [Next]_vars => IInv'
    <2> SUFFICES ASSUME IInv, [Next]_vars
                 PROVE  IInv'
      OBVIOUS
    <2> USE DEF NotAhead, TerminalLast, UnwindsToTheEnd, RecoveryIsLatest, EndsInOrder,
                ActiveBetween, EndObserved, Unfinished, Restored
    <2>1. CASE Tick
      <3>1. clock' = clock + 1 /\ clock \in Nat /\ clock' \in 0 .. MaxTime
        BY <2>1 DEF Tick, IInv, TypeOK
      <3>2. \A x \in Ids : atMs[x] \in Nat /\ \A i \in DOMAIN log[x] : log[x][i].ts \in Nat
        BY SnapshotNumbers DEF IInv, TypeOK
      <3>3. TypeOK'
        BY <2>1, <3>1 DEF Tick, IInv, TypeOK
      <3>4. NotAhead'
        BY <2>1, <3>1, <3>2 DEF Tick, IInv
      <3> QED
        BY <2>1, <3>3, <3>4 DEF Tick, IInv
    <2>2. CASE Crash
      <3>1. NewExecution \in Execution
        BY DEF NewExecution, Execution, States
      <3>2. TypeOK'
        <4>1. /\ active' = {} /\ runners' = {} /\ up' \in BOOLEAN
              /\ run' \in [Ids -> Execution]
          BY <2>2, <3>1 DEF Crash
        <4>2. atMs' \in [Ids -> 0 .. MaxTime]
          BY <2>2 DEF Crash
        <4>3. UNCHANGED <<clock, log, awaited>>
          BY <2>2 DEF Crash
        <4> QED
          BY <4>1, <4>2, <4>3 DEF IInv, TypeOK
      <3>3. NotAhead'
        BY <2>2 DEF Crash, IInv, TypeOK
      <3> QED
        BY <2>2, <3>2, <3>3 DEF Crash, IInv
    <2>3. CASE Restart
      <3>1. Unfinished \subseteq Restored
        BY UnfinishedIsRestored DEF IInv
      <3>2. Restored \subseteq Ids
        OBVIOUS
      <3>3. TypeOK'
        BY <2>3, <3>2 DEF Restart, IInv, TypeOK
      <3>4. ActiveBetween'
        BY <2>3, <3>1 DEF Restart
      <3> QED
        BY <2>3, <3>3, <3>4 DEF Restart, IInv
    <2>4. CASE \E x \in Ids : RunnerStep(x)
      BY <2>4, RunnerKeeps
    <2>5. CASE UNCHANGED vars
      BY <2>5 DEF vars, IInv, TypeOK
    <2> QED
      BY <2>1, <2>2, <2>3, <2>4, <2>5 DEF Next
  <1> QED
    BY <1>1, <1>2, PTL DEF Spec

\* Whatever crashes, and whatever times user events bring into the log: no unfinished
\* execution is missing in memory, and of those that have finished only some whose end
\* was observed can be active again.
THEOREM ActiveIsUnfinished == Spec => []ActiveMatchesLog
  <1>1. IInv => ActiveMatchesLog
    BY RestoredIsUnfinished DEF IInv, ActiveBetween, ActiveMatchesLog
  <1> QED
    BY <1>1, Invariant, PTL

\* A crash at any moment restores what was in memory, and beyond it at most executions
\* whose end was observed.
THEOREM CrashRestoresMemory == Spec => []CrashLosesNothing
  <1>1. IInv => CrashLosesNothing
    BY RestoredIsUnfinished DEF IInv, ActiveBetween, CrashLosesNothing
  <1> QED
    BY <1>1, Invariant, PTL
=============================================================================

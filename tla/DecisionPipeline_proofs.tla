------------------------ MODULE DecisionPipeline_proofs ------------------------
(***************************************************************************)
(* Proofs about the way from a market update to the orders, for any        *)
(* markets, jobs, books, policies, insights and any length of time.        *)
(*                                                                         *)
(* The cooldown: what is on its way was found no later than lastEvAt says, *)
(* and what is found now is a cooldown behind lastEvAt.  The velocity: what*)
(* is gone from the list of attempts is older than any window that ends    *)
(* now or later (PrunedPast), so a trade that starts finds its whole window*)
(* in the list, with whatever stale times the pairs of baskets have put    *)
(* between, and nothing enters an earlier window but those.                *)
(*                                                                         *)
(* The prices: the gates of a pair walk the levels of both books, the      *)
(* property adds up units.  That the two sums agree (SweepByUnits) is shown*)
(* by the least number of units that would not agree, and what is needed   *)
(* of sums by a smallest part of a set.  The sizes: the numbers that risk  *)
(* compares are whole (PairInv), so the smallest cap bounds the size, and  *)
(* the advisor moves it between the minimum order and that.                *)
(*                                                                         *)
(* The type of the state comes last.  That the portfolio never owes a      *)
(* market rests on the gates: what a leg costs is a best ask they have     *)
(* found above zero, or nothing at all for a refused opportunity.          *)
(***************************************************************************)
EXTENDS DecisionPipeline, FiniteSetTheorems, WellFoundedInduction, TLAPS
LOCAL INSTANCE FiniteSetsExt

-----------------------------------------------------------------------------
(* Records and types *)

PipelineTypes ==
    /\ policy \in Policies
    /\ now \in Times
    /\ lastEvAt \in [Markets -> Int]
    /\ DOMAIN jobs = Jobs
    /\ \A j \in Jobs :
         jobs[j] = [stage |-> jobs[j].stage, opp |-> jobs[j].opp, size |-> jobs[j].size]
    /\ DOMAIN window = {"attempts", "pruned", "orders", "fills", "delayed"}

\* What is on its way was found no later than its market's last opportunity.
FoundBefore ==
    /\ \A m \in Markets : lastEvAt[m] <= now
    /\ \A j \in Jobs :
         jobs[j].opp.type = "ev"
           => /\ jobs[j].opp.marketId \in Markets
              /\ jobs[j].opp.detectedAt \in Int
              /\ jobs[j].opp.detectedAt <= lastEvAt[jobs[j].opp.marketId]

\* What the velocity limit counts in the window that ends at t.
Sent(t) == {i \in DOMAIN window.attempts :
              /\ ~window.attempts[i].ofBasket
              /\ window.attempts[i].at \in t - policy.orderVelocityWindowMs .. t}

Entries == [at : Nat, ofBasket : BOOLEAN]

\* No attempt is of the future, and what is gone from the front is older than the window.
AttemptsKept ==
    /\ window.attempts \in Seq(Entries)
    /\ window.pruned \in 0 .. Len(window.attempts)
    /\ \A i \in 1 .. Len(window.attempts) : window.attempts[i].at <= now
    /\ \A i \in 1 .. window.pruned : window.attempts[i].at < now - policy.orderVelocityWindowMs
    /\ (policy.maxOrdersPerMinute > 0 /\ policy.orderVelocityWindowMs > 0)
         => \A t \in 0 .. now : Cardinality(Sent(t)) <= policy.maxOrdersPerMinute

\* An execution was started now or before, and only what is executing has come anywhere.
ProgressTyped(p) ==
    /\ {"phase", "nowMs"} \subseteq DOMAIN p
    /\ p.phase \in Phases /\ p.nowMs \in 0 .. now

ProgressKept ==
    /\ DOMAIN progress = Jobs
    /\ \A j \in Jobs : /\ ProgressTyped(progress[j])
                       /\ progress[j].phase # "none" => jobs[j].stage = "executing"

PipelineInv == PipelineTypes /\ FoundBefore /\ EvSpaced /\ AttemptsKept /\ ProgressKept

LEMMA PolicyNumbers ==
    ASSUME PipelineTypes
    PROVE  /\ policy.evCooldownMs \in Nat /\ policy.maxOrdersPerMinute \in Nat
           /\ policy.orderVelocityWindowMs \in Nat
           /\ now \in Nat /\ MaxTime \in Nat /\ now <= MaxTime
  BY PipelineAssumption DEF PipelineTypes, Times

-----------------------------------------------------------------------------
(* What is found *)

\* A scan of a pair finds nothing, a pair, or an EV opportunity on this market, now, when
\* the cooldown is over.
LEMMA ScanFinds ==
    ASSUME NEW m, NEW yes, NEW no
    PROVE  LET found == ScannedPair(m, yes, no)
           IN  \/ found = Nothing
               \/ found.type = "near_zero"
               \/ /\ found.type = "ev" /\ found.marketId = m /\ found.detectedAt = now
                  /\ ~CoolingDown(lastEvAt[m], policy, now)
  <1> DEFINE pair == NearZeroOpportunity(m, yes, no,
                       evaluateGatesWithFees(yes, no, policy, now, NoSize, Fee), policy, now)
             ev == EvOpportunity(m, yes, no, policy, Signal(getInsight(insights[m], now), policy),
                                 lastEvAt[m], now)
  <1>1. pair = Nothing \/ pair.type = "near_zero"
    BY DEF NearZeroOpportunity, Opportunity
  <1>2. \/ ev = Nothing
        \/ /\ ev.type = "ev" /\ ev.marketId = m /\ ev.detectedAt = now
           /\ ~CoolingDown(lastEvAt[m], policy, now)
    BY DEF EvOpportunity, BetterSide, EvOnSide, Opportunity
  <1>3. ScannedPair(m, yes, no) \in {Nothing, pair, ev}
    BY DEF ScannedPair, evaluateScannerPair, LargerEdge
  <1> HIDE DEF pair, ev
  <1> QED
    BY <1>1, <1>2, <1>3

-----------------------------------------------------------------------------
(* Jobs *)

JobsTyped ==
    /\ DOMAIN jobs = Jobs
    /\ \A j \in Jobs :
         jobs[j] = [stage |-> jobs[j].stage, opp |-> jobs[j].opp, size |-> jobs[j].size]

LEMMA PlacedJob ==
    ASSUME JobsTyped, NEW opp, Place(opp)
    PROVE  /\ JobsTyped'
           /\ \E j \in Jobs : /\ jobs'[j].opp = opp /\ jobs[j].stage = "idle"
                            /\ \A k \in Jobs \ {j} : jobs'[k] = jobs[k]
  <1> DEFINE job == [stage |-> "ordering", opp |-> opp, size |-> 0]
  <1>1. PICK j \in Jobs : jobs[j].stage = "idle" /\ jobs' = [jobs EXCEPT ![j] = job]
    BY DEF Place
  <1>2. job.opp = opp /\ job = [stage |-> job.stage, opp |-> job.opp, size |-> job.size]
    OBVIOUS
  <1> HIDE DEF job
  <1>3. jobs'[j] = job /\ \A k \in Jobs \ {j} : jobs'[k] = jobs[k]
    BY <1>1 DEF JobsTyped
  <1> QED
    BY <1>1, <1>2, <1>3 DEF JobsTyped

\* A job that goes on keeps what was found.
LEMMA AdvancedJob ==
    ASSUME JobsTyped, NEW j \in Jobs, NEW stage, NEW size, Advance(j, stage, size)
    PROVE  jobs' = [jobs EXCEPT ![j] = [stage |-> stage, opp |-> jobs[j].opp, size |-> size]]
  <1> DEFINE job == [stage |-> stage, opp |-> jobs[j].opp, size |-> size]
             mid == [jobs EXCEPT ![j].stage = stage]
  <1>1. jobs' = [mid EXCEPT ![j].size = size]
    BY DEF Advance, JobsTyped
  <1>2. mid = [jobs EXCEPT ![j] = [stage |-> stage, opp |-> jobs[j].opp, size |-> jobs[j].size]]
    <2>1. [jobs[j] EXCEPT !.stage = stage]
            = [stage |-> stage, opp |-> jobs[j].opp, size |-> jobs[j].size]
      <3> DEFINE o == jobs[j].opp
                 s == jobs[j].stage
                 z == jobs[j].size
      <3>1. jobs[j] = [stage |-> s, opp |-> o, size |-> z]
        BY DEF JobsTyped
      <3> HIDE DEF o, s, z
      <3>2. [jobs[j] EXCEPT !.stage = stage] = [stage |-> stage, opp |-> o, size |-> z]
        BY <3>1
      <3> QED
        BY <3>2 DEF o, z
    <2> QED
      BY <2>1 DEF JobsTyped
  <1>3. DOMAIN mid = Jobs /\ mid[j] = [stage |-> stage, opp |-> jobs[j].opp, size |-> jobs[j].size]
        /\ \A k \in Jobs \ {j} : mid[k] = jobs[k]
    BY <1>2 DEF JobsTyped
  <1> HIDE DEF mid
  <1>4. jobs' = [mid EXCEPT ![j] = [mid[j] EXCEPT !.size = size]]
    BY <1>1
  <1>5. [mid[j] EXCEPT !.size = size] = job
    BY <1>3
  <1>6. jobs' = [mid EXCEPT ![j] = job]
    <2> HIDE DEF job
    <2> QED
      BY <1>4, <1>5
  <1>7. jobs' = [jobs EXCEPT ![j] = job]
    <2> HIDE DEF job
    <2> QED
      BY <1>3, <1>6 DEF JobsTyped
  <1> QED
    BY <1>7

\* A job that is dropped has nothing found any more; one that goes on keeps what was found.
LEMMA MovedJob ==
    ASSUME JobsTyped, NEW j \in Jobs,
           \/ Drop(j)
           \/ \E stage \in Stages : \E size : Advance(j, stage, size)
    PROVE  /\ JobsTyped'
           /\ \A k \in Jobs : jobs'[k].opp = jobs[k].opp \/ jobs'[k].opp.type # "ev"
  <1>1. CASE Drop(j)
    <2>1. jobs' = [jobs EXCEPT ![j] = IdleJob]
      BY <1>1 DEF Drop
    <2>2. IdleJob.opp.type # "ev"
          /\ IdleJob = [stage |-> IdleJob.stage, opp |-> IdleJob.opp, size |-> IdleJob.size]
      BY DEF IdleJob, Nothing
    <2> QED
      BY <2>1, <2>2 DEF JobsTyped
  <1>2. ASSUME NEW stage \in Stages, NEW size, Advance(j, stage, size)
        PROVE  /\ JobsTyped'
               /\ \A k \in Jobs : jobs'[k].opp = jobs[k].opp
    <2> DEFINE job == [stage |-> stage, opp |-> jobs[j].opp, size |-> size]
    <2>1. jobs' = [jobs EXCEPT ![j] = job]
      BY <1>2, AdvancedJob
    <2>2. job.opp = jobs[j].opp /\ job = [stage |-> job.stage, opp |-> job.opp, size |-> job.size]
      OBVIOUS
    <2> HIDE DEF job
    <2> QED
      BY <2>1, <2>2 DEF JobsTyped
  <1> QED
    BY <1>1, <1>2

\* As long as no EV opportunity is added, they stay as they are, and apart.
LEMMA NoneAdded ==
    ASSUME PipelineInv, UNCHANGED <<policy, lastEvAt>>, now' \in Nat, now <= now',
           JobsTyped', \A k \in Jobs : jobs'[k].opp = jobs[k].opp \/ jobs'[k].opp.type # "ev"
    PROVE  FoundBefore' /\ EvSpaced'
  <1>1. now \in Nat /\ lastEvAt \in [Markets -> Int]
    BY PolicyNumbers DEF PipelineInv, PipelineTypes
  <1>2. FoundBefore'
    BY <1>1 DEF PipelineInv, FoundBefore
  <1>3. EvSpaced'
    BY DEF PipelineInv, EvSpaced
  <1> QED
    BY <1>2, <1>3

\* An opportunity that is found now is a cooldown behind those found before it.
LEMMA AddedApart ==
    ASSUME PipelineInv, UNCHANGED <<policy, now>>, NEW m \in Markets, NEW found,
           found.type = "ev", found.marketId = m, found.detectedAt = now,
           ~CoolingDown(lastEvAt[m], policy, now), Place(found),
           lastEvAt' = [lastEvAt EXCEPT ![m] = now]
    PROVE  FoundBefore' /\ EvSpaced'
  <1> DEFINE cooldown == policy.evCooldownMs
  <1>1. now \in Nat /\ cooldown \in Nat /\ lastEvAt \in [Markets -> Int]
    BY PolicyNumbers DEF PipelineInv, PipelineTypes
  <1>2. lastEvAt[m] \in Int /\ now - lastEvAt[m] >= cooldown
    <2>1. lastEvAt[m] <= now /\ lastEvAt[m] \in Int
      BY <1>1 DEF PipelineInv, FoundBefore
    <2> QED
      BY <1>1, <2>1 DEF CoolingDown
  <1>3. JobsTyped
    BY DEF PipelineInv, PipelineTypes, JobsTyped
  <1>4. PICK j \in Jobs : jobs'[j].opp = found /\ \A k \in Jobs \ {j} : jobs'[k] = jobs[k]
    BY <1>3, PlacedJob
  <1>5. /\ \A n \in Markets : lastEvAt'[n] = IF n = m THEN now ELSE lastEvAt[n]
        /\ \A n \in Markets : lastEvAt[n] <= lastEvAt'[n] /\ lastEvAt'[n] <= now
                              /\ lastEvAt'[n] \in Int
    <2>1. \A n \in Markets : lastEvAt'[n] = IF n = m THEN now ELSE lastEvAt[n]
      BY <1>1
    <2>2. \A n \in Markets : lastEvAt[n] <= now
      BY DEF PipelineInv, FoundBefore
    <2> QED
      BY <1>1, <2>1, <2>2
  <1>6. \A k \in Jobs \ {j} :
          jobs[k].opp.type = "ev" => /\ jobs[k].opp.marketId \in Markets
                                     /\ jobs[k].opp.detectedAt \in Int
                                     /\ jobs[k].opp.detectedAt <= lastEvAt[jobs[k].opp.marketId]
    BY DEF PipelineInv, FoundBefore
  <1>7. FoundBefore'
    BY <1>1, <1>4, <1>5, <1>6 DEF FoundBefore
  <1>8. ASSUME NEW i \in Jobs, NEW k \in Jobs, i # k,
               jobs'[i].opp.type = "ev", jobs'[k].opp.type = "ev",
               jobs'[i].opp.marketId = jobs'[k].opp.marketId,
               jobs'[i].opp.detectedAt <= jobs'[k].opp.detectedAt
        PROVE  jobs'[k].opp.detectedAt - jobs'[i].opp.detectedAt >= cooldown
    <2>1. CASE k = j
      <3>1. /\ jobs[i].opp.marketId = m /\ jobs[i].opp.type = "ev" /\ jobs'[i] = jobs[i]
            /\ jobs'[k].opp.detectedAt = now
        BY <1>4, <1>8, <2>1
      <3>2. jobs[i].opp.detectedAt \in Int /\ jobs[i].opp.detectedAt <= lastEvAt[m]
        BY <1>6, <1>8, <2>1, <3>1
      <3> HIDE DEF cooldown
      <3> QED
        BY <1>1, <1>2, <3>1, <3>2
    <2>2. CASE i = j
      <3>1. /\ jobs[k].opp.marketId = m /\ jobs[k].opp.type = "ev" /\ jobs'[k] = jobs[k]
            /\ jobs'[i].opp.detectedAt = now
        BY <1>4, <1>8, <2>2
      <3>2. jobs[k].opp.detectedAt \in Int /\ jobs[k].opp.detectedAt <= lastEvAt[m]
        BY <1>6, <1>8, <2>2, <3>1
      <3>3. now <= jobs[k].opp.detectedAt
        BY <1>8, <3>1
      <3> HIDE DEF cooldown
      <3> QED
        BY <1>1, <1>2, <3>1, <3>2, <3>3
    <2>3. CASE i # j /\ k # j
      <3>1. jobs'[i] = jobs[i] /\ jobs'[k] = jobs[k]
        BY <1>4, <2>3
      <3> QED
        BY <1>8, <3>1 DEF PipelineInv, EvSpaced
    <2> QED
      BY <2>1, <2>2, <2>3
  <1>9. EvSpaced'
    BY <1>8 DEF EvSpaced
  <1> QED
    BY <1>7, <1>9

-----------------------------------------------------------------------------
(* Progress *)

\* What is executing still is.
LEMMA ProgressStays ==
    ASSUME PipelineInv, UNCHANGED progress, now' \in Nat, now <= now',
           \A k \in Jobs : jobs[k].stage = "executing" => jobs'[k].stage = "executing"
    PROVE  ProgressKept'
  <1>1. now \in Nat
    BY DEF PipelineInv, PipelineTypes, Times
  <1>2. ASSUME NEW p, ProgressTyped(p)
        PROVE  ProgressTyped(p)'
    BY <1>1, <1>2 DEF ProgressTyped
  <1> QED
    BY <1>2 DEF PipelineInv, ProgressKept

LEMMA PlacedRunning ==
    ASSUME PipelineInv, UNCHANGED <<progress, now>>, NEW opp, Place(opp)
    PROVE  ProgressKept'
  <1>1. JobsTyped
    BY DEF PipelineInv, PipelineTypes, JobsTyped
  <1>2. PICK j \in Jobs : jobs[j].stage = "idle" /\ \A k \in Jobs \ {j} : jobs'[k] = jobs[k]
    BY <1>1, PlacedJob
  <1>3. \A k \in Jobs : jobs[k].stage = "executing" => jobs'[k].stage = "executing"
    BY <1>2
  <1>4. now' \in Nat /\ now <= now'
    BY DEF PipelineInv, PipelineTypes, Times
  <1> QED
    BY <1>3, <1>4, ProgressStays

\* An execution ends, or goes on from a time that is past.
LEMMA ExecutionMoves ==
    ASSUME PipelineInv, UNCHANGED now, NEW j \in Jobs,
           \/ End(j)
           \/ \E size, p : ProgressTyped(p) /\ Continue(j, size, p)
    PROVE  /\ JobsTyped' /\ ProgressKept'
           /\ \A k \in Jobs : jobs'[k].opp = jobs[k].opp \/ jobs'[k].opp.type # "ev"
  <1>1. JobsTyped /\ now \in Nat
    BY DEF PipelineInv, PipelineTypes, JobsTyped, Times
  <1>2. JobsTyped' /\ \A k \in Jobs : jobs'[k].opp = jobs[k].opp \/ jobs'[k].opp.type # "ev"
    <2>1. Drop(j) \/ \E stage \in Stages : \E size : Advance(j, stage, size)
      BY DEF End, Continue, Stages
    <2> QED
      BY <1>1, <2>1, MovedJob
  <1>4. ASSUME NEW job, NEW p, jobs' = [jobs EXCEPT ![j] = job],
               progress' = [progress EXCEPT ![j] = p],
               ProgressTyped(p), p.phase # "none" => job.stage = "executing"
        PROVE  ProgressKept'
    <2>1. /\ DOMAIN jobs = Jobs /\ DOMAIN progress = Jobs
          /\ \A k \in Jobs : /\ ProgressTyped(progress[k])
                             /\ progress[k].phase # "none" => jobs[k].stage = "executing"
      BY <1>1 DEF PipelineInv, ProgressKept, JobsTyped
    <2>2. /\ jobs'[j] = job /\ progress'[j] = p /\ DOMAIN progress' = Jobs
          /\ \A k \in Jobs \ {j} : jobs'[k] = jobs[k] /\ progress'[k] = progress[k]
      BY <1>4, <2>1
    <2>3. now' = now
      OBVIOUS
    <2>4. ASSUME NEW q, ProgressTyped(q)
          PROVE  /\ {"phase", "nowMs"} \subseteq DOMAIN q
                 /\ q.phase \in Phases /\ q.nowMs \in 0 .. now'
      BY <2>3, <2>4 DEF ProgressTyped
    <2>5. ASSUME NEW k \in Jobs
          PROVE  /\ {"phase", "nowMs"} \subseteq DOMAIN progress'[k]
                 /\ progress'[k].phase \in Phases /\ progress'[k].nowMs \in 0 .. now'
                 /\ progress'[k].phase # "none" => jobs'[k].stage = "executing"
      <3>1. CASE k = j
        BY <1>4, <2>2, <2>4, <3>1
      <3>2. CASE k # j
        BY <2>1, <2>2, <2>4, <3>2
      <3> QED
        BY <3>1, <3>2
    <2> QED
      BY <2>2, <2>5 DEF ProgressKept, ProgressTyped
  <1>5. CASE End(j)
    <2>1. jobs' = [jobs EXCEPT ![j] = IdleJob] /\ progress' = [progress EXCEPT ![j] = NoProgress]
      BY <1>5 DEF End, Drop
    <2>2. ProgressTyped(NoProgress) /\ NoProgress.phase = "none"
      BY <1>1 DEF ProgressTyped, NoProgress, Phases
    <2> QED
      BY <1>2, <1>4, <2>1, <2>2
  <1>6. ASSUME NEW size, NEW p, ProgressTyped(p), Continue(j, size, p)
        PROVE  ProgressKept'
    <2> DEFINE job == [stage |-> "executing", opp |-> jobs[j].opp, size |-> size]
    <2>1. jobs' = [jobs EXCEPT ![j] = job] /\ progress' = [progress EXCEPT ![j] = p]
      BY <1>1, <1>6, AdvancedJob DEF Continue
    <2>2. job.stage = "executing"
      OBVIOUS
    <2> HIDE DEF job
    <2> QED
      BY <1>4, <1>6, <2>1, <2>2
  <1> QED
    BY <1>2, <1>5, <1>6

-----------------------------------------------------------------------------
(* Attempts *)

\* Among the numbers of some checks there is a first one.
LEMMA FirstOfChecks ==
    ASSUME NEW K \in SUBSET Nat, K # {}
    PROVE  \E m \in K : \A k \in K : m <= k
  <1>1. PICK m \in K : \A k \in K : ~ (<<k, m>> \in OpToRel(<, Nat))
    BY NatLessThanWellFounded, WFMin
  <1>2. \A k \in K : ~ (k < m)
    BY <1>1 DEF OpToRel
  <1> QED
    BY <1>2

\* What passes the preflight leaves room for its orders.
LEMMA PreflightMakesRoom ==
    ASSUME NEW w, NEW opp, NEW yes, NEW no, NEW nowMs, Blocked(w, opp, yes, no, nowMs) = "none"
    PROVE  ~VelocityExceeded(opp, State(w, opp.marketId), policy, nowMs)
  <1> DEFINE s == State(w, opp.marketId)
             exceeded == VelocityExceeded(opp, s, policy, nowMs)
             c1 == ~s.tradingEnabled
             c2 == s.tradingMode # "live"
             c3 == RequiresUserChannel(opp, policy) /\ s.userChannel = "unconfigured"
             c4 == RequiresUserChannel(opp, policy) /\ s.userChannel # "connected"
             c5 == opp.type # "ev" /\ ~policy.rejectDelayed
             c6 == /\ policy.maxDecisionLatencyMs > 0
                   /\ nowMs - opp.detectedAt > policy.maxDecisionLatencyMs
             c7 == OrderToTradeExceeded(opp, s.orders, s.fills, policy, nowMs)
             c9 == DelayedAcksExceeded(s.orders, s.delayed, policy, nowMs)
             c10 == PriceMoved(opp, yes, no, policy)
             checks == <<<<"trading_disabled", c1>>, <<"mode_not_live", c2>>,
                         <<"user_channel_unconfigured", c3>>, <<"user_channel_disconnected", c4>>,
                         <<"throws", c5>>, <<"decision_latency_exceeded", c6>>,
                         <<"otr_exceeded", c7>>, <<"velocity_throttle", exceeded>>,
                         <<"delayed_ack_rate_exceeded", c9>>, <<"price_moved", c10>>>>
             failing == {i \in DOMAIN checks : checks[i][2]}
             first == CHOOSE i \in failing : \A j \in failing : i <= j
  <1>1. FirstFailing(checks) = "none"
    BY DEF Blocked, runExecutionPreflight
  <1> HIDE DEF c1, c2, c3, c4, c5, c6, c7, exceeded, c9, c10, s
  <1>2. DOMAIN checks = 1 .. 10 /\ \A i \in DOMAIN checks : checks[i][1] # "none"
    OBVIOUS
  <1>3. checks[8][2] = exceeded
    OBVIOUS
  <1>4. failing = {}
    <2> SUFFICES ASSUME failing # {}
                 PROVE  FALSE
      OBVIOUS
    <2>1. failing \in SUBSET Nat
      BY <1>2
    <2> HIDE DEF checks
    <2>2. first \in failing
      <3> HIDE DEF failing
      <3>1. \E m \in failing : \A k \in failing : m <= k
        BY <2>1, FirstOfChecks
      <3> QED
        BY <3>1
    <2>3. checks[first][1] = "none"
      BY <1>1 DEF FirstFailing
    <2> QED
      BY <1>2, <2>2, <2>3
  <1>5. ~exceeded
    BY <1>2, <1>3, <1>4
  <1> QED
    BY <1>5 DEF exceeded, s

LEMMA EntryTimes ==
    ASSUME NEW attempts \in Seq(Entries)
    PROVE  /\ Len(attempts) \in Nat /\ DOMAIN attempts = 1 .. Len(attempts)
           /\ \A i \in 1 .. Len(attempts) : attempts[i] \in Entries /\ attempts[i].at \in Nat
  <1>1. Len(attempts) \in Nat /\ DOMAIN attempts = 1 .. Len(attempts)
        /\ \A i \in 1 .. Len(attempts) : attempts[i] \in Entries
    OBVIOUS
  <1>2. \A e \in Entries : e.at \in Nat
    BY DEF Entries
  <1> QED
    BY <1>1, <1>2

\* What is dropped from the front of the list is older than the cutoff.
LEMMA PrunedPast ==
    ASSUME NEW attempts \in Seq(Entries),
           NEW pruned \in 0 .. Len(attempts), NEW cutoff \in Int
    PROVE  /\ PrunedTo(attempts, pruned, cutoff) \in pruned .. Len(attempts)
           /\ \A i \in pruned + 1 .. PrunedTo(attempts, pruned, cutoff) : attempts[i].at < cutoff
  <1> DEFINE kept == {i \in pruned + 1 .. Len(attempts) : attempts[i].at >= cutoff}
             to == PrunedTo(attempts, pruned, cutoff)
  <1>1. Len(attempts) \in Nat /\ \A i \in 1 .. Len(attempts) : attempts[i].at \in Nat
    BY EntryTimes
  <1>2. CASE kept = {}
    <2>1. to = Len(attempts)
      BY <1>2 DEF PrunedTo
    <2> QED
      BY <1>1, <1>2, <2>1
  <1>3. CASE kept # {}
    <2>1. to = Min(kept) - 1
      BY <1>3 DEF PrunedTo
    <2>2. kept \in SUBSET Nat
      BY <1>1
    <2>3. Min(kept) \in kept /\ \A i \in kept : Min(kept) <= i
      <3> HIDE DEF kept
      <3>1. \E m \in kept : \A k \in kept : m <= k
        BY <1>3, <2>2, FirstOfChecks
      <3> QED
        BY <3>1 DEF Min
    <2>4. to \in pruned .. Len(attempts)
      BY <1>1, <2>1, <2>3
    <2>5. ASSUME NEW i \in pruned + 1 .. to
          PROVE  attempts[i].at < cutoff
      <3>1. i \in pruned + 1 .. Len(attempts) /\ i < Min(kept)
        BY <1>1, <2>1, <2>2, <2>3, <2>4
      <3>2. i \notin kept
        BY <2>2, <2>3, <3>1
      <3> QED
        BY <1>1, <3>1, <3>2
    <2> QED
      BY <2>4, <2>5
  <1> QED
    BY <1>2, <1>3

\* A preflight at a time that is not of the future keeps all that a window can still count.
LEMMA PreflightPrunes ==
    ASSUME PipelineInv, NEW w, w.attempts = window.attempts, w.pruned = window.pruned,
           NEW m, NEW reason, NEW nowMs \in 0 .. now
    PROVE  LET after == PrunedAfter(reason, State(w, m), policy, nowMs)
           IN  /\ after \in window.pruned .. Len(window.attempts)
               /\ \A i \in 1 .. after :
                    window.attempts[i].at < now - policy.orderVelocityWindowMs
  <1> DEFINE after == PrunedAfter(reason, State(w, m), policy, nowMs)
             width == policy.orderVelocityWindowMs
             to == PrunedTo(window.attempts, window.pruned, nowMs - width)
  <1>1. width \in Nat /\ now \in Nat
    BY PolicyNumbers DEF PipelineInv
  <1>2. /\ window.attempts \in Seq(Entries)
        /\ window.pruned \in 0 .. Len(window.attempts)
        /\ \A i \in 1 .. window.pruned : window.attempts[i].at < now - width
    BY DEF PipelineInv, AttemptsKept
  <1>3. after \in {window.pruned, to}
    BY DEF PrunedAfter, State
  <1>4. to \in window.pruned .. Len(window.attempts)
        /\ \A i \in window.pruned + 1 .. to : window.attempts[i].at < nowMs - width
    <2> DEFINE attempts == window.attempts
               pruned == window.pruned
               cutoff == nowMs - width
    <2>1. /\ attempts \in Seq(Entries) /\ pruned \in 0 .. Len(attempts) /\ cutoff \in Int
          /\ to = PrunedTo(attempts, pruned, cutoff)
      BY <1>1, <1>2
    <2> HIDE DEF attempts, pruned, cutoff, to
    <2>2. to \in pruned .. Len(attempts) /\ \A i \in pruned + 1 .. to : attempts[i].at < cutoff
      BY <2>1, PrunedPast
    <2> QED
      BY <2>2 DEF attempts, pruned, cutoff
  <1> HIDE DEF to, after, width
  <1>5. ASSUME NEW i \in 1 .. to
        PROVE  window.attempts[i].at < now - width
    <2>1. CASE i \in 1 .. window.pruned
      BY <1>2, <2>1
    <2>2. CASE i \in window.pruned + 1 .. to
      <3>1. i \in 1 .. Len(window.attempts)
        BY <1>2, <1>4, <2>2
      <3>2. window.attempts[i].at \in Nat
        BY <1>2, <3>1, EntryTimes
      <3> QED
        BY <1>1, <1>4, <2>2, <3>2
    <2> QED
      BY <1>2, <1>4, <2>1, <2>2
  <1>6. after \in window.pruned .. Len(window.attempts)
        /\ \A i \in 1 .. after : window.attempts[i].at < now - width
    BY <1>2, <1>3, <1>4, <1>5
  <1> QED
    BY <1>6 DEF after, width

\* What a trade sends now is all in the list or new, and the preflight has made room for it;
\* what the pair of a basket sends counts in no window.
LEMMA AttemptedKeeps ==
    ASSUME PipelineInv, UNCHANGED <<policy, now>>,
           NEW w, w.attempts = window.attempts, w.pruned = window.pruned,
           DOMAIN w = DOMAIN window,
           NEW opp, NEW yes, NEW no, NEW nowMs \in 0 .. now, NEW ofBasket \in BOOLEAN,
           ofBasket \/ nowMs = now,
           window' = Attempted(w, opp, Blocked(w, opp, yes, no, nowMs), nowMs, ofBasket)
    PROVE  AttemptsKept' /\ DOMAIN window' = DOMAIN window
  <1> DEFINE reason == Blocked(w, opp, yes, no, nowMs)
             old == window.attempts
             after == PrunedAfter(reason, State(w, opp.marketId), policy, nowMs)
             n == IF reason = "none" THEN PlannedOrders(opp) ELSE 0
             entry == [at |-> nowMs, ofBasket |-> ofBasket]
             sent == [i \in 1 .. n |-> entry]
             width == policy.orderVelocityWindowMs
             max == policy.maxOrdersPerMinute
  <1>1. /\ now \in Nat /\ width \in Nat /\ max \in Nat
        /\ DOMAIN window = {"attempts", "pruned", "orders", "fills", "delayed"}
    BY PolicyNumbers DEF PipelineInv, PipelineTypes
  <1>2. /\ old \in Seq(Entries) /\ Len(old) \in Nat
        /\ window.pruned \in 0 .. Len(old)
        /\ \A i \in 1 .. Len(old) : old[i].at <= now /\ old[i].at \in Nat
    BY EntryTimes DEF PipelineInv, AttemptsKept
  <1>3. after \in window.pruned .. Len(old) /\ \A i \in 1 .. after : old[i].at < now - width
    BY PreflightPrunes
  <1>4. n \in 0 .. 2 /\ (n # 0 => reason = "none" /\ n = PlannedOrders(opp))
    BY DEF PlannedOrders
  <1>5. /\ DOMAIN window' = DOMAIN window /\ window'.attempts = old \o sent
        /\ window'.pruned = after
    <2> HIDE DEF reason, after, n
    <2> QED
      BY <1>1 DEF Attempted, reason, after, n
  <1>6. entry \in Entries /\ entry.at = nowMs /\ entry.ofBasket = ofBasket
    BY <1>1 DEF Entries
  <1> HIDE DEF reason, after, n, width, max, entry
  <1>7. sent \in Seq(Entries) /\ Len(sent) = n
        /\ \A i \in 1 .. n : sent[i] = entry
    BY <1>4, <1>6
  <1> HIDE DEF sent
  <1> DEFINE new == window'.attempts
  <1>8. /\ new \in Seq(Entries) /\ Len(new) = Len(old) + n
        /\ \A i \in 1 .. Len(old) : new[i] = old[i]
        /\ \A i \in Len(old) + 1 .. Len(old) + n : new[i] = entry
    BY <1>2, <1>4, <1>5, <1>7
  <1> HIDE DEF old, new
  <1>9. /\ DOMAIN new = 1 .. Len(old) + n /\ DOMAIN old = 1 .. Len(old)
        /\ \A i \in 1 .. Len(new) : new[i].at \in Nat
    BY <1>2, <1>8, EntryTimes
  <1>10. ASSUME NEW i \in 1 .. Len(new)
         PROVE  new[i].at <= now
    <2>1. CASE i \in 1 .. Len(old)
      BY <1>2, <1>8, <2>1
    <2>2. CASE i \in Len(old) + 1 .. Len(old) + n
      BY <1>6, <1>8, <2>2
    <2> QED
      BY <1>2, <1>4, <1>8, <2>1, <2>2
  <1>11. after \in 0 .. Len(new) /\ \A i \in 1 .. after : new[i].at < now - width
    <2>1. after \in 0 .. Len(old) /\ after \in 0 .. Len(new)
      BY <1>2, <1>3, <1>4, <1>8
    <2>2. \A i \in 1 .. after : i \in 1 .. Len(old) /\ old[i].at < now - width
      BY <1>2, <1>3, <2>1
    <2> QED
      BY <1>8, <2>1, <2>2
  <1>12. ASSUME max > 0, width > 0, NEW t \in 0 .. now
         PROVE  Cardinality(Sent(t)') <= max
    <2>1. /\ Sent(t) = {i \in DOMAIN old : ~old[i].ofBasket /\ old[i].at \in t - width .. t}
          /\ Sent(t)' = {i \in DOMAIN new : ~new[i].ofBasket /\ new[i].at \in t - width .. t}
      BY DEF Sent, old, new, width
    <2>2. CASE n = 0 \/ ofBasket \/ t # now
      <3>1. \A i \in Len(old) + 1 .. Len(old) + n : i \notin Sent(t)'
        BY <1>1, <1>2, <1>4, <1>6, <1>8, <2>1, <2>2
      <3>2. Sent(t)' = Sent(t)
        BY <1>2, <1>4, <1>8, <1>9, <2>1, <3>1
      <3>3. Cardinality(Sent(t)) <= max
        BY <1>12 DEF PipelineInv, AttemptsKept, max, width
      <3> QED
        BY <3>2, <3>3
    <2>3. CASE n # 0 /\ ~ofBasket /\ t = now
      <3>1. reason = "none" /\ n = PlannedOrders(opp) /\ nowMs = now
        BY <1>4, <2>3
      <3>2. ~VelocityExceeded(opp, State(w, opp.marketId), policy, nowMs)
        BY <3>1, PreflightMakesRoom DEF reason
      <3>3. after = PrunedTo(old, window.pruned, nowMs - width)
        <4>1. ~(max <= 0 \/ width <= 0)
          BY <1>1, <1>12
        <4>2. reason \notin BeforeVelocity
          BY <3>1 DEF BeforeVelocity
        <4>3. /\ State(w, opp.marketId).attempts = old
              /\ State(w, opp.marketId).pruned = window.pruned
          BY DEF State, old
        <4>4. ~(\/ reason \in BeforeVelocity
                \/ policy.maxOrdersPerMinute <= 0 \/ policy.orderVelocityWindowMs <= 0)
          BY <4>1, <4>2 DEF max, width
        <4> QED
          BY <4>3, <4>4 DEF after, PrunedAfter, width
      <3>4. OrderVelocity(old, window.pruned, width, nowMs) + n <= max
        <4>1. OrderVelocity(old, window.pruned, width, nowMs) = Len(old) - after
          BY <1>1, <1>12, <3>3 DEF OrderVelocity
        <4>2. ~(OrderVelocity(old, window.pruned, width, nowMs) + n > max)
          BY <1>12, <3>1, <3>2 DEF VelocityExceeded, State, old, width, max
        <4> QED
          BY <1>1, <1>2, <1>3, <1>4, <4>1, <4>2
      <3>5. Len(old) - after + n <= max
        BY <1>1, <1>12, <3>3, <3>4 DEF OrderVelocity
      <3>6. Sent(t)' \subseteq after + 1 .. Len(new)
        <4> SUFFICES ASSUME NEW i \in Sent(t)', i \in 1 .. after
                     PROVE  FALSE
          BY <1>2, <1>3, <1>4, <1>8, <1>9, <2>1
        <4>1. new[i].at < now - width /\ new[i].at \in now - width .. now
          BY <1>11, <2>1, <2>3
        <4> QED
          BY <1>1, <4>1
      <3>7. /\ IsFiniteSet(after + 1 .. Len(new))
            /\ Cardinality(after + 1 .. Len(new)) = Len(new) - after
        <4> DEFINE a == after + 1
                   b == Len(new)
        <4>1. a \in Int /\ b \in Int /\ after \in Int /\ after <= b
          BY <1>2, <1>3, <1>4, <1>8
        <4>2. a = after + 1 /\ b = Len(new)
          OBVIOUS
        <4> HIDE DEF a, b
        <4>3. IsFiniteSet(a .. b) /\ Cardinality(a .. b) = IF a > b THEN 0 ELSE b - a + 1
          BY <4>1, FS_Interval
        <4>4. Cardinality(a .. b) = b - after
          BY <4>1, <4>2, <4>3
        <4> QED
          BY <4>2, <4>3, <4>4
      <3>8. Cardinality(Sent(t)') <= Len(new) - after /\ Cardinality(Sent(t)') \in Nat
        BY <3>6, <3>7, FS_Subset, FS_CardinalityType
      <3> QED
        BY <1>1, <1>2, <1>3, <1>4, <1>8, <3>5, <3>8
    <2> QED
      BY <2>2, <2>3
  <1>13. AttemptsKept'
    BY <1>5, <1>8, <1>10, <1>11, <1>12 DEF AttemptsKept, new, width, max
  <1> QED
    BY <1>5, <1>13

LEMMA AttemptsStay ==
    ASSUME PipelineInv, UNCHANGED <<policy, now>>, window'.attempts = window.attempts,
           window'.pruned = window.pruned
    PROVE  AttemptsKept'
  BY DEF PipelineInv, AttemptsKept, Sent

\* As time goes by a window only loses entries.
LEMMA WindowMoves ==
    ASSUME PipelineInv, Tick
    PROVE  AttemptsKept'
  <1> DEFINE old == window.attempts
             width == policy.orderVelocityWindowMs
             max == policy.maxOrdersPerMinute
  <1>1. /\ now \in Nat /\ width \in Nat /\ max \in Nat
        /\ now' = now + 1 /\ UNCHANGED <<policy, window>>
    BY PolicyNumbers DEF PipelineInv, Tick
  <1>2. /\ old \in Seq(Entries) /\ Len(old) \in Nat
        /\ window.pruned \in 0 .. Len(old) /\ DOMAIN old = 1 .. Len(old)
        /\ \A i \in 1 .. Len(old) : old[i].at <= now /\ old[i].at \in Nat
        /\ \A i \in 1 .. window.pruned : old[i].at < now - width
    BY EntryTimes DEF PipelineInv, AttemptsKept
  <1> HIDE DEF old, width, max
  <1>3. /\ \A i \in 1 .. Len(old) : old[i].at <= now'
        /\ \A i \in 1 .. window.pruned : old[i].at < now' - width
    BY <1>1, <1>2
  <1>4. ASSUME max > 0, width > 0, NEW t \in 0 .. now + 1
        PROVE  Cardinality(Sent(t)) <= max
    <2>1. \A u \in 0 .. now : Cardinality(Sent(u)) <= max
      BY <1>4 DEF PipelineInv, AttemptsKept, width, max
    <2>2. CASE t = now + 1
      <3>1. Sent(t) \subseteq Sent(now)
        <4> SUFFICES ASSUME NEW i \in Sent(t)
                     PROVE  i \in Sent(now)
          OBVIOUS
        <4>1. i \in DOMAIN old /\ ~old[i].ofBasket /\ old[i].at \in t - width .. t
          BY DEF Sent, old, width
        <4>2. old[i].at \in now - width .. now
          BY <1>1, <1>2, <2>2, <4>1
        <4> QED
          BY <4>1, <4>2 DEF Sent, old, width
      <3>2. IsFiniteSet(Sent(now))
        <4>1. Sent(now) \subseteq 1 .. Len(old)
          BY <1>2 DEF Sent, old
        <4>2. IsFiniteSet(1 .. Len(old))
          BY <1>2, FS_Interval
        <4> QED
          BY <4>1, <4>2, FS_Subset
      <3>3. /\ Cardinality(Sent(t)) <= Cardinality(Sent(now)) /\ Cardinality(Sent(t)) \in Nat
            /\ Cardinality(Sent(now)) \in Nat
        BY <3>1, <3>2, FS_Subset, FS_CardinalityType
      <3> QED
        BY <1>1, <2>1, <3>3
    <2>3. CASE t # now + 1
      BY <1>1, <2>1, <2>3
    <2> QED
      BY <2>2, <2>3
  <1>5. \A t : Sent(t)' = Sent(t)
    BY <1>1 DEF Sent
  <1> QED
    BY <1>1, <1>2, <1>3, <1>4, <1>5 DEF AttemptsKept, PipelineInv, old, width, max

LEMMA FailBasketMoves ==
    ASSUME NEW j, NEW size, NEW p, ProgressTyped(p), FailBasket(j, size, p)
    PROVE  End(j) \/ \E q : ProgressTyped(q) /\ Continue(j, size, q)
  <1> DEFINE q == [p EXCEPT !.phase = "unwinding"]
  <1>1. ProgressTyped(q)
    BY DEF ProgressTyped, Phases
  <1>2. End(j) \/ Continue(j, size, q)
    BY DEF FailBasket
  <1> QED
    BY <1>1, <1>2

\* Whatever comes of the pairs of a basket: the basket ends or goes on, and at most what the
\* next pair attempts enters the list, at the time the basket was started with.
LEMMA TryPairKeeps ==
    ASSUME PipelineInv, UNCHANGED <<policy, now>>, NEW j \in Jobs, NEW size,
           NEW p, ProgressTyped(p),
           NEW w, w.attempts = window.attempts, w.pruned = window.pruned,
           DOMAIN w = DOMAIN window, TryPair(j, size, p, w)
    PROVE  /\ End(j) \/ \E q : ProgressTyped(q) /\ Continue(j, size, q)
           /\ AttemptsKept' /\ DOMAIN window' = DOMAIN window
  <1>1. CASE p.left = {}
    <2>1. End(j) /\ window' = w
      BY <1>1 DEF TryPair
    <2> QED
      BY <2>1, AttemptsStay
  <1>2. CASE p.left # {}
    <2> DEFINE Pair(leg) == PairOf(jobs[j].opp, leg)
               Reason(leg) == Blocked(w, Pair(leg), NoBook, NoBook, p.nowMs)
               On(leg) == [p EXCEPT !.phase = "pair", !.pair = leg, !.left = @ \ {leg}]
    <2>1. PICK leg \in p.left :
            /\ window' = Attempted(w, Pair(leg), Reason(leg), p.nowMs, TRUE)
            /\ IF Reason(leg) = "none" THEN Continue(j, size, On(leg)) ELSE FailBasket(j, size, p)
      BY <1>2 DEF TryPair
    <2>2. AttemptsKept' /\ DOMAIN window' = DOMAIN window
      <3>1. p.nowMs \in 0 .. now
        BY DEF ProgressTyped
      <3> DEFINE pair == Pair(leg)
      <3>2. window' = Attempted(w, pair, Blocked(w, pair, NoBook, NoBook, p.nowMs), p.nowMs, TRUE)
        BY <2>1
      <3> HIDE DEF pair
      <3> QED
        BY <3>1, <3>2, AttemptedKeeps
    <2>3. ProgressTyped(On(leg))
      BY DEF ProgressTyped, Phases
    <2>4. FailBasket(j, size, p) => End(j) \/ \E q : ProgressTyped(q) /\ Continue(j, size, q)
      BY FailBasketMoves
    <2> HIDE DEF On, Reason, Pair
    <2> QED
      BY <2>1, <2>2, <2>3, <2>4
  <1> QED
    BY <1>1, <1>2

-----------------------------------------------------------------------------
(* The steps *)

\* Where books, insights, mode and channel change, and nothing is found or started.
LEMMA SurroundingsKeep ==
    ASSUME PipelineInv,
           \/ \E m \in Markets, i \in Insights : Insight(m, i)
           \/ \E next \in TradingModes : SetMode(next)
           \/ \E next \in {"connected", "disconnected"} : Channel(next)
           \/ UNCHANGED vars
    PROVE  PipelineInv'
  <1>1. UNCHANGED <<policy, now, lastEvAt, jobs, progress, window>>
    BY DEF Insight, SetMode, Channel, vars
  <1>2. PipelineTypes' /\ FoundBefore' /\ EvSpaced'
    BY <1>1 DEF PipelineInv, PipelineTypes, FoundBefore, EvSpaced
  <1>3. AttemptsKept'
    BY <1>1, AttemptsStay
  <1>4. ProgressKept'
    BY <1>1 DEF PipelineInv, ProgressKept, ProgressTyped
  <1> QED
    BY <1>2, <1>3, <1>4 DEF PipelineInv

LEMMA TickKeeps ==
    ASSUME PipelineInv, Tick
    PROVE  PipelineInv'
  <1>1. /\ now \in Nat /\ now' = now + 1 /\ now' \in Times
        /\ UNCHANGED <<policy, lastEvAt, jobs, progress, window>>
    BY PolicyNumbers DEF Tick, PipelineInv, Times
  <1>2. PipelineTypes' /\ JobsTyped'
    BY <1>1 DEF PipelineInv, PipelineTypes, JobsTyped
  <1>3. FoundBefore' /\ EvSpaced'
    <2>1. now' \in Nat /\ now <= now'
      BY <1>1
    <2> QED
      BY <1>1, <1>2, <2>1, NoneAdded
  <1>4. AttemptsKept'
    BY WindowMoves
  <1>5. ProgressKept'
    <2>1. now' \in Nat /\ now <= now'
      BY <1>1
    <2> QED
      BY <1>1, <2>1, ProgressStays
  <1> QED
    BY <1>2, <1>3, <1>4, <1>5 DEF PipelineInv

\* A step at one moment of one policy, that adds nothing found by EV.
LEMMA PlainStep ==
    ASSUME PipelineInv, UNCHANGED <<policy, now, lastEvAt>>, JobsTyped',
           \A k \in Jobs : jobs'[k].opp = jobs[k].opp \/ jobs'[k].opp.type # "ev",
           DOMAIN window' = DOMAIN window, AttemptsKept', ProgressKept'
    PROVE  PipelineInv'
  <1>1. PipelineTypes'
    BY DEF PipelineInv, PipelineTypes, JobsTyped
  <1>2. now' \in Nat /\ now <= now'
    BY PolicyNumbers DEF PipelineInv
  <1>3. FoundBefore' /\ EvSpaced'
    BY <1>2, NoneAdded
  <1> QED
    BY <1>1, <1>3 DEF PipelineInv

LEMMA UpdateKeeps ==
    ASSUME PipelineInv, NEW m \in Markets, NEW side \in {"yes", "no"}, NEW raw \in Snapshots,
           MarketUpdated(m, side, raw)
    PROVE  PipelineInv'
  <1> DEFINE yes == books'[<<m, "yes">>]
             no == books'[<<m, "no">>]
             found == ScannedPair(m, yes, no)
  <1>1. Announce(m, found) /\ UNCHANGED <<policy, now, progress, window>>
    BY DEF MarketUpdated
  <1>2. \/ found = Nothing
        \/ found.type = "near_zero"
        \/ /\ found.type = "ev" /\ found.marketId = m /\ found.detectedAt = now
           /\ ~CoolingDown(lastEvAt[m], policy, now)
    <2>1. \A y, n : LET f == ScannedPair(m, y, n)
                    IN  \/ f = Nothing
                        \/ f.type = "near_zero"
                        \/ /\ f.type = "ev" /\ f.marketId = m /\ f.detectedAt = now
                           /\ ~CoolingDown(lastEvAt[m], policy, now)
      BY ScanFinds
    <2> HIDE DEF yes, no
    <2> QED
      BY <2>1
  <1> HIDE DEF found
  <1>3. JobsTyped
    BY DEF PipelineInv, PipelineTypes, JobsTyped
  <1>4. AttemptsKept' /\ DOMAIN window' = DOMAIN window
    BY <1>1, AttemptsStay
  <1>5. CASE found = Nothing
    <2>1. found.type # "ev" /\ UNCHANGED <<jobs, lastEvAt>>
      BY <1>1, <1>5 DEF Announce, Nothing
    <2>2. now' \in Nat /\ now <= now'
      BY <1>1, PolicyNumbers DEF PipelineInv
    <2>3. ProgressKept'
      BY <1>1, <2>1, <2>2, ProgressStays
    <2> QED
      BY <1>1, <1>3, <1>4, <2>1, <2>3, PlainStep DEF JobsTyped
  <1>6. CASE found # Nothing /\ found.type = "near_zero"
    <2>1. Place(found) /\ UNCHANGED lastEvAt
      BY <1>1, <1>6 DEF Announce
    <2>2. JobsTyped' /\ \A k \in Jobs : jobs'[k].opp = jobs[k].opp \/ jobs'[k].opp.type # "ev"
      BY <1>3, <1>6, <2>1, PlacedJob
    <2> QED
      BY <1>1, <1>4, <2>1, <2>2, PlacedRunning, PlainStep
  <1>7. CASE found # Nothing /\ found.type = "ev"
    <2>1. Place(found) /\ lastEvAt' = [lastEvAt EXCEPT ![m] = now]
      BY <1>1, <1>7 DEF Announce
    <2>2. JobsTyped'
      BY <1>3, <2>1, PlacedJob
    <2>3. FoundBefore' /\ EvSpaced'
      BY <1>1, <1>2, <1>7, <2>1, AddedApart
    <2>4. now \in Int
      BY PolicyNumbers DEF PipelineInv
    <2>5. PipelineTypes'
      BY <1>1, <1>4, <2>1, <2>2, <2>4 DEF PipelineInv, PipelineTypes, JobsTyped
    <2> QED
      BY <1>1, <1>4, <2>1, <2>3, <2>5, PlacedRunning DEF PipelineInv
  <1> QED
    BY <1>2, <1>5, <1>6, <1>7

\* The projection announces no EV opportunity.
LEMMA ProjectionsKeep ==
    ASSUME PipelineInv,
           \/ \E m \in Markets, p \in Projections : FwScan(m, p)
           \/ \E members \in SUBSET Markets, p \in Projections : FwBasketScan(members, p)
    PROVE  PipelineInv'
  <1>1. UNCHANGED <<policy, now, lastEvAt, progress, window>>
    BY DEF FwScan, FwBasketScan
  <1>2. \E opp : opp.type # "ev" /\ Place(opp)
    <2>1. ASSUME NEW m \in Markets, NEW p \in Projections, FwScan(m, p)
          PROVE  \E opp : opp.type # "ev" /\ Place(opp)
      BY <2>1 DEF FwScan, Opportunity
    <2>2. ASSUME NEW members \in SUBSET Markets, NEW p \in Projections, FwBasketScan(members, p)
          PROVE  \E opp : opp.type # "ev" /\ Place(opp)
      BY <2>2 DEF FwBasketScan, Opportunity
    <2> QED
      BY <2>1, <2>2
  <1>3. JobsTyped
    BY DEF PipelineInv, PipelineTypes, JobsTyped
  <1>4. JobsTyped' /\ \A k \in Jobs : jobs'[k].opp = jobs[k].opp \/ jobs'[k].opp.type # "ev"
    BY <1>2, <1>3, PlacedJob
  <1>5. AttemptsKept' /\ DOMAIN window' = DOMAIN window
    BY <1>1, AttemptsStay
  <1>6. ProgressKept'
    BY <1>1, <1>2, PlacedRunning
  <1> QED
    BY <1>1, <1>4, <1>5, <1>6, PlainStep

LEMMA OrderedKeeps ==
    ASSUME PipelineInv, NEW j \in Jobs, Ordered(j)
    PROVE  PipelineInv'
  <1>1. UNCHANGED <<policy, now, lastEvAt, progress, window>>
        /\ jobs[j].stage = "ordering"
    BY DEF Ordered
  <1>2. \/ Drop(j)
        \/ \E size : Advance(j, "sizing", size)
    BY DEF Ordered
  <1>3. JobsTyped
    BY DEF PipelineInv, PipelineTypes, JobsTyped
  <1>4. JobsTyped' /\ \A k \in Jobs : jobs'[k].opp = jobs[k].opp \/ jobs'[k].opp.type # "ev"
    BY <1>2, <1>3, MovedJob DEF Stages
  <1>5. AttemptsKept'
    BY <1>1, AttemptsStay
  <1>6. ProgressKept'
    <2>1. ASSUME NEW size, Advance(j, "sizing", size)
          PROVE  \A k \in Jobs \ {j} : jobs'[k] = jobs[k]
      BY <1>3, <2>1, AdvancedJob DEF JobsTyped
    <2>2. Drop(j) => \A k \in Jobs \ {j} : jobs'[k] = jobs[k]
      BY <1>3 DEF Drop, JobsTyped
    <2>3. \A k \in Jobs : jobs[k].stage = "executing" => jobs'[k].stage = "executing"
      BY <1>1, <1>2, <2>1, <2>2
    <2>4. now' \in Nat /\ now <= now'
      BY <1>1, PolicyNumbers DEF PipelineInv
    <2> QED
      BY <1>1, <2>3, <2>4, ProgressStays
  <1> QED
    BY <1>1, <1>4, <1>5, <1>6, PlainStep

\* A step of an execution: it ends or goes on, and the list is as it should be.
LEMMA ExecutionStep ==
    ASSUME PipelineInv, NEW j \in Jobs, UNCHANGED <<policy, now, lastEvAt>>,
           End(j) \/ \E size, p : ProgressTyped(p) /\ Continue(j, size, p),
           AttemptsKept', DOMAIN window' = DOMAIN window
    PROVE  PipelineInv'
  BY ExecutionMoves, PlainStep

\* What starts now has come nowhere yet.
LEMMA StartedTyped ==
    ASSUME PipelineInv, NEW phase \in Phases, NEW legs
    PROVE  ProgressTyped(Started(phase)) /\ ProgressTyped([Started(phase) EXCEPT !.left = legs])
  <1>1. now \in Nat
    BY PolicyNumbers DEF PipelineInv
  <1>2. NoProgress = [phase |-> "none", nowMs |-> 0, pair |-> Nothing, left |-> {}, traded |-> {}]
    BY DEF NoProgress
  <1>3. /\ DOMAIN Started(phase) = DOMAIN NoProgress
        /\ Started(phase).phase = phase /\ Started(phase).nowMs = now
    BY <1>2 DEF Started
  <1> QED
    BY <1>1, <1>2, <1>3 DEF ProgressTyped

LEMMA ApproveKeeps ==
    ASSUME PipelineInv, NEW j \in Jobs, NEW r, Approve(j, r)
    PROVE  PipelineInv'
  <1> DEFINE size == AdvisedSize(jobs[j].opp, jobs[j].size, r)
             opp == jobs[j].opp
  <1>1. UNCHANGED <<policy, now, lastEvAt>>
    BY DEF Approve
  <1>2. \/ End(j) /\ UNCHANGED window
        \/ StartBasket(j, size)
        \/ StartTrade(j, size)
    BY DEF Approve
  <1> HIDE DEF size
  <1>4. CASE End(j) /\ UNCHANGED window
    BY <1>1, <1>4, AttemptsStay, ExecutionStep
  <1>5. CASE StartBasket(j, size)
    <2> DEFINE p == [Started("batch") EXCEPT !.left = opp.legs]
    <2>1. ProgressTyped(p)
      BY StartedTyped DEF Phases
    <2>2. \/ End(j) /\ UNCHANGED window
          \/ Continue(j, size, p) /\ UNCHANGED window
          \/ TryPair(j, size, p, window)
      BY <1>5 DEF StartBasket
    <2> HIDE DEF p
    <2>3. CASE UNCHANGED window /\ (End(j) \/ Continue(j, size, p))
      BY <1>1, <2>1, <2>3, AttemptsStay, ExecutionStep
    <2>4. CASE TryPair(j, size, p, window)
      <3>1. /\ End(j) \/ \E q : ProgressTyped(q) /\ Continue(j, size, q)
            /\ AttemptsKept' /\ DOMAIN window' = DOMAIN window
        BY <1>1, <2>1, <2>4, TryPairKeeps
      <3> QED
        BY <1>1, <3>1, ExecutionStep
    <2> QED
      BY <2>2, <2>3, <2>4
  <1>6. CASE StartTrade(j, size)
    <2> DEFINE yes == Yes(opp.marketId)
               no == No(opp.marketId)
    <2>1. /\ window' = Attempted(window, opp, Blocked(window, opp, yes, no, now), now, FALSE)
          /\ End(j) \/ Continue(j, size, Started("trade"))
      BY <1>6 DEF StartTrade
    <2>2. now \in 0 .. now
      BY PolicyNumbers DEF PipelineInv
    <2> HIDE DEF yes, no, opp
    <2>3. AttemptsKept' /\ DOMAIN window' = DOMAIN window
      BY <1>1, <2>1, <2>2, AttemptedKeeps
    <2>4. ProgressTyped(Started("trade"))
      BY StartedTyped DEF Phases
    <2> QED
      BY <1>1, <2>1, <2>3, <2>4, ExecutionStep
  <1> QED
    BY <1>2, <1>4, <1>5, <1>6

\* The counters of fills and delays are beside the list of attempts.
LEMMA AnsweredKeeps ==
    ASSUME PipelineInv, NEW opp, NEW outcome, NEW nowMs, NEW at, NEW n
    PROVE  LET w == Answered(window, opp, outcome, nowMs, at, n)
           IN  /\ w.attempts = window.attempts /\ w.pruned = window.pruned
               /\ DOMAIN w = DOMAIN window
  <1>1. DOMAIN window = {"attempts", "pruned", "orders", "fills", "delayed"}
    BY DEF PipelineInv, PipelineTypes
  <1> QED
    BY <1>1 DEF Answered

LEMMA AnswersKeep ==
    ASSUME PipelineInv, NEW j \in Jobs, NEW outcome, NEW at, NEW n,
           Finish(j, outcome, at, n) \/ PairEnds(j, outcome, at, n)
    PROVE  PipelineInv'
  <1>1. UNCHANGED <<policy, now, lastEvAt>>
    BY DEF Finish, PairEnds
  <1> DEFINE p == progress[j]
             Counters(opp) == Answered(window, opp, outcome, p.nowMs, at, n)
  <1>2. ProgressTyped(p)
    BY DEF PipelineInv, ProgressKept
  <1>3. \A opp : /\ Counters(opp).attempts = window.attempts
                 /\ Counters(opp).pruned = window.pruned
                 /\ DOMAIN Counters(opp) = DOMAIN window
    BY AnsweredKeeps
  <1> HIDE DEF Counters
  <1>4. CASE Finish(j, outcome, at, n)
    <2>1. End(j) /\ window' = Counters(jobs[j].opp)
      BY <1>4 DEF Finish, Counters
    <2> QED
      BY <1>1, <1>3, <2>1, AttemptsStay, ExecutionStep
  <1>5. CASE PairEnds(j, outcome, at, n)
    <2> DEFINE w == Counters(PairOf(jobs[j].opp, p.pair))
               q == [p EXCEPT !.traded = @ \cup {p.pair}]
    <2>1. \/ TryPair(j, jobs[j].size, q, w)
          \/ FailBasket(j, jobs[j].size, p) /\ window' = w
      BY <1>5 DEF PairEnds, Counters
    <2>2. ProgressTyped(q)
      BY <1>2 DEF ProgressTyped
    <2>3. /\ w.attempts = window.attempts /\ w.pruned = window.pruned
          /\ DOMAIN w = DOMAIN window
      BY <1>3
    <2> HIDE DEF w, p, q
    <2>4. CASE TryPair(j, jobs[j].size, q, w)
      <3>1. /\ End(j) \/ \E r : ProgressTyped(r) /\ Continue(j, jobs[j].size, r)
            /\ AttemptsKept' /\ DOMAIN window' = DOMAIN window
        BY <1>1, <2>2, <2>3, <2>4, TryPairKeeps
      <3> QED
        BY <1>1, <3>1, ExecutionStep
    <2>5. CASE FailBasket(j, jobs[j].size, p) /\ window' = w
      <3>1. End(j) \/ \E r : ProgressTyped(r) /\ Continue(j, jobs[j].size, r)
        BY <1>2, <2>5, FailBasketMoves
      <3> QED
        BY <1>1, <2>3, <2>5, <3>1, AttemptsStay, ExecutionStep
    <2> QED
      BY <2>1, <2>4, <2>5
  <1> QED
    BY <1>4, <1>5

LEMMA BasketsKeep ==
    ASSUME PipelineInv, NEW j \in Jobs,
           BatchRefused(j) \/ \E held : BatchEnds(j, held) \/ Unwound(j, held)
    PROVE  PipelineInv'
  <1>1. UNCHANGED <<policy, now, lastEvAt>>
    BY DEF BatchRefused, BatchEnds, Unwound
  <1>2. CASE \E held : BatchEnds(j, held) \/ Unwound(j, held)
    <2>1. End(j) /\ UNCHANGED window
      BY <1>2 DEF BatchEnds, Unwound
    <2> QED
      BY <1>1, <2>1, AttemptsStay, ExecutionStep
  <1>3. CASE BatchRefused(j)
    <2>1. TryPair(j, jobs[j].size, progress[j], window) /\ ProgressTyped(progress[j])
      BY <1>3 DEF BatchRefused, PipelineInv, ProgressKept
    <2>2. /\ End(j) \/ \E q : ProgressTyped(q) /\ Continue(j, jobs[j].size, q)
          /\ AttemptsKept' /\ DOMAIN window' = DOMAIN window
      BY <1>1, <2>1, TryPairKeeps
    <2> QED
      BY <1>1, <2>2, ExecutionStep
  <1> QED
    BY <1>2, <1>3

-----------------------------------------------------------------------------
(* The invariant *)

LEMMA PipelineInitial == Init => PipelineInv
  <1> SUFFICES ASSUME Init
               PROVE  PipelineInv
    OBVIOUS
  <1>1. policy \in Policies /\ now = 0 /\ policy.evCooldownMs \in Nat /\ MaxTime \in Nat
    BY PipelineAssumption DEF Init, StartsWith
  <1>2. lastEvAt = [m \in Markets |-> - policy.evCooldownMs] /\ jobs = [j \in Jobs |-> IdleJob]
        /\ progress = [j \in Jobs |-> NoProgress]
    BY DEF Init, StartsWith
  <1>3. /\ DOMAIN window = {"attempts", "pruned", "orders", "fills", "delayed"}
        /\ window.attempts = <<>> /\ window.pruned = 0
    BY DEF Init, StartsWith
  <1>4. IdleJob = [stage |-> IdleJob.stage, opp |-> IdleJob.opp, size |-> IdleJob.size]
        /\ IdleJob.opp.type # "ev"
    BY DEF IdleJob, Nothing
  <1>5. PipelineTypes
    BY <1>1, <1>2, <1>3, <1>4 DEF PipelineTypes, Times
  <1>6. FoundBefore /\ EvSpaced
    BY <1>1, <1>2, <1>4 DEF FoundBefore, EvSpaced
  <1>7. AttemptsKept
    <2>1. \A t : Sent(t) = {}
      BY <1>3 DEF Sent
    <2>2. policy.maxOrdersPerMinute \in Nat
      BY <1>5, PolicyNumbers
    <2>3. \A t : Cardinality(Sent(t)) = 0
      BY <2>1, FS_EmptySet
    <2>4. /\ window.attempts \in Seq(Entries)
          /\ Len(window.attempts) = 0
      BY <1>3
    <2> QED
      BY <1>3, <2>2, <2>3, <2>4 DEF AttemptsKept
  <1>8. ProgressKept
    <2>1. ProgressTyped(NoProgress) /\ NoProgress.phase = "none"
      BY <1>1 DEF ProgressTyped, NoProgress, Phases
    <2> QED
      BY <1>2, <2>1 DEF ProgressKept
  <1> QED
    BY <1>5, <1>6, <1>7, <1>8 DEF PipelineInv

LEMMA PipelineStep == PipelineInv /\ [Next]_vars => PipelineInv'
  BY SurroundingsKeep, TickKeeps, UpdateKeeps, ProjectionsKeep, OrderedKeeps, ApproveKeeps,
     AnswersKeep, BasketsKeep DEF Next

LEMMA PipelineInvariant == Spec => []PipelineInv
  <1>1. PipelineInv /\ [Next]_vars => PipelineInv'
    BY PipelineStep
  <1> QED
    BY <1>1, PipelineInitial, PTL DEF Spec

\* Two EV opportunities of one market that are on their way together were found a cooldown
\* apart, however updates, decisions and executions interleave: lastEvAt is set before
\* anything is awaited.
THEOREM EvOpportunitiesSpaced == Spec => []EvSpaced
  <1>1. PipelineInv => EvSpaced
    BY DEF PipelineInv
  <1> QED
    BY <1>1, PipelineInvariant, PTL

\* What pairs and EV trades send within any window stays within the limit, for any number of
\* executions and whatever stale times the pairs of baskets have put into the list between:
\* the preflight and the counting are one turn, and nothing of the window is dropped.
THEOREM VelocityWithinLimit == Spec => []VelocityHeld
  <1>1. PipelineInv => VelocityHeld
    BY DEF PipelineInv, AttemptsKept, VelocityHeld, Sent
  <1> QED
    BY <1>1, PipelineInvariant, PTL

-----------------------------------------------------------------------------
(* Sums *)

\* Among some parts of a finite set there is one none of which can do without an element.
LEMMA SmallestPart ==
    ASSUME NEW S, IsFiniteSet(S), NEW B \in SUBSET SUBSET S, B # {}
    PROVE  \E T \in B : \A x \in T : T \ {x} \notin B
  <1> DEFINE K == {Cardinality(T) : T \in B}
  <1>1. \A T \in B : IsFiniteSet(T) /\ Cardinality(T) \in Nat
    BY FS_Subset, FS_CardinalityType
  <1>2. K \in SUBSET Nat /\ K # {}
    BY <1>1
  <1>3. PICK m \in K : \A k \in K : m <= k
    <2> HIDE DEF K
    <2> QED
      BY <1>2, FirstOfChecks
  <1>4. PICK T \in B : Cardinality(T) = m
    BY <1>3
  <1>5. ASSUME NEW x \in T, T \ {x} \in B
        PROVE  FALSE
    <2>1. Cardinality(T \ {x}) = Cardinality(T) - 1
      BY <1>1, FS_RemoveElement
    <2>2. m <= Cardinality(T \ {x}) /\ m \in Nat
      BY <1>1, <1>3, <1>4, <1>5
    <2> QED
      BY <1>4, <2>1, <2>2
  <1> QED
    BY <1>5

\* The element a sum takes first, and the recursion it is taken by.
Chosen(T) == CHOOSE x \in T : TRUE
Adds(g, f, S) ==
    \A T \in SUBSET S : g[T] = IF T = {} THEN 0 ELSE f[Chosen(T)] + g[T \ {Chosen(T)}]

AddsUp(g, f, S) ==
    g = [T \in SUBSET S |-> IF T = {} THEN 0 ELSE f[Chosen(T)] + g[T \ {Chosen(T)}]]

\* The sum is the value of one function that adds up.
LEMMA SumIs ==
    ASSUME NEW f, NEW S
    PROVE  SumFunctionOnSet(f, S)
             = (CHOOSE g : AddsUp(g, f, S))[S]
  BY DEF SumFunctionOnSet, FoldFunctionOnSet, MapThenFoldSet, Chosen, AddsUp

\* There is a function that adds up over all parts of a finite set.
LEMMA AdderExists ==
    ASSUME NEW f, NEW S, IsFiniteSet(S)
    PROVE  \E g : AddsUp(g, f, S)
  <1> DEFINE Small(n) == {T \in SUBSET S : Cardinality(T) <= n}
             AddsTo(n, g) == /\ g = [T \in SUBSET S |-> g[T]]
                             /\ \A T \in Small(n) :
                                  g[T] = IF T = {} THEN 0
                                         ELSE f[Chosen(T)] + g[T \ {Chosen(T)}]
             K == {n \in Nat : ~ \E g : AddsTo(n, g)}
  <1>1. \A T \in SUBSET S : IsFiniteSet(T) /\ Cardinality(T) \in Nat
    BY FS_Subset, FS_CardinalityType
  <1>2. \A T \in SUBSET S : T # {} => /\ Chosen(T) \in T /\ T \ {Chosen(T)} \in SUBSET S
                                      /\ Cardinality(T \ {Chosen(T)}) = Cardinality(T) - 1
    <2> TAKE T \in SUBSET S
    <2> HAVE T # {}
    <2>1. Chosen(T) \in T
      BY DEF Chosen
    <2> QED
      BY <1>1, <2>1, FS_RemoveElement
  <1>3. 0 \notin K
    <2> DEFINE g == [T \in SUBSET S |-> 0]
    <2>1. ASSUME NEW T \in Small(0)
          PROVE  T = {}
      <3>1. Cardinality(T) = 0 /\ IsFiniteSet(T)
        BY <1>1
      <3> QED
        BY <3>1, FS_EmptySet
    <2>2. AddsTo(0, g)
      BY <2>1
    <2> QED
      BY <2>2
  <1>4. ASSUME NEW n \in Nat, n + 1 \in K
        PROVE  n \in K
    <2> SUFFICES ASSUME NEW g, AddsTo(n, g)
                 PROVE  \E h : AddsTo(n + 1, h)
      BY <1>4
    <2> DEFINE h == [T \in SUBSET S |-> IF T = {} THEN 0
                                        ELSE f[Chosen(T)] + g[T \ {Chosen(T)}]]
    <2>1. \A T \in Small(n) : h[T] = g[T]
      OBVIOUS
    <2>2. \A T \in Small(n + 1) : T # {} => T \ {Chosen(T)} \in Small(n)
      BY <1>1, <1>2
    <2>3. \A T \in Small(n + 1) :
            h[T] = IF T = {} THEN 0 ELSE f[Chosen(T)] + h[T \ {Chosen(T)}]
      <3> TAKE T \in Small(n + 1)
      <3>1. CASE T = {}
        BY <3>1
      <3>2. CASE T # {}
        <4>1. h[T] = f[Chosen(T)] + g[T \ {Chosen(T)}]
          BY <3>2
        <4>2. h[T \ {Chosen(T)}] = g[T \ {Chosen(T)}]
          BY <2>1, <2>2, <3>2
        <4> HIDE DEF h
        <4> QED
          BY <3>2, <4>1, <4>2
      <3> QED
        BY <3>1, <3>2
    <2>4. h = [T \in SUBSET S |-> h[T]]
      OBVIOUS
    <2> HIDE DEF h
    <2> QED
      BY <2>3, <2>4
  <1> HIDE DEF K
  <1>5. K = {}
    <2> SUFFICES ASSUME K # {}
                 PROVE  FALSE
      OBVIOUS
    <2>1. K \in SUBSET Nat
      BY DEF K
    <2>2. PICK m \in K : \A k \in K : m <= k
      BY <2>1, FirstOfChecks
    <2>3. m # 0 /\ m \in Nat
      BY <1>3, <2>1, <2>2
    <2>4. m - 1 \in Nat /\ (m - 1) + 1 = m
      BY <2>3
    <2>5. m - 1 \in K
      BY <1>4, <2>2, <2>4
    <2> QED
      BY <2>2, <2>3, <2>5
  <1>6. PICK g : AddsTo(Cardinality(S), g)
    BY <1>1, <1>5 DEF K
  <1>7. \A T \in SUBSET S : T \in Small(Cardinality(S))
    BY FS_Subset
  <1>8. \A T \in SUBSET S :
          g[T] = IF T = {} THEN 0 ELSE f[Chosen(T)] + g[T \ {Chosen(T)}]
    BY <1>6, <1>7
  <1>9. [T \in SUBSET S |-> g[T]]
          = [T \in SUBSET S |-> IF T = {} THEN 0 ELSE f[Chosen(T)] + g[T \ {Chosen(T)}]]
    BY <1>8
  <1> QED
    BY <1>6, <1>9 DEF AddsUp

\* Whatever function adds up over the parts of a finite set, it has the sum of the set.
LEMMA SumUnique ==
    ASSUME NEW f, NEW S, IsFiniteSet(S), NEW g, Adds(g, f, S)
    PROVE  g[S] = SumFunctionOnSet(f, S)
  <1>1. PICK s : AddsUp(s, f, S) /\ s[S] = SumFunctionOnSet(f, S)
    BY SumIs, AdderExists
  <1>2. Adds(s, f, S)
    BY <1>1 DEF Adds, AddsUp
  <1> DEFINE B == {T \in SUBSET S : g[T] # s[T]}
  <1>3. ASSUME NEW T \in B, \A x \in T : T \ {x} \notin B
        PROVE  FALSE
    <2>1. T # {}
      BY <1>2, <1>3 DEF Adds
    <2>2. Chosen(T) \in T
      BY <2>1 DEF Chosen
    <2>3. g[T \ {Chosen(T)}] = s[T \ {Chosen(T)}]
      BY <1>3, <2>2
    <2> QED
      BY <1>2, <1>3, <2>1, <2>3 DEF Adds
  <1> HIDE DEF B
  <1>4. B = {}
    BY <1>3, SmallestPart DEF B
  <1> QED
    BY <1>1, <1>4 DEF B

\* The sum of nothing is 0; that of something takes one element and the sum of the others.
LEMMA SumStep ==
    ASSUME NEW f, NEW S, IsFiniteSet(S)
    PROVE  SumFunctionOnSet(f, S)
             = IF S = {} THEN 0 ELSE f[Chosen(S)] + SumFunctionOnSet(f, S \ {Chosen(S)})
  <1>1. PICK s : AddsUp(s, f, S) /\ s[S] = SumFunctionOnSet(f, S)
    BY SumIs, AdderExists
  <1>2. Adds(s, f, S) /\ s[S] = IF S = {} THEN 0 ELSE f[Chosen(S)] + s[S \ {Chosen(S)}]
    BY <1>1 DEF Adds, AddsUp
  <1>3. s[S \ {Chosen(S)}] = SumFunctionOnSet(f, S \ {Chosen(S)})
    <2>1. Adds(s, f, S \ {Chosen(S)})
      BY <1>2 DEF Adds
    <2> QED
      BY <2>1, SumUnique, FS_Subset
  <1> QED
    BY <1>1, <1>2, <1>3

\* Nothing adds up to 0.
LEMMA SumOfNone ==
    ASSUME NEW f
    PROVE  SumFunctionOnSet(f, {}) = 0
  BY SumStep, FS_EmptySet

\* Whole numbers add up to one.
LEMMA SumType ==
    ASSUME NEW f, NEW S, IsFiniteSet(S), \A x \in S : f[x] \in Int
    PROVE  SumFunctionOnSet(f, S) \in Int
  <1> DEFINE B == {T \in SUBSET S : SumFunctionOnSet(f, T) \notin Int}
  <1>1. ASSUME NEW T \in B, \A x \in T : T \ {x} \notin B
        PROVE  FALSE
    <2>1. IsFiniteSet(T) /\ T \in SUBSET S
      BY FS_Subset
    <2>2. T # {}
      BY <1>1, SumOfNone
    <2>3. Chosen(T) \in T /\ f[Chosen(T)] \in Int
      BY <2>1, <2>2 DEF Chosen
    <2>4. SumFunctionOnSet(f, T \ {Chosen(T)}) \in Int
      BY <1>1, <2>1, <2>3
    <2>5. SumFunctionOnSet(f, T) = f[Chosen(T)] + SumFunctionOnSet(f, T \ {Chosen(T)})
      BY <2>1, <2>2, SumStep
    <2> QED
      BY <1>1, <2>3, <2>4, <2>5
  <1> HIDE DEF B
  <1>2. B = {}
    BY <1>1, SmallestPart DEF B
  <1> QED
    BY <1>2 DEF B

\* Any element may be taken first.
LEMMA SumSplit ==
    ASSUME NEW f, NEW S, IsFiniteSet(S), \A x \in S : f[x] \in Int, NEW e \in S
    PROVE  SumFunctionOnSet(f, S) = f[e] + SumFunctionOnSet(f, S \ {e})
  <1> DEFINE Sum(T) == SumFunctionOnSet(f, T)
             B == {T \in SUBSET S : \E x \in T : Sum(T) # f[x] + Sum(T \ {x})}
  <1>1. ASSUME NEW T \in B, \A x \in T : T \ {x} \notin B
        PROVE  FALSE
    <2>1. T \in SUBSET S /\ IsFiniteSet(T)
      BY FS_Subset
    <2>2. PICK x \in T : Sum(T) # f[x] + Sum(T \ {x})
      BY <1>1
    <2> DEFINE c == Chosen(T)
               rest == (T \ {c}) \ {x}
    <2>3. c \in T
      BY <2>2 DEF Chosen
    <2>4. Sum(T) = f[c] + Sum(T \ {c})
      BY <2>1, <2>2, SumStep
    <2>5. x # c
      BY <2>2, <2>4
    <2>6. Sum(T \ {c}) = f[x] + Sum(rest)
      <3>1. T \ {c} \in SUBSET S /\ T \ {c} \notin B /\ x \in T \ {c}
        BY <1>1, <2>1, <2>2, <2>3, <2>5
      <3> HIDE DEF c
      <3> QED
        BY <3>1
    <2>7. Sum(T \ {x}) = f[c] + Sum(rest)
      <3>1. T \ {x} \in SUBSET S /\ T \ {x} \notin B /\ c \in T \ {x}
        BY <1>1, <2>1, <2>2, <2>3, <2>5
      <3> HIDE DEF c
      <3>2. (T \ {x}) \ {c} = rest
        OBVIOUS
      <3> HIDE DEF rest
      <3> QED
        BY <3>1, <3>2
    <2>8. f[x] \in Int /\ f[c] \in Int /\ Sum(rest) \in Int
      <3>1. IsFiniteSet(rest) /\ rest \subseteq S
        BY <2>1, FS_Subset
      <3> QED
        BY <2>1, <2>2, <2>3, <3>1, SumType
    <2> HIDE DEF c, rest, Sum
    <2> QED
      BY <2>2, <2>4, <2>6, <2>7, <2>8
  <1> HIDE DEF B
  <1>2. B = {}
    BY <1>1, SmallestPart DEF B
  <1> QED
    BY <1>2 DEF B

\* A sum depends on the values over its set only, and grows with them.
LEMMA SumGrows ==
    ASSUME NEW f, NEW g, NEW S, IsFiniteSet(S), \A x \in S : f[x] \in Int /\ g[x] \in Int,
           \A x \in S : f[x] <= g[x]
    PROVE  SumFunctionOnSet(f, S) <= SumFunctionOnSet(g, S)
  <1> DEFINE F(T) == SumFunctionOnSet(f, T)
             G(T) == SumFunctionOnSet(g, T)
             B == {T \in SUBSET S : ~(F(T) <= G(T))}
  <1>1. ASSUME NEW T \in B, \A x \in T : T \ {x} \notin B
        PROVE  FALSE
    <2> DEFINE c == Chosen(T)
               rest == T \ {c}
    <2>1. T \in SUBSET S /\ IsFiniteSet(T) /\ IsFiniteSet(rest) /\ rest \in SUBSET S
      BY FS_Subset
    <2>2. T # {}
      BY <1>1, SumOfNone
    <2>3. c \in T
      BY <2>2 DEF Chosen
    <2>4. F(T) = f[c] + F(rest) /\ G(T) = g[c] + G(rest)
      BY <2>1, <2>2, SumStep
    <2>5. F(rest) \in Int /\ G(rest) \in Int
      BY <2>1, SumType
    <2>6. F(rest) <= G(rest)
      BY <1>1, <2>1, <2>3
    <2>7. f[c] \in Int /\ g[c] \in Int /\ f[c] <= g[c]
      BY <2>1, <2>3
    <2>8. ~(F(T) <= G(T))
      BY <1>1
    <2> HIDE DEF c, rest, F, G
    <2> QED
      BY <2>4, <2>5, <2>6, <2>7, <2>8
  <1> HIDE DEF B
  <1>2. B = {}
    BY <1>1, SmallestPart DEF B
  <1> QED
    BY <1>2 DEF B

\* Two functions with the same values over a set have the same sum there.
LEMMA SumSame ==
    ASSUME NEW f, NEW g, NEW S, IsFiniteSet(S), \A x \in S : f[x] \in Int /\ f[x] = g[x]
    PROVE  SumFunctionOnSet(f, S) = SumFunctionOnSet(g, S)
  <1>1. /\ SumFunctionOnSet(f, S) <= SumFunctionOnSet(g, S)
        /\ SumFunctionOnSet(g, S) <= SumFunctionOnSet(f, S)
    BY SumGrows
  <1>2. SumFunctionOnSet(f, S) \in Int /\ SumFunctionOnSet(g, S) \in Int
    BY SumType
  <1> QED
    BY <1>1, <1>2

\* A sum of zeros is 0, one of naturals is natural and grows with its set.
LEMMA SumOfZeros ==
    ASSUME NEW f, NEW S, IsFiniteSet(S), \A x \in S : f[x] = 0
    PROVE  SumFunctionOnSet(f, S) = 0
  <1> DEFINE F(T) == SumFunctionOnSet(f, T)
             B == {T \in SUBSET S : F(T) # 0}
  <1>1. ASSUME NEW T \in B, \A x \in T : T \ {x} \notin B
        PROVE  FALSE
    <2>1. T \in SUBSET S /\ IsFiniteSet(T)
      BY FS_Subset
    <2>2. T # {}
      BY <1>1, SumOfNone
    <2>3. Chosen(T) \in T
      BY <2>2 DEF Chosen
    <2>4. F(T) = f[Chosen(T)] + F(T \ {Chosen(T)})
      BY <2>1, <2>2, SumStep
    <2>5. F(T \ {Chosen(T)}) = 0 /\ f[Chosen(T)] = 0
      BY <1>1, <2>1, <2>3
    <2> HIDE DEF F
    <2> QED
      BY <1>1, <2>4, <2>5
  <1> HIDE DEF B
  <1>2. B = {}
    BY <1>1, SmallestPart DEF B
  <1> QED
    BY <1>2 DEF B

\* A part of some naturals adds up to no more than all of them.
LEMMA SumOfPart ==
    ASSUME NEW f, NEW S, IsFiniteSet(S), \A x \in S : f[x] \in Nat, NEW U \in SUBSET S
    PROVE  SumFunctionOnSet(f, U) \in Nat /\ SumFunctionOnSet(f, U) <= SumFunctionOnSet(f, S)
  <1>1. \A T \in SUBSET S : SumFunctionOnSet(f, T) \in Nat
    <2> TAKE T \in SUBSET S
    <2> DEFINE zero == [x \in S |-> 0]
    <2>1. IsFiniteSet(T) /\ \A x \in T : f[x] \in Int /\ 0 <= f[x]
      BY FS_Subset
    <2>2. SumFunctionOnSet(zero, T) = 0
      BY <2>1, SumOfZeros
    <2>3. SumFunctionOnSet(zero, T) <= SumFunctionOnSet(f, T)
      BY <2>1, SumGrows
    <2>4. SumFunctionOnSet(f, T) \in Int
      BY <2>1, SumType
    <2> QED
      BY <2>2, <2>3, <2>4
  <1> DEFINE F(T) == SumFunctionOnSet(f, T)
             B == {T \in SUBSET S : U \subseteq T /\ ~(F(U) <= F(T))}
  <1>2. ASSUME NEW T \in B, \A x \in T : T \ {x} \notin B
        PROVE  FALSE
    <2>1. T # U
      BY <1>1, <1>2
    <2>2. PICK x \in T : x \notin U
      BY <1>2, <2>1
    <2>3. IsFiniteSet(T) /\ T \in SUBSET S /\ \A y \in T : f[y] \in Int
      BY FS_Subset
    <2>4. F(T) = f[x] + F(T \ {x})
      BY <2>3, SumSplit
    <2>5. F(U) <= F(T \ {x})
      BY <1>2, <2>2, <2>3
    <2>6. f[x] \in Nat /\ F(U) \in Nat /\ F(T \ {x}) \in Nat /\ ~(F(U) <= F(T))
      BY <1>1, <1>2, <2>3
    <2> HIDE DEF F
    <2> QED
      BY <2>4, <2>5, <2>6
  <1> HIDE DEF B
  <1>3. B = {}
    <2>1. B \in SUBSET SUBSET S
      BY DEF B
    <2> QED
      BY <1>2, <2>1, SmallestPart
  <1> QED
    BY <1>1, <1>3 DEF B

-----------------------------------------------------------------------------
\* What a function takes from a finite set is finite.
LEMMA FiniteImage ==
    ASSUME NEW S, IsFiniteSet(S), NEW f, f = [x \in S |-> f[x]]
    PROVE  IsFiniteSet({f[x] : x \in S})
  <1>1. f \in Surjection(S, {f[x] : x \in S})
    BY DEF Surjection
  <1> QED
    BY <1>1, FS_Surjection

\* A finite set of whole numbers has a least and a greatest one.
LEMMA LeastOfSome ==
    ASSUME NEW S, IsFiniteSet(S), S \subseteq Int, S # {}
    PROVE  Min(S) \in S /\ \A x \in S : Min(S) <= x
  <1> DEFINE B == {T \in SUBSET S : T # {} /\ ~ \E m \in T : \A x \in T : m <= x}
  <1>1. ASSUME NEW T \in B, \A x \in T : T \ {x} \notin B
        PROVE  FALSE
    <2>1. PICK y \in T : TRUE
      BY <1>1
    <2>2. CASE T \ {y} = {}
      BY <1>1, <2>1, <2>2
    <2>3. CASE T \ {y} # {}
      <3>1. PICK m \in T \ {y} : \A x \in T \ {y} : m <= x
        BY <1>1, <2>1, <2>3
      <3>2. m \in T /\ y \in T /\ m \in Int /\ y \in Int /\ \A x \in T : x \in Int
        BY <2>1, <3>1
      <3>3. \E k \in T : \A x \in T : k <= x
        <4>1. CASE m <= y
          BY <3>1, <3>2, <4>1
        <4>2. CASE ~(m <= y)
          BY <3>1, <3>2, <4>2
        <4> QED
          BY <4>1, <4>2
      <3> QED
        BY <1>1, <3>3
    <2> QED
      BY <2>2, <2>3
  <1> HIDE DEF B
  <1>2. B = {}
    <2>1. B \in SUBSET SUBSET S
      BY DEF B
    <2> QED
      BY <1>1, <2>1, SmallestPart
  <1>3. \E m \in S : \A x \in S : m <= x
    BY <1>2 DEF B
  <1> QED
    BY <1>3 DEF Min

\* So it is with the greatest: it is the least of the opposites.
LEMMA GreatestOfSome ==
    ASSUME NEW S, IsFiniteSet(S), S \subseteq Int, S # {}
    PROVE  Max(S) \in S /\ \A x \in S : x <= Max(S)
  <1> DEFINE negated == [x \in S |-> 0 - x]
             N == {negated[x] : x \in S}
  <1>1. IsFiniteSet(N)
    <2>1. negated = [x \in S |-> negated[x]]
      OBVIOUS
    <2> HIDE DEF negated
    <2> QED
      BY <2>1, FiniteImage
  <1>2. N \subseteq Int /\ N # {}
    <2>1. \A x \in S : negated[x] \in Int
      OBVIOUS
    <2> HIDE DEF negated
    <2> QED
      BY <2>1
  <1>3. Min(N) \in N /\ \A y \in N : Min(N) <= y
    <2> HIDE DEF N
    <2> QED
      BY <1>1, <1>2, LeastOfSome
  <1>4. PICK m \in S : Min(N) = 0 - m
    BY <1>3
  <1>5. \A x \in S : x <= m
    <2> TAKE x \in S
    <2>1. Min(N) <= 0 - x
      BY <1>3
    <2> HIDE DEF N
    <2> QED
      BY <1>4, <2>1
  <1> QED
    BY <1>5 DEF Max

-----------------------------------------------------------------------------
(* The levels of a book *)

LevelsTyped(asks) ==
    /\ IsFiniteSet(DOMAIN asks) /\ DOMAIN asks \subseteq Int
    /\ \A p \in DOMAIN asks : asks[p] \in Nat

Better(asks, p) == {q \in DOMAIN asks : q < p}
Offered(asks) == SumFunctionOnSet(asks, DOMAIN asks)

\* What is ahead of a level, and what the levels up to the best of some offer.
LEMMA AheadType ==
    ASSUME NEW asks, LevelsTyped(asks), NEW p \in DOMAIN asks
    PROVE  Ahead(asks, p) \in Nat /\ p \in Int /\ asks[p] \in Nat /\ Offered(asks) \in Nat
  <1>1. Better(asks, p) \in SUBSET DOMAIN asks
    BY DEF Better
  <1> QED
    BY <1>1, SumOfPart DEF LevelsTyped, Ahead, Better, Offered

\* What is ahead of a level, and the level itself, are within any levels that hold both.
LEMMA AheadOfNext ==
    ASSUME NEW asks, LevelsTyped(asks), NEW U \in SUBSET DOMAIN asks, NEW q \in U,
           \A p \in DOMAIN asks : p < q => p \in U
    PROVE  /\ Ahead(asks, q) + asks[q] <= SumFunctionOnSet(asks, U)
           /\ (\A p \in U : p <= q) => Ahead(asks, q) + asks[q] = SumFunctionOnSet(asks, U)
  <1>1. IsFiniteSet(U) /\ IsFiniteSet(U \ {q}) /\ \A x \in U : asks[x] \in Nat /\ x \in Int
    BY FS_Subset DEF LevelsTyped
  <1>2. SumFunctionOnSet(asks, U) = asks[q] + SumFunctionOnSet(asks, U \ {q})
    BY <1>1, SumSplit
  <1>3. Better(asks, q) \in SUBSET (U \ {q})
    BY <1>1 DEF Better
  <1>4. Ahead(asks, q) \in Nat /\ Ahead(asks, q) <= SumFunctionOnSet(asks, U \ {q})
    BY <1>1, <1>3, SumOfPart DEF Ahead, Better
  <1>5. SumFunctionOnSet(asks, U \ {q}) \in Int /\ asks[q] \in Nat
    BY <1>1, SumType
  <1>6. (\A p \in U : p <= q) => Ahead(asks, q) = SumFunctionOnSet(asks, U \ {q})
    <2>1. (\A p \in U : p <= q) => U \ {q} = Better(asks, q)
      <3> SUFFICES ASSUME \A p \in U : p <= q
                   PROVE  U \ {q} \subseteq Better(asks, q)
        BY <1>3
      <3> QED
        BY <1>1 DEF Better
    <2> QED
      BY <2>1 DEF Ahead, Better
  <1> QED
    BY <1>2, <1>4, <1>5, <1>6

\* An order takes nothing from a level, what it still needs of it, or all of it.
LEMMA TakenIs ==
    ASSUME NEW asks, LevelsTyped(asks), NEW p \in DOMAIN asks, NEW n \in Int
    PROVE  Taken(asks, n, p) = IF n <= Ahead(asks, p) THEN 0
                               ELSE IF n <= Ahead(asks, p) + asks[p] THEN n - Ahead(asks, p)
                               ELSE asks[p]
  <1> DEFINE a == Ahead(asks, p)
             s == asks[p]
  <1>1. a \in Nat /\ s \in Nat
    BY AheadType
  <1>2. Min({s, n - a}) = IF n <= a + s THEN n - a ELSE s
    <2> HIDE DEF a, s
    <2> QED
      BY <1>1 DEF Min
  <1>3. \A t \in Int : Max({0, t}) = IF t <= 0 THEN 0 ELSE t
    BY DEF Max
  <1>4. Taken(asks, n, p) = Max({0, Min({s, n - a})})
    BY DEF Taken
  <1> HIDE DEF a, s
  <1>5. Taken(asks, n, p) = IF n <= a THEN 0 ELSE IF n <= a + s THEN n - a ELSE s
    BY <1>1, <1>2, <1>3, <1>4
  <1> QED
    BY <1>5 DEF a, s

\* The price of a unit: the best level that reaches it.
Reaching(asks, unit) == {p \in DOMAIN asks : unit <= Ahead(asks, p) + asks[p]}

\* A unit that the book offers lies within the level of its price.
LEMMA LevelOfUnit ==
    ASSUME NEW asks, LevelsTyped(asks), NEW n \in Nat \ {0}, n <= Offered(asks)
    PROVE  /\ UnitPrice(asks, n) \in DOMAIN asks
           /\ Ahead(asks, UnitPrice(asks, n)) < n
           /\ n <= Ahead(asks, UnitPrice(asks, n)) + asks[UnitPrice(asks, n)]
           /\ \A p \in DOMAIN asks : p < UnitPrice(asks, n) => Ahead(asks, p) + asks[p] < n
  <1> DEFINE D == DOMAIN asks
             R == Reaching(asks, n)
             best == UnitPrice(asks, n)
  <1>1. IsFiniteSet(D) /\ D \subseteq Int
    BY DEF LevelsTyped
  <1>2. R # {}
    <2>1. D # {}
      BY SumOfNone DEF Offered
    <2>2. Max(D) \in D /\ \A p \in D : p <= Max(D)
      <3> HIDE DEF D
      <3> QED
        BY <1>1, <2>1, GreatestOfSome
    <2>3. Ahead(asks, Max(D)) + asks[Max(D)] = Offered(asks)
      BY <2>2, AheadOfNext DEF Offered
    <2> QED
      BY <2>2, <2>3 DEF Reaching
  <1>3. R \subseteq D /\ IsFiniteSet(R)
    BY <1>1, FS_Subset DEF Reaching
  <1>4. best \in R /\ \A p \in R : best <= p
    <2> HIDE DEF R
    <2> QED
      BY <1>1, <1>2, <1>3, LeastOfSome DEF UnitPrice, Reaching, R
  <1>5. \A p \in D : p < best => Ahead(asks, p) + asks[p] < n
    <2> SUFFICES ASSUME NEW p \in D, p < best
                 PROVE  Ahead(asks, p) + asks[p] < n
      OBVIOUS
    <2>1. p \notin R
      BY <1>1, <1>3, <1>4
    <2> QED
      BY <2>1, AheadType DEF Reaching
  <1>6. Ahead(asks, best) < n
    <2> DEFINE U == Better(asks, best)
    <2>1. U \subseteq D /\ IsFiniteSet(U) /\ U \subseteq Int
      BY <1>1, FS_Subset DEF Better
    <2>2. Ahead(asks, best) = SumFunctionOnSet(asks, U)
      BY DEF Ahead, Better
    <2>3. CASE U = {}
      BY <2>2, <2>3, SumOfNone
    <2>4. CASE U # {}
      <3> DEFINE q == Max(U)
      <3>1. q \in U /\ \A p \in U : p <= q
        <4> HIDE DEF U
        <4> QED
          BY <2>1, <2>4, GreatestOfSome
      <3>2. \A p \in D : p < q => p \in U
        BY <1>1, <1>3, <1>4, <3>1 DEF Better
      <3>3. Ahead(asks, q) + asks[q] = SumFunctionOnSet(asks, U)
        BY <2>1, <3>1, <3>2, AheadOfNext
      <3>4. q \in D /\ q < best
        BY <3>1 DEF Better
      <3> HIDE DEF q, U
      <3> QED
        BY <1>5, <2>2, <3>3, <3>4
    <2> QED
      BY <2>3, <2>4
  <1> QED
    BY <1>3, <1>4, <1>5, <1>6 DEF Reaching

\* One unit more takes one more from the level of its price and nothing from the others.
LEMMA UnitTaken ==
    ASSUME NEW asks, LevelsTyped(asks), NEW n \in Nat, n + 1 <= Offered(asks),
           NEW p \in DOMAIN asks
    PROVE  Taken(asks, n + 1, p)
             = Taken(asks, n, p) + IF p = UnitPrice(asks, n + 1) THEN 1 ELSE 0
  <1> DEFINE best == UnitPrice(asks, n + 1)
             a == Ahead(asks, p)
             s == asks[p]
  <1> SUFFICES Taken(asks, n + 1, p) = Taken(asks, n, p) + IF p = best THEN 1 ELSE 0
    OBVIOUS
  <1>1. /\ best \in DOMAIN asks /\ Ahead(asks, best) < n + 1
        /\ n + 1 <= Ahead(asks, best) + asks[best]
        /\ \A q \in DOMAIN asks : q < best => Ahead(asks, q) + asks[q] < n + 1
    BY LevelOfUnit
  <1>2. a \in Nat /\ s \in Nat /\ p \in Int /\ best \in Int
        /\ Ahead(asks, best) \in Nat /\ asks[best] \in Nat
    BY <1>1, AheadType
  <1>3. Taken(asks, n, p) = IF n <= a THEN 0 ELSE IF n <= a + s THEN n - a ELSE s
    BY TakenIs
  <1>4. Taken(asks, n + 1, p)
          = IF n + 1 <= a THEN 0 ELSE IF n + 1 <= a + s THEN (n + 1) - a ELSE s
    <2> DEFINE m == n + 1
    <2>1. m \in Int
      OBVIOUS
    <2>2. Taken(asks, m, p) = IF m <= a THEN 0 ELSE IF m <= a + s THEN m - a ELSE s
      <3> HIDE DEF m
      <3> QED
        BY <2>1, TakenIs
    <2> QED
      BY <2>2
  <1>5. CASE p = best
    <2>1. a < n + 1 /\ n + 1 <= a + s
      BY <1>1, <1>5
    <2> HIDE DEF a, s, best
    <2> QED
      BY <1>2, <1>3, <1>4, <1>5, <2>1
  <1>6. CASE p < best
    <2>1. a + s < n + 1
      BY <1>1, <1>6
    <2> HIDE DEF a, s, best
    <2> QED
      BY <1>2, <1>3, <1>4, <1>6, <2>1
  <1>7. CASE best < p
    <2>1. Ahead(asks, best) + asks[best] <= a
      <3>1. Better(asks, p) \in SUBSET DOMAIN asks /\ best \in Better(asks, p)
        BY <1>1, <1>7 DEF Better
      <3>2. \A q \in DOMAIN asks : q < best => q \in Better(asks, p)
        BY <1>2, <1>7, AheadType DEF Better
      <3>3. a = SumFunctionOnSet(asks, Better(asks, p))
        BY DEF Ahead, Better
      <3> QED
        BY <3>1, <3>2, <3>3, AheadOfNext
    <2>2. n + 1 <= a
      <3> HIDE DEF a, best
      <3> QED
        BY <1>1, <1>2, <2>1
    <2> HIDE DEF a, s, best
    <2> QED
      BY <1>2, <1>3, <1>4, <1>7, <2>2
  <1>8. p = best \/ p < best \/ best < p
    <2> HIDE DEF best
    <2> QED
      BY <1>2
  <1> QED
    BY <1>5, <1>6, <1>7, <1>8

Taking(asks, n) == [p \in DOMAIN asks |-> Taken(asks, n, p)]
Paying(asks, n) == [p \in DOMAIN asks |-> p * Taken(asks, n, p)]
Prices(asks, n) == [unit \in 1 .. n |-> UnitPrice(asks, unit)]

\* It never takes more than the level has.
LEMMA TakenType ==
    ASSUME NEW asks, LevelsTyped(asks), NEW n \in Int, NEW p \in DOMAIN asks
    PROVE  /\ Taken(asks, n, p) \in Nat /\ Taken(asks, n, p) <= asks[p]
           /\ p * Taken(asks, n, p) \in Int
  <1>1. Ahead(asks, p) \in Nat /\ p \in Int /\ asks[p] \in Nat
    BY AheadType
  <1>2. Taken(asks, n, p) \in Nat /\ Taken(asks, n, p) <= asks[p]
    BY <1>1, TakenIs
  <1> QED
    BY <1>1, <1>2

\* One unit more: the level sums grow by the unit and by its price.
LEMMA OneUnitMore ==
    ASSUME NEW asks, LevelsTyped(asks), NEW n \in Nat, n + 1 <= Offered(asks)
    PROVE  /\ SumFunction(Taking(asks, n + 1)) = SumFunction(Taking(asks, n)) + 1
           /\ SumFunction(Paying(asks, n + 1))
                = SumFunction(Paying(asks, n)) + UnitPrice(asks, n + 1)
  <1> DEFINE D == DOMAIN asks
             best == UnitPrice(asks, n + 1)
             rest == D \ {best}
             t == Taking(asks, n)
             u == Taking(asks, n + 1)
             x == Paying(asks, n)
             y == Paying(asks, n + 1)
  <1>1. best \in D /\ best \in Int /\ IsFiniteSet(D) /\ IsFiniteSet(rest)
    BY LevelOfUnit, AheadType, FS_Subset DEF LevelsTyped
  <1>2. \A p \in D : /\ t[p] \in Int /\ u[p] \in Int /\ x[p] \in Int /\ y[p] \in Int
                     /\ x[p] = p * t[p] /\ y[p] = p * u[p]
                     /\ u[p] = t[p] + IF p = best THEN 1 ELSE 0
    <2>1. n \in Int /\ n + 1 \in Int
      OBVIOUS
    <2> QED
      BY <2>1, TakenType, UnitTaken DEF Taking, Paying
  <1>3. DOMAIN t = D /\ DOMAIN u = D /\ DOMAIN x = D /\ DOMAIN y = D
    BY DEF Taking, Paying
  <1> HIDE DEF t, u, x, y
  <1>4. /\ SumFunction(t) = t[best] + SumFunctionOnSet(t, rest)
        /\ SumFunction(u) = u[best] + SumFunctionOnSet(u, rest)
        /\ SumFunction(x) = x[best] + SumFunctionOnSet(x, rest)
        /\ SumFunction(y) = y[best] + SumFunctionOnSet(y, rest)
    <2>1. ASSUME NEW h, DOMAIN h = D, \A p \in D : h[p] \in Int
          PROVE  SumFunction(h) = h[best] + SumFunctionOnSet(h, rest)
      <3>1. SumFunctionOnSet(h, D) = h[best] + SumFunctionOnSet(h, D \ {best})
        <4>1. IsFiniteSet(D) /\ best \in D /\ \A p \in D : h[p] \in Int
          BY <1>1, <2>1
        <4> HIDE DEF best, D
        <4> QED
          BY <4>1, SumSplit
      <3> QED
        BY <2>1, <3>1 DEF SumFunction
    <2> QED
      BY <1>2, <1>3, <2>1
  <1>5. /\ SumFunctionOnSet(t, rest) = SumFunctionOnSet(u, rest)
        /\ SumFunctionOnSet(x, rest) = SumFunctionOnSet(y, rest)
    <2>1. \A p \in rest : /\ t[p] \in Int /\ t[p] = u[p]
                          /\ x[p] \in Int /\ x[p] = y[p]
      BY <1>2
    <2> HIDE DEF rest
    <2> QED
      BY <1>1, <2>1, SumSame
  <1>6. SumFunctionOnSet(t, rest) \in Int /\ SumFunctionOnSet(x, rest) \in Int
    BY <1>1, <1>2, SumType
  <1>7. u[best] = t[best] + 1 /\ t[best] \in Int
    BY <1>1, <1>2
  <1>8. y[best] = x[best] + best /\ x[best] \in Int
    <2>1. y[best] = best * (t[best] + 1) /\ x[best] = best * t[best]
      BY <1>1, <1>2, <1>7
    <2> HIDE DEF best
    <2> QED
      BY <1>1, <1>7, <2>1
  <1> HIDE DEF best, rest
  <1>9. SumFunction(u) = SumFunction(t) + 1 /\ SumFunction(y) = SumFunction(x) + best
    BY <1>1, <1>4, <1>5, <1>6, <1>7, <1>8
  <1> QED
    BY <1>9 DEF t, u, x, y, best

\* What is paid level by level is what the units cost one by one, as long as there are any.
THEOREM SweepByUnits ==
    ASSUME NEW asks, LevelsTyped(asks), NEW n \in Nat, n <= Offered(asks)
    PROVE  /\ SumFunction(Taking(asks, n)) = n
           /\ SumFunction(Paying(asks, n)) = SumFunction(Prices(asks, n))
           /\ SumFunction(Prices(asks, n)) \in Int
  <1> DEFINE Agree(k) == /\ SumFunction(Taking(asks, k)) = k
                         /\ SumFunction(Paying(asks, k)) = SumFunction(Prices(asks, k))
                         /\ SumFunction(Prices(asks, k)) \in Int
             K == {k \in Nat : k <= Offered(asks) /\ ~Agree(k)}
  <1>1. IsFiniteSet(DOMAIN asks)
    BY DEF LevelsTyped
  <1>2. Agree(0)
    <2>1. \A p \in DOMAIN asks : Taking(asks, 0)[p] = 0 /\ Paying(asks, 0)[p] = 0
      <3> TAKE p \in DOMAIN asks
      <3>1. 0 <= Ahead(asks, p) /\ p \in Int
        BY AheadType
      <3>2. Taken(asks, 0, p) = 0
        BY <3>1, TakenIs
      <3> QED
        BY <3>1, <3>2 DEF Taking, Paying
    <2>2. SumFunction(Taking(asks, 0)) = 0 /\ SumFunction(Paying(asks, 0)) = 0
      <3>1. DOMAIN Taking(asks, 0) = DOMAIN asks /\ DOMAIN Paying(asks, 0) = DOMAIN asks
        BY DEF Taking, Paying
      <3> QED
        BY <1>1, <2>1, <3>1, SumOfZeros DEF SumFunction
    <2>3. SumFunction(Prices(asks, 0)) = 0
      <3>1. DOMAIN Prices(asks, 0) = {}
        BY DEF Prices
      <3> QED
        BY <3>1, SumOfNone DEF SumFunction
    <2> QED
      BY <2>2, <2>3
  <1>3. ASSUME NEW k \in Nat, k + 1 <= Offered(asks), Agree(k)
        PROVE  Agree(k + 1)
    <2> DEFINE price == UnitPrice(asks, k + 1)
               f == Prices(asks, k)
               g == Prices(asks, k + 1)
    <2>1. price \in Int
      BY <1>3, LevelOfUnit, AheadType
    <2>2. IsFiniteSet(1 .. k) /\ IsFiniteSet(1 .. k + 1)
      BY FS_Interval
    <2>3. \A unit \in 1 .. k + 1 : g[unit] \in Int
      <3> TAKE unit \in 1 .. k + 1
      <3>1. unit \in Nat \ {0} /\ unit <= Offered(asks)
        <4>1. Offered(asks) \in Int
          BY SumType DEF LevelsTyped, Offered
        <4> QED
          BY <1>3, <4>1
      <3>2. UnitPrice(asks, unit) \in Int
        BY <3>1, LevelOfUnit, AheadType
      <3> QED
        BY <3>2 DEF Prices
    <2>4. g[k + 1] = price /\ \A unit \in 1 .. k : f[unit] = g[unit]
      BY DEF Prices
    <2>5. DOMAIN f = 1 .. k /\ DOMAIN g = 1 .. k + 1
      BY DEF Prices
    <2> HIDE DEF f, g
    <2>6. SumFunction(g) = g[k + 1] + SumFunctionOnSet(g, 1 .. k)
      <3>1. (1 .. k + 1) \ {k + 1} = 1 .. k /\ k + 1 \in 1 .. k + 1
        OBVIOUS
      <3>2. SumFunctionOnSet(g, 1 .. k + 1)
              = g[k + 1] + SumFunctionOnSet(g, (1 .. k + 1) \ {k + 1})
        BY <2>2, <2>3, <3>1, SumSplit
      <3> QED
        BY <2>5, <3>1, <3>2 DEF SumFunction
    <2>7. SumFunctionOnSet(g, 1 .. k) = SumFunction(f)
      <3>1. \A unit \in 1 .. k : g[unit] \in Int /\ g[unit] = f[unit]
        BY <2>3, <2>4
      <3> QED
        BY <2>2, <2>5, <3>1, SumSame DEF SumFunction
    <2>8. SumFunction(g) = SumFunction(f) + price /\ SumFunction(f) \in Int
      <3>1. SumFunction(f) \in Int
        BY <1>3 DEF f
      <3> HIDE DEF price
      <3> QED
        BY <2>1, <2>4, <2>6, <2>7, <3>1
    <2>9. /\ SumFunction(Taking(asks, k + 1)) = k + 1
          /\ SumFunction(Paying(asks, k + 1)) = SumFunction(f) + price
      BY <1>3, OneUnitMore DEF f
    <2> QED
      BY <2>1, <2>8, <2>9 DEF g
  <1> HIDE DEF Agree
  <1>4. K = {}
    <2> SUFFICES ASSUME K # {}
                 PROVE  FALSE
      OBVIOUS
    <2>1. K \in SUBSET Nat
      OBVIOUS
    <2>2. PICK m \in K : \A k \in K : m <= k
      <3> HIDE DEF K
      <3> QED
        BY <2>1, FirstOfChecks
    <2>3. m \in Nat /\ m # 0 /\ m <= Offered(asks) /\ ~Agree(m)
      BY <1>2, <2>2
    <2>4. m - 1 \in Nat /\ (m - 1) + 1 = m
      BY <2>3
    <2>5. Offered(asks) \in Int
      BY SumType DEF LevelsTyped, Offered
    <2>6. m - 1 \notin K
      <3> HIDE DEF K
      <3> QED
        BY <2>2, <2>3
    <2>7. Agree(m - 1)
      BY <2>3, <2>4, <2>5, <2>6
    <2> QED
      BY <1>3, <2>3, <2>4, <2>7
  <1>5. Agree(n)
    BY <1>4
  <1> QED
    BY <1>5 DEF Agree

-----------------------------------------------------------------------------
(* The gates of a pair *)

\* When no reason is named, no condition holds.
LEMMA NoReason ==
    ASSUME NEW conditions, {c[1] : c \in {d \in conditions : d[2]}} = {},
           NEW name, NEW holds, <<name, holds>> \in conditions
    PROVE  ~holds
  <1> SUFFICES ASSUME holds
               PROVE  FALSE
    OBVIOUS
  <1> DEFINE c == <<name, holds>>
  <1>1. c \in conditions /\ c[2]
    OBVIOUS
  <1> HIDE DEF c
  <1> QED
    BY <1>1

\* A sweep that passes fills the size, and what its units cost is within the tolerance.
LEMMA SweepPasses ==
    ASSUME NEW asks, LevelsTyped(asks), NEW n \in Nat \ {0}, NEW best \in Int, NEW pol,
           pol.entrySlippageToleranceBps \in Nat,
           SweptTooDear(sweepCost(asks, n), best, pol) = {}
    PROVE  /\ SumFunction(Prices(asks, n)) \in Int
           /\ (SumFunction(Prices(asks, n)) - best * n) * 10000
                <= pol.entrySlippageToleranceBps * best * n
  <1> DEFINE filled == SumFunction(Taking(asks, n))
             paid == SumFunction(Paying(asks, n))
             tolerance == pol.entrySlippageToleranceBps
             short == filled < n
             dear == (paid - best * filled) * 10000 > tolerance * best * filled
             conditions == {<<"depth_exhausted", short>>, <<"slippage_exceeded", dear>>}
  <1>1. sweepCost(asks, n) = [totalCost |-> paid, filledSize |-> filled, exhausted |-> filled < n]
    BY DEF sweepCost, Taking, Paying
  <1>2. /\ sweepCost(asks, n).totalCost = paid /\ sweepCost(asks, n).filledSize = filled
        /\ sweepCost(asks, n).exhausted = (filled < n)
    BY <1>1
  <1>3. {c[1] : c \in {d \in conditions : d[2]}} = {}
    BY <1>2 DEF SweptTooDear, Reasons
  <1>4. ~short /\ ~dear
    <2> HIDE DEF short, dear
    <2>1. /\ <<"depth_exhausted", short>> \in conditions
          /\ <<"slippage_exceeded", dear>> \in conditions
      OBVIOUS
    <2> HIDE DEF conditions
    <2> QED
      BY <1>3, <2>1, NoReason
  <1>5. ~(filled < n) /\ ~((paid - best * filled) * 10000 > tolerance * best * filled)
    BY <1>4
  <1>6. filled \in Int /\ filled <= Offered(asks) /\ Offered(asks) \in Int
    <2> DEFINE t == Taking(asks, n)
    <2>1. \A p \in DOMAIN asks : t[p] \in Int /\ asks[p] \in Int /\ t[p] <= asks[p]
      BY TakenType, AheadType DEF Taking
    <2>2. DOMAIN t = DOMAIN asks /\ IsFiniteSet(DOMAIN asks)
      BY DEF Taking, LevelsTyped
    <2> HIDE DEF t
    <2>3. SumFunction(t) = SumFunctionOnSet(t, DOMAIN asks)
      BY <2>2 DEF SumFunction
    <2>4. SumFunctionOnSet(t, DOMAIN asks) \in Int
      BY <2>1, <2>2, SumType
    <2>5. Offered(asks) \in Int
      BY <2>1, <2>2, SumType DEF Offered
    <2>6. SumFunctionOnSet(t, DOMAIN asks) <= Offered(asks)
      BY <2>1, <2>2, SumGrows DEF Offered
    <2> QED
      BY <2>3, <2>4, <2>5, <2>6 DEF t
  <1>7. n <= Offered(asks)
    <2> HIDE DEF filled
    <2> QED
      BY <1>5, <1>6
  <1>8. filled = n /\ paid = SumFunction(Prices(asks, n)) /\ SumFunction(Prices(asks, n)) \in Int
    BY <1>7, SweepByUnits
  <1> DEFINE total == SumFunction(Prices(asks, n))
  <1>9. ~((total - best * n) * 10000 > tolerance * best * n)
    BY <1>5, <1>8
  <1>10. total \in Int /\ tolerance \in Int /\ best * n \in Int /\ tolerance * best * n \in Int
    BY <1>8
  <1> HIDE DEF total, tolerance
  <1>11. (total - best * n) * 10000 <= tolerance * best * n
    BY <1>9, <1>10
  <1> QED
    BY <1>8, <1>11 DEF total, tolerance

\* What two legs cost together, each within the tolerance of its best price.
LEMMA LegsTogether ==
    ASSUME NEW n \in Nat, NEW t \in Nat, NEW a \in Int, NEW b \in Int, NEW c \in Int, NEW d \in Int,
           NEW most \in Int,
           (c - a * n) * 10000 <= t * a * n, (d - b * n) * 10000 <= t * b * n,
           a + b <= most
    PROVE  (c + d) * 10000 <= n * most * (10000 + t)
  <1> DEFINE x == a * n
             y == b * n
             z == n * most
  <1>1. x \in Int /\ y \in Int /\ z \in Int
    OBVIOUS
  <1>2. t * a * n = t * x /\ t * b * n = t * y
    OBVIOUS
  <1>3. x + y <= z
    <2>1. x + y = n * (a + b)
      OBVIOUS
    <2>2. a + b \in Int
      OBVIOUS
    <2>3. \A u, v \in Int : u <= v => n * u <= n * v
      OBVIOUS
    <2>4. n * (a + b) <= n * most
      BY <2>2, <2>3
    <2> QED
      BY <2>1, <2>4
  <1>4. (c - x) * 10000 <= t * x /\ (d - y) * 10000 <= t * y
    BY <1>2
  <1> HIDE DEF x, y, z
  <1>5. (c + d) * 10000 <= 10000 * (x + y) + t * (x + y)
    <2>1. t * (x + y) = t * x + t * y /\ t * x \in Int /\ t * y \in Int
      BY <1>1
    <2> DEFINE tx == t * x
               ty == t * y
    <2>2. (c - x) * 10000 <= tx /\ (d - y) * 10000 <= ty /\ tx \in Int /\ ty \in Int
      BY <1>4, <2>1
    <2> HIDE DEF tx, ty
    <2>3. (c + d) * 10000 <= 10000 * (x + y) + (tx + ty)
      BY <1>1, <2>2
    <2> QED
      BY <2>1, <2>3 DEF tx, ty
  <1>6. t * (x + y) <= t * z
    <2>1. \A u, v \in Int : u <= v => t * u <= t * v
      OBVIOUS
    <2>2. x + y \in Int
      BY <1>1
    <2> QED
      BY <1>1, <1>3, <2>1, <2>2
  <1>7. z * (10000 + t) = 10000 * z + t * z
    BY <1>1
  <1>8. t * (x + y) \in Int /\ t * z \in Int
    BY <1>1
  <1>9. (c + d) * 10000 <= z * (10000 + t)
    <2> DEFINE s == t * (x + y)
               r == t * z
    <2>1. /\ (c + d) * 10000 <= 10000 * (x + y) + s /\ s <= r /\ s \in Int /\ r \in Int
          /\ z * (10000 + t) = 10000 * z + r
      BY <1>5, <1>6, <1>7, <1>8
    <2> HIDE DEF s, r
    <2>2. (c + d) * 10000 <= 10000 * z + r
      BY <1>1, <1>3, <2>1
    <2> QED
      BY <2>1, <2>2
  <1> QED
    BY <1>9 DEF z

\* What the units of both legs cost, when the gates of the pair pass for this size.
LEMMA PassedPairCost ==
    ASSUME NEW yes, NEW no, NEW pol, NEW t, NEW n \in Nat \ {0}, NEW fee,
           LevelsTyped(yes.asks), LevelsTyped(no.asks),
           pol.entrySlippageToleranceBps \in Nat, pol.edgeRequired \in Int,
           Passed(evaluateGatesWithFees(yes, no, pol, t, n, fee))
    PROVE  (SumFunction(Prices(yes.asks, n)) + SumFunction(Prices(no.asks, n))) * 10000
             <= n * (One - pol.edgeRequired) * (10000 + pol.entrySlippageToleranceBps)
  <1> DEFINE decision == evaluateGates(yes, no, pol, t, n)
             cost == BestAsk(yes) + BestAsk(no)
             below == One - cost < pol.edgeRequired
             above == One - cost > pol.maxEdge
             edges == {<<"edge_below_threshold", below>>, <<"edge_above_max", above>>}
  <1>1. decision.reasons = {}
    BY DEF evaluateGatesWithFees, AfterFees, Passed
  <1>2. /\ EdgeGates(One - cost, pol) = {}
        /\ SlippageGates(yes, n, pol) = {} /\ SlippageGates(no, n, pol) = {}
    <2>1. FatalReasons(yes, no) = {}
      BY <1>1 DEF evaluateGates, Refused
    <2>2. decision.reasons = evaluateBaseGates(yes, no, pol, t)
             \cup EdgeGates(One - cost, pol)
             \cup DepthGates(decision.maxSizeByDepth, Max({yes.minOrderSize, no.minOrderSize}),
                              n, pol)
             \cup TickGates(One - cost, yes, no, pol)
             \cup SlippageGates(yes, n, pol) \cup SlippageGates(no, n, pol)
      BY <2>1 DEF evaluateGates
    <2> HIDE DEF decision
    <2> QED
      BY <1>1, <2>2
  <1>3. BestAsk(yes) \in Int /\ BestAsk(no) \in Int
    <2>1. ASSUME NEW book, LevelsTyped(book.asks)
          PROVE  BestAsk(book) \in Int
      <3>1. DOMAIN book.asks # {} => Min(DOMAIN book.asks) \in Int
        BY <2>1, LeastOfSome DEF LevelsTyped
      <3> QED
        BY <3>1 DEF BestAsk, NoPrice
    <2> QED
      BY <2>1
  <1>4. /\ SweptTooDear(sweepCost(yes.asks, n), BestAsk(yes), pol) = {}
        /\ SweptTooDear(sweepCost(no.asks, n), BestAsk(no), pol) = {}
    BY <1>2 DEF SlippageGates
  <1>5. ~below
    <2>1. {c[1] : c \in {d \in edges : d[2]}} = {}
      BY <1>2 DEF EdgeGates, Reasons
    <2> HIDE DEF below, above
    <2>2. <<"edge_below_threshold", below>> \in edges
      OBVIOUS
    <2> HIDE DEF edges
    <2> QED
      BY <2>1, <2>2, NoReason
  <1>6. BestAsk(yes) + BestAsk(no) <= One - pol.edgeRequired /\ One - pol.edgeRequired \in Int
    BY <1>3, <1>5, OneAssumption
  <1>7. /\ SumFunction(Prices(yes.asks, n)) \in Int
        /\ (SumFunction(Prices(yes.asks, n)) - BestAsk(yes) * n) * 10000
             <= pol.entrySlippageToleranceBps * BestAsk(yes) * n
    BY <1>3, <1>4, SweepPasses
  <1>8. /\ SumFunction(Prices(no.asks, n)) \in Int
        /\ (SumFunction(Prices(no.asks, n)) - BestAsk(no) * n) * 10000
             <= pol.entrySlippageToleranceBps * BestAsk(no) * n
    BY <1>3, <1>4, SweepPasses
  <1> DEFINE a == BestAsk(yes)
             b == BestAsk(no)
             c == SumFunction(Prices(yes.asks, n))
             d == SumFunction(Prices(no.asks, n))
             most == One - pol.edgeRequired
             tol == pol.entrySlippageToleranceBps
  <1>9. /\ a \in Int /\ b \in Int /\ c \in Int /\ d \in Int /\ most \in Int /\ tol \in Nat
        /\ (c - a * n) * 10000 <= tol * a * n /\ (d - b * n) * 10000 <= tol * b * n
        /\ a + b <= most /\ n \in Nat
    BY <1>3, <1>6, <1>7, <1>8
  <1> HIDE DEF a, b, c, d, most, tol
  <1>10. (c + d) * 10000 <= n * most * (10000 + tol)
    BY <1>9, LegsTogether
  <1> QED
    BY <1>10 DEF c, d, most, tol

-----------------------------------------------------------------------------
(* What is on its way, and what it is decided on, is typed *)

BookTyped(b) == LevelsTyped(b.asks) /\ b.tickSize \in Int /\ b.minOrderSize \in Int

LegTyped(l) ==
    /\ l.marketId \in Markets
    /\ {l.costPerSet, l.maxSizeByDepth, l.minOrderSize, l.tickSize} \subseteq Int
    /\ 0 <= l.costPerSet

OppTyped(opp) ==
    /\ IsFiniteSet(opp.legs) /\ opp.legs # {} /\ \A l \in opp.legs : LegTyped(l)
    /\ opp.marketId \in Markets /\ opp.tickSize \in Int /\ opp.minOrderSize \in Int
    /\ \E l \in opp.legs : opp.minOrderSize <= l.minOrderSize

JobTyped(job) ==
    /\ job.stage # "idle" => OppTyped(job.opp)
    /\ job.stage \in {"sizing", "executing"} => job.size \in Nat \ {0}

\* The cap on what one trade puts into one market; 0 is none.
PerMarketCap(opp) ==
    IF opp.type = "ev" THEN Risk.evMaxPerMarketNotional
    ELSE IF opp.type \in {"fw_projection", "fw_basket"} THEN Risk.fwMaxPerMarketNotional ELSE 0

\* What unwinding a size of an opportunity would lose is known, and within the budget; what
\* it costs is within the cap.
InBudget(opp, size) ==
    /\ LossPerAttempt(opp, Risk) \in Nat \ {0}
    /\ size * LossPerAttempt(opp, Risk) <= Risk.maxPerTradeLoss
    /\ PerMarketCap(opp) > 0
         => \A l \in opp.legs : size * l.costPerSet <= PerMarketCap(opp)

\* What risk has sized can be ordered, and what has been sized or started is in the budget.
JobInBudget(job) ==
    /\ job.stage = "sizing" => job.opp.minOrderSize <= job.size
    /\ job.stage \in {"sizing", "executing"} => InBudget(job.opp, job.size)

BooksTyped == DOMAIN books = Tokens /\ \A t \in Tokens : BookTyped(books[t])
JobsSized == \A j \in Jobs : JobTyped(jobs[j]) /\ JobInBudget(jobs[j])

PairInv == BooksTyped /\ exposure \in [Markets -> Nat] /\ JobsSized

-----------------------------------------------------------------------------
\* The greater of two numbers.
LEMMA MaxOfTwo ==
    ASSUME NEW a \in Int, NEW b \in Int
    PROVE  Max({a, b}) \in Int /\ a <= Max({a, b}) /\ b <= Max({a, b})
  BY DEF Max

\* The smaller of two numbers.
LEMMA MinOfTwo ==
    ASSUME NEW a \in Int, NEW b \in Int
    PROVE  Min({a, b}) \in {a, b}
  BY DEF Min

\* Among two numbers of which one is 0 or 1.
LEMMA AtLeastSome ==
    ASSUME NEW a \in Int
    PROVE  /\ Max({0, a}) \in Int /\ Max({a, 0}) \in Int
           /\ Max({a, 1}) \in Int /\ Max({a, 1}) > 0
  <1>1. Max({0, a}) \in Int
    BY DEF Max
  <1>2. Max({a, 0}) \in Int
    BY DEF Max
  <1>3. Max({a, 1}) \in Int /\ Max({a, 1}) > 0
    BY DEF Max
  <1> QED
    BY <1>1, <1>2, <1>3

\* A few things are a finite set.
LEMMA FewAreFinite ==
    ASSUME NEW a, NEW b, NEW c, NEW d
    PROVE  IsFiniteSet({a, b, c, d})
  <1>1. IsFiniteSet({a})
    BY FS_Singleton
  <1>2. IsFiniteSet({a} \cup {b})
    BY <1>1, FS_AddElement
  <1> DEFINE two == {a} \cup {b}
             three == two \cup {c}
  <1>3. IsFiniteSet(three)
    <2> HIDE DEF two
    <2> QED
      BY <1>2, FS_AddElement DEF two
  <1>4. IsFiniteSet(three \cup {d})
    <2> HIDE DEF three
    <2> QED
      BY <1>3, FS_AddElement
  <1>5. three \cup {d} = {a, b, c, d}
    OBVIOUS
  <1> QED
    BY <1>4, <1>5

\* A quotient is rounded down to a whole number.
LEMMA Quotient ==
    ASSUME NEW a \in Int, NEW b \in Int, b > 0
    PROVE  a \div b \in Int
  OBVIOUS

\* The sum of some whole numbers is one, and so are the least and the greatest of them.
LEMMA OverSome ==
    ASSUME NEW f, IsFiniteSet(DOMAIN f), \A x \in DOMAIN f : f[x] \in Int
    PROVE  /\ SumFunction(f) \in Int
           /\ IsFiniteSet(Range(f)) /\ Range(f) \subseteq Int
           /\ DOMAIN f # {} => Min(Range(f)) \in Int
           /\ Max(Range(f) \cup {0}) \in Int
  <1>1. SumFunction(f) \in Int
    BY SumType DEF SumFunction
  <1>2. IsFiniteSet(Range(f)) /\ Range(f) \subseteq Int
    <2> DEFINE S == DOMAIN f
               g == [x \in S |-> f[x]]
    <2>1. g = [x \in S |-> g[x]] /\ {g[x] : x \in S} = Range(f)
      BY DEF Range
    <2> HIDE DEF g
    <2> QED
      BY <2>1, FiniteImage DEF Range
  <1>3. ASSUME DOMAIN f # {}
        PROVE  Min(Range(f)) \in Int
    <2>1. Range(f) # {}
      BY <1>3 DEF Range
    <2> QED
      BY <1>2, <2>1, LeastOfSome
  <1>4. IsFiniteSet(Range(f) \cup {0}) /\ Range(f) \cup {0} \subseteq Int /\ Range(f) \cup {0} # {}
    BY <1>2, FS_AddElement
  <1>5. Max(Range(f) \cup {0}) \in Int
    BY <1>4, GreatestOfSome
  <1> QED
    BY <1>1, <1>2, <1>3, <1>5

-----------------------------------------------------------------------------
\* What the gates decide on books with typed levels is typed.
LEMMA BestAskType ==
    ASSUME NEW book, LevelsTyped(book.asks)
    PROVE  BestAsk(book) \in Int
  <1>1. DOMAIN book.asks # {} => Min(DOMAIN book.asks) \in Int
    BY LeastOfSome DEF LevelsTyped
  <1> QED
    BY <1>1 DEF BestAsk, NoPrice

DecisionTyped(gate) == gate.costPerSet \in Nat /\ gate.maxSizeByDepth \in Int

\* The depth of the best levels is a sum of their sizes.
LEMMA DepthType ==
    ASSUME NEW book, LevelsTyped(book.asks), NEW pol
    PROVE  Depth(book, pol) \in Int
  <1> DEFINE top == {p \in DOMAIN book.asks : Cardinality({q \in DOMAIN book.asks : q < p})
                                                < Max({1, pol.minDepthLevels})}
  <1>1. IsFiniteSet(top) /\ \A p \in top : book.asks[p] \in Int
    <2>1. top \subseteq DOMAIN book.asks
      OBVIOUS
    <2> HIDE DEF top
    <2> QED
      BY <2>1, FS_Subset DEF LevelsTyped
  <1>2. Depth(book, pol) = SumFunctionOnSet(book.asks, top)
    BY DEF Depth, depthAtTopLevels
  <1> HIDE DEF top
  <1> QED
    BY <1>1, <1>2, SumType

\* Its share that may be used is a whole number too.
LEMMA HeadroomType ==
    ASSUME NEW depth \in Int, NEW pol, pol.depthHeadroomPct \in Int
    PROVE  Headroom(depth, pol) \in Int
  BY DEF Headroom

\* Whatever the gates decide on the books of a pair, the cost and the size they name are
\* numbers: of a refusal both are 0.
LEMMA PairGatesTyped ==
    ASSUME NEW yes, NEW no, BookTyped(yes), BookTyped(no), NEW pol, pol.depthHeadroomPct \in Int,
           NEW t, NEW n, NEW fee, NEW side, NEW edge, NEW conf, NEW projection
    PROVE  /\ DecisionTyped(evaluateGates(yes, no, pol, t, n))
           /\ DecisionTyped(evaluateGatesWithFees(yes, no, pol, t, n, fee))
           /\ DecisionTyped(evaluateEvGates(yes, no, pol, t, side, edge, conf, n))
           /\ DecisionTyped(evaluateFwProjectionGates(yes, no, pol, t, projection, n))
  <1>1. BestAsk(yes) \in Int /\ BestAsk(no) \in Int
    BY BestAskType DEF BookTyped
  <1>2. /\ Depth(yes, pol) \in Int /\ Depth(no, pol) \in Int
        /\ Min({Depth(yes, pol), Depth(no, pol)}) \in Int
    BY DepthType, MinOfTwo DEF BookTyped
  <1> DEFINE base == evaluateGates(yes, no, pol, t, n)
             refused == Refused(FatalReasons(yes, no))
             size == Headroom(Min({Depth(yes, pol), Depth(no, pol)}), pol)
  <1>3. DecisionTyped(refused)
    BY DEF Refused, DecisionTyped
  <1> DEFINE noYes == Invalid(BestAsk(yes))
             noNo == Invalid(BestAsk(no))
             wrong == {<<"yes_best_ask_invalid", noYes>>, <<"no_best_ask_invalid", noNo>>}
  <1>4. ASSUME FatalReasons(yes, no) = {}
        PROVE  BestAsk(yes) > 0 /\ BestAsk(no) > 0
    <2>1. {c[1] : c \in {d \in wrong : d[2]}} = {}
      BY <1>4 DEF FatalReasons, Reasons
    <2>2. ~noYes /\ ~noNo
      <3> HIDE DEF noYes, noNo
      <3>1. /\ <<"yes_best_ask_invalid", noYes>> \in wrong
            /\ <<"no_best_ask_invalid", noNo>> \in wrong
        OBVIOUS
      <3> HIDE DEF wrong
      <3> QED
        BY <2>1, <3>1, NoReason
    <2> QED
      BY <1>1, <2>2 DEF Invalid
  <1>5. DecisionTyped(base) /\ DOMAIN base = {"reasons", "costPerSet", "edge", "maxSizeByDepth"}
    <2>1. size \in Int
      BY <1>2, HeadroomType
    <2>2. CASE FatalReasons(yes, no) # {}
      <3>1. base = refused
        BY <2>2 DEF evaluateGates
      <3> QED
        BY <1>3, <3>1 DEF Refused
    <2>3. CASE FatalReasons(yes, no) = {}
      <3>1. /\ base.costPerSet = BestAsk(yes) + BestAsk(no) /\ base.maxSizeByDepth = size
            /\ DOMAIN base = {"reasons", "costPerSet", "edge", "maxSizeByDepth"}
        BY <2>3 DEF evaluateGates
      <3> HIDE DEF base
      <3> QED
        BY <1>1, <1>4, <2>1, <2>3, <3>1 DEF DecisionTyped
    <2> QED
      BY <2>2, <2>3
  <1>6. DecisionTyped(evaluateGatesWithFees(yes, no, pol, t, n, fee))
    <2> DEFINE after == AfterFees(base, netEdge(One - BestAsk(yes) - BestAsk(no), fee), pol)
    <2>1. evaluateGatesWithFees(yes, no, pol, t, n, fee) = after
      BY DEF evaluateGatesWithFees
    <2> HIDE DEF base
    <2>2. after.costPerSet = base.costPerSet /\ after.maxSizeByDepth = base.maxSizeByDepth
      BY <1>5 DEF AfterFees
    <2> QED
      BY <1>5, <2>1, <2>2 DEF DecisionTyped
  <1>7. DecisionTyped(evaluateFwProjectionGates(yes, no, pol, t, projection, n))
    <2> DEFINE fw == evaluateFwProjectionGates(yes, no, pol, t, projection, n)
    <2>1. fw.costPerSet = base.costPerSet /\ fw.maxSizeByDepth = base.maxSizeByDepth
      <3> HIDE DEF base
      <3> QED
        BY <1>5 DEF evaluateFwProjectionGates, base
    <2> HIDE DEF base
    <2> QED
      BY <1>5, <2>1 DEF DecisionTyped
  <1> DEFINE ev == evaluateEvGates(yes, no, pol, t, side, edge, conf, n)
  <1>8. DecisionTyped(ev)
    <2> DEFINE book == IF side = "yes" THEN yes ELSE no
    <2>1. Headroom(Depth(book, pol), pol) \in Int /\ BestAsk(book) \in Int
      BY <1>1, <1>2, HeadroomType
    <2>2. CASE FatalReasons(yes, no) # {}
      <3>1. ev = refused
        BY <2>2 DEF evaluateEvGates
      <3> QED
        BY <1>3, <3>1
    <2>3. CASE FatalReasons(yes, no) = {}
      <3>1. ev.costPerSet = BestAsk(book) /\ ev.maxSizeByDepth = Headroom(Depth(book, pol), pol)
        BY <2>3 DEF evaluateEvGates
      <3>2. BestAsk(book) > 0
        BY <1>4, <2>3
      <3> HIDE DEF ev, book
      <3> QED
        BY <2>1, <3>1, <3>2 DEF DecisionTyped
    <2> QED
      BY <2>2, <2>3
  <1> QED
    BY <1>5, <1>6, <1>7, <1>8

-----------------------------------------------------------------------------
(* Sizes *)

SnapshotTyped(s) ==
    /\ s.totalCapital \in Int /\ s.availableCapital \in Int /\ s.dailyPnL \in Int
    /\ s.exposure \in [Markets -> Nat]

\* The limits of the risk configuration that sizes are worked out with.
LEMMA RiskNumbers ==
    /\ Risk.fallbackTickSize \in Int /\ Risk.maxUnwindLossTicks \in Int
    /\ Risk.maxMarketExposurePct \in Int /\ Risk.targetTradePct \in Int
    /\ Risk.maxTradePct \in Int /\ Risk.maxAttemptLossPct \in Int
    /\ Risk.depthBufferPct \in Int /\ Risk.maxUnwindLossPct \in Int
    /\ Risk.maxPerTradeLoss \in Int /\ Risk.dailyLossLimitPct \in Int
    /\ Risk.evMaxPerMarketNotional \in Int /\ Risk.evMaxPortfolioNotional \in Int
    /\ Risk.fwMaxPerMarketNotional \in Int /\ Risk.fwMaxPortfolioNotional \in Int
  BY NumbersAssumption

\* The sums over the legs and what is compared with them.
LEMMA LegSums ==
    ASSUME NEW opp, OppTyped(opp)
    PROVE  /\ Cost(opp) \in Int /\ EffectiveTick(opp, Risk) \in Int
           /\ LossPerAttempt(opp, Risk) \in Int /\ LossPerSet(opp, Risk) \in Int
           /\ MinOrderSize(opp) \in Int
           /\ Min({l.maxSizeByDepth : l \in opp.legs}) \in Int
  <1> DEFINE costs == [l \in opp.legs |-> l.costPerSet]
             losses == [l \in opp.legs |-> Max({l.tickSize, Risk.fallbackTickSize})]
             minima == [l \in opp.legs |-> l.minOrderSize]
             depths == [l \in opp.legs |-> l.maxSizeByDepth]
  <1>1. IsFiniteSet(opp.legs) /\ opp.legs # {}
    BY DEF OppTyped
  <1>2. \A l \in opp.legs : /\ costs[l] \in Int /\ minima[l] \in Int /\ depths[l] \in Int
                            /\ losses[l] \in Int
    <2> TAKE l \in opp.legs
    <2>1. l.costPerSet \in Int /\ l.minOrderSize \in Int /\ l.maxSizeByDepth \in Int
          /\ l.tickSize \in Int
      BY DEF OppTyped, LegTyped
    <2> QED
      BY <2>1, RiskNumbers, MaxOfTwo
  <1>3. Cost(opp) = SumFunction(costs)
    BY DEF Cost, SumOver
  <1>4. EffectiveTick(opp, Risk) \in Int
    BY RiskNumbers DEF EffectiveTick, OppTyped
  <1>5. LossPerSet(opp, Risk) = IF opp.type = "fw_basket"
                                THEN SumFunction(losses) * Risk.maxUnwindLossTicks
                                ELSE EffectiveTick(opp, Risk) * Risk.maxUnwindLossTicks
    BY DEF LossPerSet, SumOver
  <1>6. /\ DOMAIN costs = opp.legs /\ DOMAIN losses = opp.legs
        /\ DOMAIN minima = opp.legs /\ DOMAIN depths = opp.legs
    OBVIOUS
  <1>7. /\ Range(minima) = {l.minOrderSize : l \in opp.legs}
        /\ Range(depths) = {l.maxSizeByDepth : l \in opp.legs}
    BY DEF Range
  <1> HIDE DEF costs, losses, minima, depths
  <1>8. SumFunction(costs) \in Int /\ SumFunction(losses) \in Int
    BY <1>1, <1>2, <1>6, OverSome
  <1>9. Max(Range(minima) \cup {0}) \in Int /\ Min(Range(depths)) \in Int
    BY <1>1, <1>2, <1>6, OverSome
  <1>10. LossPerAttempt(opp, Risk) \in Int /\ LossPerSet(opp, Risk) \in Int
    BY <1>4, <1>5, <1>8, RiskNumbers DEF LossPerAttempt
  <1>11. MinOrderSize(opp) \in Int /\ Min({l.maxSizeByDepth : l \in opp.legs}) \in Int
    BY <1>7, <1>9 DEF MinOrderSize
  <1> QED
    BY <1>3, <1>4, <1>8, <1>10, <1>11

\* The least of finitely many numbers is one.
LEMMA LeastType ==
    ASSUME NEW S, IsFiniteSet(S), S \subseteq Int, S # {}
    PROVE  Min(S) \in Int
  BY LeastOfSome

\* The caps that every opportunity has.
LEMMA PlainCaps ==
    ASSUME NEW opp, OppTyped(opp), NEW s, SnapshotTyped(s), Cost(opp) > 0,
           LossPerSet(opp, Risk) > 0
    PROVE  /\ maxSizeByDepth(opp, Risk) \in Int
           /\ calculateMaxSizeByUnwindBudget(opp, s, Risk) \in Int
           /\ maxSizeByDailyLoss(opp, s, Risk) \in Int
           /\ maxSizeByTradeFraction(opp, s, Risk) \in Int
  <1>1. /\ Cost(opp) \in Int /\ LossPerAttempt(opp, Risk) \in Int /\ LossPerSet(opp, Risk) \in Int
        /\ Min({l.maxSizeByDepth : l \in opp.legs}) \in Int
    BY LegSums
  <1>2. s.totalCapital \in Int /\ s.availableCapital \in Int /\ s.dailyPnL \in Int
    BY DEF SnapshotTyped
  <1>3. maxSizeByDepth(opp, Risk) \in Int
    BY <1>1, RiskNumbers, Quotient DEF maxSizeByDepth
  <1>4. calculateMaxSizeByUnwindBudget(opp, s, Risk) \in Int
    <2> DEFINE share == (s.availableCapital * Risk.maxUnwindLossPct) \div 100
               most == Min({share, Risk.maxPerTradeLoss})
    <2>1. share \in Int
      BY <1>2, RiskNumbers
    <2>2. most \in Int
      <3> HIDE DEF share
      <3> QED
        BY <2>1, RiskNumbers, MinOfTwo
    <2>3. calculateMaxSizeByUnwindBudget(opp, s, Risk)
            = IF most <= 0 \/ LossPerAttempt(opp, Risk) <= 0 THEN 0
              ELSE most \div LossPerAttempt(opp, Risk)
      BY DEF calculateMaxSizeByUnwindBudget
    <2> HIDE DEF most
    <2> QED
      BY <1>1, <2>2, <2>3, Quotient
  <1>5. maxSizeByDailyLoss(opp, s, Risk) \in Int
    <2> DEFINE most == (Risk.dailyLossLimitPct * s.totalCapital) \div 100 + s.dailyPnL
               capital == Max({0, s.availableCapital})
    <2>1. most \in Int
      BY <1>2, RiskNumbers
    <2>2. capital \in Int
      BY <1>2, AtLeastSome
    <2>3. maxSizeByDailyLoss(opp, s, Risk)
            = IF Risk.dailyLossLimitPct > 0 THEN most \div LossPerSet(opp, Risk)
              ELSE capital \div Cost(opp)
      BY DEF maxSizeByDailyLoss
    <2> HIDE DEF most, capital
    <2> QED
      BY <1>1, <2>1, <2>2, <2>3, Quotient
  <1>6. maxSizeByTradeFraction(opp, s, Risk) \in Int
    <2> DEFINE share(pct) == (s.availableCapital * pct) \div (100 * Cost(opp))
               a == share(Risk.targetTradePct)
               b == share(Risk.maxTradePct)
               loss == LossPerAttempt(opp, Risk)
               c == (s.availableCapital * Risk.maxAttemptLossPct) \div (100 * loss)
               all == {a, b} \cup (IF loss > 0 THEN {c} ELSE {})
    <2>1. 100 * Cost(opp) \in Int /\ 100 * Cost(opp) > 0
          /\ s.availableCapital * Risk.targetTradePct \in Int
          /\ s.availableCapital * Risk.maxTradePct \in Int
          /\ s.availableCapital * Risk.maxAttemptLossPct \in Int
      BY <1>1, <1>2, RiskNumbers
    <2>2. a \in Int /\ b \in Int
      BY <2>1, Quotient
    <2>3. loss > 0 => c \in Int
      <3> SUFFICES ASSUME loss > 0
                   PROVE  c \in Int
        OBVIOUS
      <3>1. 100 * loss \in Int /\ 100 * loss > 0
        BY <1>1
      <3> QED
        BY <2>1, <3>1, Quotient
    <2>4. maxSizeByTradeFraction(opp, s, Risk) = IF s.availableCapital <= 0 THEN 0 ELSE Min(all)
      BY DEF maxSizeByTradeFraction
    <2> HIDE DEF a, b, c, loss
    <2>5. IsFiniteSet(all) /\ all \subseteq Int /\ all # {}
      <3>1. IsFiniteSet({a, b, c, c})
        BY FewAreFinite
      <3>2. all \subseteq {a, b, c, c}
        OBVIOUS
      <3>3. IsFiniteSet(all)
        BY <3>1, <3>2, FS_Subset
      <3> QED
        BY <2>2, <2>3, <3>3
    <2> HIDE DEF all
    <2>6. Min(all) \in Int
      BY <2>5, LeastType
    <2> QED
      BY <2>4, <2>6
  <1> QED
    BY <1>3, <1>4, <1>5, <1>6

\* The exposure of a market in the portfolio, and in all of them.
LEMMA ExposureType ==
    ASSUME NEW opp, OppTyped(opp), NEW s, SnapshotTyped(s)
    PROVE  /\ maxSizeByExposure(opp, s, Risk) \in Int
           /\ TotalExposure(s) \in Int
  <1> DEFINE rooms == [l \in opp.legs |-> ExposureHeadroom(l.marketId, s, Risk)
                                            \div Max({l.costPerSet, 1})]
             held == [m \in DOMAIN s.exposure |-> Max({0, s.exposure[m]})]
  <1>1. \A l \in opp.legs : rooms[l] \in Int
    <2> TAKE l \in opp.legs
    <2>1. l.marketId \in Markets /\ l.costPerSet \in Int
      BY DEF OppTyped, LegTyped
    <2>2. ExposureHeadroom(l.marketId, s, Risk) \in Int
      BY <2>1, RiskNumbers DEF ExposureHeadroom, SnapshotTyped
    <2>3. Max({l.costPerSet, 1}) \in Int /\ Max({l.costPerSet, 1}) > 0
      BY <2>1, AtLeastSome
    <2> QED
      BY <2>2, <2>3, Quotient
  <1>2. \A m \in Markets : held[m] \in Int
    <2> TAKE m \in Markets
    <2>1. s.exposure[m] \in Int /\ m \in DOMAIN s.exposure
      BY DEF SnapshotTyped
    <2> QED
      BY <2>1, AtLeastSome
  <1>3. DOMAIN s.exposure = Markets /\ IsFiniteSet(Markets)
    BY PipelineAssumption DEF SnapshotTyped
  <1>4. /\ maxSizeByExposure(opp, s, Risk) = Min(Range(rooms))
        /\ TotalExposure(s) = SumFunction(held)
    <2>1. Range(rooms)
            = {ExposureHeadroom(l.marketId, s, Risk) \div Max({l.costPerSet, 1}) : l \in opp.legs}
      BY DEF Range
    <2> QED
      BY <2>1 DEF maxSizeByExposure, TotalExposure, SumOver
  <1>5. /\ DOMAIN rooms = opp.legs /\ DOMAIN held = Markets
        /\ IsFiniteSet(opp.legs) /\ opp.legs # {}
    BY <1>3 DEF OppTyped
  <1> HIDE DEF rooms, held
  <1>6. Min(Range(rooms)) \in Int
    BY <1>1, <1>5, OverSome
  <1>7. SumFunction(held) \in Int
    BY <1>2, <1>3, <1>5, OverSome
  <1> QED
    BY <1>4, <1>6, <1>7

\* The exposure lets every leg have its size.
LEMMA LegRooms ==
    ASSUME NEW opp, OppTyped(opp), NEW s, SnapshotTyped(s), NEW l \in opp.legs
    PROVE  maxSizeByExposure(opp, s, Risk)
             <= ExposureHeadroom(l.marketId, s, Risk) \div Max({l.costPerSet, 1})
  <1> DEFINE room(k) == ExposureHeadroom(k.marketId, s, Risk) \div Max({k.costPerSet, 1})
             rooms == [k \in opp.legs |-> room(k)]
  <1>1. \A k \in opp.legs : room(k) \in Int
    <2> TAKE k \in opp.legs
    <2>1. k.marketId \in Markets /\ k.costPerSet \in Int
      BY DEF OppTyped, LegTyped
    <2>2. ExposureHeadroom(k.marketId, s, Risk) \in Int
      BY <2>1, RiskNumbers DEF ExposureHeadroom, SnapshotTyped
    <2>3. Max({k.costPerSet, 1}) \in Int /\ Max({k.costPerSet, 1}) > 0
      BY <2>1, AtLeastSome
    <2> QED
      BY <2>2, <2>3, Quotient
  <1>2. maxSizeByExposure(opp, s, Risk) = Min({room(k) : k \in opp.legs})
    BY DEF maxSizeByExposure
  <1> HIDE DEF room
  <1>3. Range(rooms) = {room(k) : k \in opp.legs} /\ DOMAIN rooms = opp.legs
        /\ \A k \in opp.legs : rooms[k] \in Int
    BY <1>1 DEF Range
  <1>4. IsFiniteSet(opp.legs)
    BY DEF OppTyped
  <1>5. rooms[l] \in Range(rooms) /\ rooms[l] = room(l)
    BY DEF Range
  <1> HIDE DEF rooms
  <1>6. IsFiniteSet(Range(rooms)) /\ Range(rooms) \subseteq Int
    BY <1>3, <1>4, OverSome
  <1>7. Min(Range(rooms)) <= rooms[l]
    <2>1. Range(rooms) # {}
      BY <1>5
    <2> QED
      BY <1>5, <1>6, <2>1, LeastOfSome
  <1> QED
    BY <1>2, <1>3, <1>5, <1>7 DEF room

\* The caps on notional are finitely many numbers.
LEMMA NotionalCapsType ==
    ASSUME NEW opp, OppTyped(opp), NEW s, SnapshotTyped(s), Cost(opp) > 0
    PROVE  IsFiniteSet(NotionalCaps(opp, s, Risk)) /\ NotionalCaps(opp, s, Risk) \subseteq Int
  <1> DEFINE room(limit) == (limit - TotalExposure(s)) \div Cost(opp)
             used(l) == IF opp.type = "fw_basket" THEN s.exposure[l.marketId] ELSE 0
             each(most) == {(most - used(l)) \div Max({l.costPerSet, 1}) : l \in opp.legs}
             caps(most, portfolio) == (IF most > 0 THEN each(most) ELSE {})
                                        \cup (IF portfolio > 0 THEN {room(portfolio)} ELSE {})
  <1>1. \A limit \in Int : room(limit) \in Int
    <2>1. TotalExposure(s) \in Int /\ Cost(opp) \in Int
      BY ExposureType, LegSums
    <2> QED
      BY <2>1, Quotient
  <1>2. ASSUME NEW most \in Int
        PROVE  IsFiniteSet(each(most)) /\ each(most) \subseteq Int
    <2> DEFINE f == [l \in opp.legs |-> (most - used(l)) \div Max({l.costPerSet, 1})]
    <2>1. \A l \in opp.legs : f[l] \in Int
      <3> TAKE l \in opp.legs
      <3>1. l.marketId \in Markets /\ l.costPerSet \in Int
        BY DEF OppTyped, LegTyped
      <3>2. most - used(l) \in Int
        BY <3>1 DEF SnapshotTyped
      <3>3. Max({l.costPerSet, 1}) \in Int /\ Max({l.costPerSet, 1}) > 0
        BY <3>1, AtLeastSome
      <3> HIDE DEF used
      <3> QED
        BY <3>2, <3>3, Quotient
    <2>2. each(most) = Range(f) /\ DOMAIN f = opp.legs /\ IsFiniteSet(opp.legs)
      BY DEF OppTyped, Range
    <2> HIDE DEF f
    <2>3. IsFiniteSet(Range(f)) /\ Range(f) \subseteq Int
      BY <2>1, <2>2, OverSome
    <2> QED
      BY <2>2, <2>3
  <1>3. NotionalCaps(opp, s, Risk)
          \in {caps(Risk.evMaxPerMarketNotional, Risk.evMaxPortfolioNotional),
               caps(Risk.fwMaxPerMarketNotional, Risk.fwMaxPortfolioNotional), {}}
    BY DEF NotionalCaps
  <1> HIDE DEF each, room
  <1>4. ASSUME NEW most \in Int, NEW portfolio \in Int
        PROVE  IsFiniteSet(caps(most, portfolio)) /\ caps(most, portfolio) \subseteq Int
    <2>1. IsFiniteSet(each(most)) /\ each(most) \subseteq Int /\ room(portfolio) \in Int
      BY <1>1, <1>2
    <2>2. /\ IsFiniteSet({}) /\ IsFiniteSet({room(portfolio)})
          /\ IsFiniteSet(each(most) \cup {room(portfolio)})
      BY <2>1, FS_EmptySet, FS_Singleton, FS_AddElement
    <2>3. caps(most, portfolio)
            \in {{}, each(most), {room(portfolio)}, each(most) \cup {room(portfolio)}}
      OBVIOUS
    <2> HIDE DEF caps
    <2> QED
      BY <2>1, <2>2, <2>3
  <1>5. IsFiniteSet({})
    BY FS_EmptySet
  <1> HIDE DEF caps
  <1> DEFINE ev == caps(Risk.evMaxPerMarketNotional, Risk.evMaxPortfolioNotional)
             fw == caps(Risk.fwMaxPerMarketNotional, Risk.fwMaxPortfolioNotional)
  <1>6. IsFiniteSet(ev) /\ ev \subseteq Int /\ IsFiniteSet(fw) /\ fw \subseteq Int
    BY <1>4, RiskNumbers
  <1>7. NotionalCaps(opp, s, Risk) \in {ev, fw, {}}
    BY <1>3
  <1> HIDE DEF ev, fw
  <1> QED
    BY <1>5, <1>6, <1>7

\* The hard cap is the smallest of the caps.
LEMMA HardCapIs ==
    ASSUME NEW opp, OppTyped(opp), NEW s, SnapshotTyped(s), Cost(opp) > 0,
           LossPerSet(opp, Risk) > 0
    PROVE  LET caps == NotionalCaps(opp, s, Risk)
               hard == HardCap(opp, s, Risk, caps)
           IN  /\ hard \in Int
               /\ hard <= maxSizeByDepth(opp, Risk)
               /\ hard <= calculateMaxSizeByUnwindBudget(opp, s, Risk)
               /\ hard <= maxSizeByDailyLoss(opp, s, Risk)
               /\ hard <= maxSizeByExposure(opp, s, Risk)
               /\ \A cap \in caps : hard <= cap
  <1> DEFINE caps == NotionalCaps(opp, s, Risk)
             hard == HardCap(opp, s, Risk, caps)
             a == maxSizeByDepth(opp, Risk)
             b == calculateMaxSizeByUnwindBudget(opp, s, Risk)
             c == maxSizeByDailyLoss(opp, s, Risk)
             d == maxSizeByExposure(opp, s, Risk)
             all == {a, b, c, d} \cup caps
  <1>1. a \in Int /\ b \in Int /\ c \in Int /\ d \in Int
    BY PlainCaps, ExposureType
  <1>2. IsFiniteSet(caps) /\ caps \subseteq Int
    BY NotionalCapsType
  <1>3. hard = Min(all)
    BY DEF HardCap
  <1> HIDE DEF a, b, c, d, caps, hard
  <1>4. IsFiniteSet({a, b, c, d})
    BY FewAreFinite
  <1>5. IsFiniteSet(all) /\ all \subseteq Int /\ all # {}
    BY <1>1, <1>2, <1>4, FS_Union
  <1>6. hard \in all /\ \A x \in all : hard <= x
    <2> HIDE DEF all
    <2> QED
      BY <1>3, <1>5, LeastOfSome
  <1>7. /\ hard \in Int /\ hard <= a /\ hard <= b /\ hard <= c /\ hard <= d
        /\ \A cap \in caps : hard <= cap
    BY <1>5, <1>6
  <1> QED
    BY <1>7 DEF hard, caps, a, b, c, d

\* When risk approves, there is something to trade: at least the minimum, at most the cap.
LEMMA ApprovedSize ==
    ASSUME NEW opp, OppTyped(opp), NEW s, SnapshotTyped(s), evaluate(opp, s, Risk).approved
    PROVE  LET size == evaluate(opp, s, Risk).size
           IN  /\ Cost(opp) > 0 /\ LossPerSet(opp, Risk) > 0
               /\ size \in Nat \ {0} /\ MinOrderSize(opp) <= size
               /\ size <= HardCap(opp, s, Risk, NotionalCaps(opp, s, Risk))
  <1> DEFINE caps == NotionalCaps(opp, s, Risk)
             fraction == maxSizeByTradeFraction(opp, s, Risk)
             hard == HardCap(opp, s, Risk, caps)
             size == Min({fraction, hard})
             minimum == MinOrderSize(opp)
             free == Cost(opp) <= 0
             unbounded == LossPerSet(opp, Risk) <= 0
             late == Risk.maxOpenInventoryMs > 0 /\ s.openInventoryAgeMs > Risk.maxOpenInventoryMs
             loss == DailyLossBeyond(s, Risk.dailyLossLimitPct)
             drawdown == DailyLossBeyond(s, Risk.maxDailyDrawdownPct)
             full == \E l \in opp.legs : ExposureHeadroom(l.marketId, s, Risk) <= 0
             bps == /\ Risk.unwindSlippageToleranceBps > 0
                    /\ LossPerAttempt(opp, Risk) * 10000
                         > Risk.unwindSlippageToleranceBps * Cost(opp)
             conditions == {<<"invalid_cost_per_set", free>>, <<"open_inventory_timeout", late>>,
                            <<"daily_loss_limit", loss>>, <<"daily_drawdown_limit", drawdown>>,
                            <<"market_exposure_limit", full>>,
                            <<"unwind_loss_unbounded", unbounded>>,
                            <<"unwind_loss_bps_exceeded", bps>>}
  <1>1. Refusals(opp, s, Risk) = {c[1] : c \in {d \in conditions : d[2]}}
    BY DEF Refusals
  <1>2. Refusals(opp, s, Risk) = {}
        /\ evaluate(opp, s, Risk) = SizeDecision(opp, fraction, hard, caps)
    BY DEF evaluate, Evaluated, Rejected
  <1>3. ~free /\ ~unbounded
    <2> HIDE DEF free, unbounded, late, loss, drawdown, full, bps
    <2>1. <<"invalid_cost_per_set", free>> \in conditions
          /\ <<"unwind_loss_unbounded", unbounded>> \in conditions
      OBVIOUS
    <2> HIDE DEF conditions
    <2> QED
      BY <1>1, <1>2, <2>1, NoReason
  <1>4. Cost(opp) > 0 /\ LossPerSet(opp, Risk) > 0
    <2>1. Cost(opp) \in Int /\ LossPerSet(opp, Risk) \in Int
      BY LegSums
    <2>2. ~(Cost(opp) <= 0) /\ ~(LossPerSet(opp, Risk) <= 0)
      BY <1>3
    <2> QED
      BY <2>1, <2>2
  <1>5. hard \in Int
    BY <1>4, HardCapIs
  <1>6. size \in Int /\ size <= hard
    <2>1. fraction \in Int
      BY <1>4, PlainCaps
    <2> HIDE DEF fraction, hard
    <2> QED
      BY <1>5, <2>1 DEF Min
  <1>7. minimum \in Int
    BY LegSums
  <1>8. evaluate(opp, s, Risk) = SizeBetween(size, minimum, hard)
    BY <1>2 DEF SizeDecision, Rejected
  <1> DEFINE given == evaluate(opp, s, Risk).size
  <1>9. given \in Nat \ {0} /\ minimum <= given /\ given <= hard
    <2> HIDE DEF size, minimum, hard
    <2> QED
      BY <1>5, <1>6, <1>7, <1>8 DEF SizeBetween, Approved, Rejected
  <1> QED
    BY <1>4, <1>9

\* A number within a quotient is within the whole when multiplied.
LEMMA WithinQuotient ==
    ASSUME NEW n \in Int, NEW a \in Int, NEW b \in Int, b > 0, n <= a \div b
    PROVE  n * b <= a
  <1> DEFINE q == a \div b
  <1>1. q \in Int /\ q * b <= a
    OBVIOUS
  <1> HIDE DEF q
  <1>2. n <= q
    BY DEF q
  <1>3. n * b <= q * b
    <2>1. \A u, v \in Int : u <= v => u * b <= v * b
      OBVIOUS
    <2> QED
      BY <1>1, <1>2, <2>1
  <1>4. n * b \in Int /\ q * b \in Int
    BY <1>1
  <1> QED
    BY <1>1, <1>3, <1>4

\* What risk approves respects its limits, the minimum order size included: unwinding it
\* loses no more than the budget of one trade and its share of the capital, and each leg
\* stays within what its market may still be exposed to.
THEOREM ApprovedWithinLimits ==
    ASSUME NEW opp, OppTyped(opp), NEW s, SnapshotTyped(s), evaluate(opp, s, Risk).approved
    PROVE  LET size == evaluate(opp, s, Risk).size
           IN  /\ LossPerAttempt(opp, Risk) > 0
               /\ size * LossPerAttempt(opp, Risk) <= Risk.maxPerTradeLoss
               /\ 100 * (size * LossPerAttempt(opp, Risk))
                    <= s.availableCapital * Risk.maxUnwindLossPct
               /\ \A l \in opp.legs :
                    size * l.costPerSet <= ExposureHeadroom(l.marketId, s, Risk)
               /\ \A cap \in NotionalCaps(opp, s, Risk) : size <= cap
  <1> DEFINE size == evaluate(opp, s, Risk).size
             hard == HardCap(opp, s, Risk, NotionalCaps(opp, s, Risk))
             budget == calculateMaxSizeByUnwindBudget(opp, s, Risk)
             room == maxSizeByExposure(opp, s, Risk)
             attempt == LossPerAttempt(opp, Risk)
  <1>1. /\ Cost(opp) > 0 /\ LossPerSet(opp, Risk) > 0
        /\ size \in Nat \ {0} /\ size <= hard
    BY ApprovedSize
  <1>2. /\ hard \in Int /\ hard <= budget /\ hard <= room
        /\ \A cap \in NotionalCaps(opp, s, Risk) : hard <= cap
    BY <1>1, HardCapIs
  <1>3. budget \in Int /\ room \in Int
    BY <1>1, PlainCaps, ExposureType
  <1>4. NotionalCaps(opp, s, Risk) \subseteq Int
    BY <1>1, NotionalCapsType
  <1>5. attempt \in Int
    BY LegSums
  <1>6. s.availableCapital \in Int
    BY DEF SnapshotTyped
  <1> DEFINE given == s.availableCapital * Risk.maxUnwindLossPct
             share == given \div 100
             most == Min({share, Risk.maxPerTradeLoss})
  <1>7. budget = IF most <= 0 \/ attempt <= 0 THEN 0 ELSE most \div attempt
    BY DEF calculateMaxSizeByUnwindBudget
  <1>8. given \in Int /\ share \in Int /\ Risk.maxPerTradeLoss \in Int
    BY <1>6, RiskNumbers
  <1>9. most \in Int /\ most <= share /\ most <= Risk.maxPerTradeLoss
    <2> HIDE DEF share
    <2> QED
      BY <1>8 DEF Min
  <1>10. \A cap \in NotionalCaps(opp, s, Risk) : size <= cap
    <2> HIDE DEF size, hard
    <2> QED
      BY <1>1, <1>2, <1>4
  <1>11. ASSUME NEW l \in opp.legs
         PROVE  size * l.costPerSet <= ExposureHeadroom(l.marketId, s, Risk)
    <2> DEFINE rooms == [k \in opp.legs |-> ExposureHeadroom(k.marketId, s, Risk)
                                              \div Max({k.costPerSet, 1})]
               most1 == Max({l.costPerSet, 1})
               headroom == ExposureHeadroom(l.marketId, s, Risk)
    <2>1. room <= headroom \div most1
      BY <1>1, LegRooms
    <2>2. headroom \in Int /\ l.costPerSet \in Int
      <3>1. l.marketId \in Markets /\ l.costPerSet \in Int
        BY DEF OppTyped, LegTyped
      <3> QED
        BY <3>1, RiskNumbers DEF ExposureHeadroom, SnapshotTyped
    <2>3. most1 \in Int /\ most1 > 0 /\ l.costPerSet <= most1
      BY <2>2 DEF Max
    <2>4. headroom \div most1 \in Int
      BY <2>2, <2>3, Quotient
    <2> HIDE DEF most1, headroom, size, hard, room
    <2>5. size <= headroom \div most1
      BY <1>1, <1>2, <1>3, <2>1, <2>4
    <2>6. size * most1 <= headroom
      BY <1>1, <2>2, <2>3, <2>5, WithinQuotient
    <2>7. size * l.costPerSet <= size * most1
      <3>1. \A u, v \in Int : u <= v => size * u <= size * v
        BY <1>1
      <3> QED
        BY <2>2, <2>3, <3>1
    <2>8. size * l.costPerSet \in Int /\ size * most1 \in Int
      BY <1>1, <2>2, <2>3
    <2>9. size * l.costPerSet <= headroom
      BY <2>2, <2>6, <2>7, <2>8
    <2> QED
      BY <2>9 DEF headroom
  <1>12. attempt > 0 /\ size * attempt <= most
    <2> HIDE DEF size, hard, budget, attempt, most, room
    <2>1. size <= budget /\ budget > 0
      BY <1>1, <1>2, <1>3
    <2>2. attempt > 0 /\ size <= most \div attempt
      BY <1>5, <1>7, <1>9, <2>1
    <2>3. size * attempt <= most
      BY <1>1, <1>5, <1>9, <2>2, WithinQuotient
    <2> QED
      BY <2>2, <2>3
  <1> HIDE DEF most, attempt, share, given
  <1>13. size * attempt \in Int
    BY <1>1, <1>5
  <1>14. size * attempt <= Risk.maxPerTradeLoss /\ size * attempt <= share
    <2> DEFINE loss == size * attempt
    <2> HIDE DEF loss, size
    <2> QED
      BY <1>8, <1>9, <1>12, <1>13 DEF loss
  <1>15. 100 * (size * attempt) <= given
    <2> DEFINE loss == size * attempt
    <2>1. loss \in Int /\ loss <= given \div 100
      BY <1>13, <1>14 DEF share
    <2> HIDE DEF loss
    <2>2. loss * 100 <= given
      BY <1>8, <2>1, WithinQuotient
    <2>3. 100 * loss <= given
      BY <2>1, <2>2
    <2> QED
      BY <2>3 DEF loss
  <1> QED
    BY <1>10, <1>11, <1>12, <1>14, <1>15 DEF attempt, given

\* So it respects the cap on what one trade puts into one market.
LEMMA ApprovedWithinCap ==
    ASSUME NEW opp, OppTyped(opp), NEW s, SnapshotTyped(s), evaluate(opp, s, Risk).approved,
           PerMarketCap(opp) > 0, NEW l \in opp.legs
    PROVE  evaluate(opp, s, Risk).size * l.costPerSet <= PerMarketCap(opp)
  <1> DEFINE size == evaluate(opp, s, Risk).size
             most == PerMarketCap(opp)
             least == Max({l.costPerSet, 1})
             used(k) == IF opp.type = "fw_basket" THEN s.exposure[k.marketId] ELSE 0
             room == most - used(l)
  <1>1. most \in Int
    BY RiskNumbers DEF PerMarketCap
  <1>2. room \div least \in NotionalCaps(opp, s, Risk)
    <2>1. room \div least \in {(most - used(k)) \div Max({k.costPerSet, 1}) : k \in opp.legs}
      <3> HIDE DEF most, used
      <3> QED
        OBVIOUS
    <2>2. CASE opp.type = "ev"
      <3>1. most = Risk.evMaxPerMarketNotional /\ most > 0
        BY <2>2 DEF PerMarketCap
      <3> HIDE DEF most, least
      <3> QED
        BY <2>1, <2>2, <3>1 DEF NotionalCaps
    <2>3. CASE opp.type \in {"fw_projection", "fw_basket"}
      <3>1. most = Risk.fwMaxPerMarketNotional /\ most > 0 /\ opp.type # "ev"
        BY <2>3 DEF PerMarketCap
      <3> HIDE DEF most, least
      <3> QED
        BY <2>1, <2>3, <3>1 DEF NotionalCaps
    <2> QED
      BY <2>2, <2>3 DEF PerMarketCap
  <1>3. used(l) \in Nat
    BY DEF OppTyped, LegTyped, SnapshotTyped
  <1>4. size \in Nat \ {0} /\ size <= room \div least
    BY <1>2, ApprovedSize, ApprovedWithinLimits
  <1>5. l.costPerSet \in Int
    BY DEF OppTyped, LegTyped
  <1>6. least \in Int /\ least > 0 /\ l.costPerSet <= least
    BY <1>5 DEF Max
  <1> HIDE DEF size, most, least, used
  <1>7. room \in Int /\ room <= most
    BY <1>1, <1>3
  <1> HIDE DEF room
  <1>8. size * least <= room
    BY <1>4, <1>6, <1>7, WithinQuotient
  <1>9. size * l.costPerSet <= size * least
    <2>1. \A u, v \in Int : u <= v => size * u <= size * v
      BY <1>4
    <2> QED
      BY <1>5, <1>6, <2>1
  <1>10. size * l.costPerSet \in Int /\ size * least \in Int
    BY <1>4, <1>5, <1>6
  <1>11. size * l.costPerSet <= most
    BY <1>1, <1>7, <1>8, <1>9, <1>10
  <1> QED
    BY <1>11 DEF size, most

\* The minimum of an opportunity is no more than what risk orders at least.
LEMMA OwnMinimum ==
    ASSUME NEW opp, OppTyped(opp)
    PROVE  /\ opp.minOrderSize \in Int /\ MinOrderSize(opp) \in Int
           /\ opp.minOrderSize <= MinOrderSize(opp)
  <1> DEFINE minima == [l \in opp.legs |-> l.minOrderSize]
  <1>1. IsFiniteSet(opp.legs) /\ \A l \in opp.legs : l.minOrderSize \in Int
    BY DEF OppTyped, LegTyped
  <1>2. Range(minima) = {l.minOrderSize : l \in opp.legs} /\ DOMAIN minima = opp.legs
    BY DEF Range
  <1>3. PICK l \in opp.legs : opp.minOrderSize <= l.minOrderSize
    BY DEF OppTyped
  <1>4. \A k \in opp.legs : minima[k] \in Int
    BY <1>1
  <1>5. l.minOrderSize \in Range(minima)
    BY <1>2
  <1> HIDE DEF minima
  <1>6. IsFiniteSet(Range(minima)) /\ Range(minima) \subseteq Int
    BY <1>1, <1>2, <1>4, OverSome
  <1> DEFINE known == Range(minima) \cup {0}
  <1>7. IsFiniteSet(known) /\ known \subseteq Int /\ known # {} /\ l.minOrderSize \in known
    BY <1>5, <1>6, FS_AddElement
  <1> HIDE DEF known
  <1>8. l.minOrderSize <= Max(known) /\ Max(known) \in Int
    BY <1>7, GreatestOfSome
  <1>9. MinOrderSize(opp) = Max(known)
    BY <1>2 DEF MinOrderSize, known
  <1>10. opp.minOrderSize \in Int
    BY DEF OppTyped
  <1> QED
    BY <1>1, <1>3, <1>8, <1>9, <1>10

\* Whatever the advisor answers, there is something to trade, and no more than before.
LEMMA AdvisedSizeType ==
    ASSUME NEW opp, opp.minOrderSize \in Int, NEW n \in Nat \ {0}, opp.minOrderSize <= n,
           NEW r \in Recommended \cup {NoAnswer}
    PROVE  AdvisedSize(opp, n, r) \in 1 .. n
  <1> DEFINE least == Max({opp.minOrderSize, 0})
             low == Min({least, n})
             high == Min({r, n})
             clamped == recommendSize(r, least, n)
  <1>1. r \in Int
    BY NumbersAssumption DEF NoAnswer
  <1>2. least \in Int
    BY AtLeastSome
  <1>3. low \in Int /\ high \in Int /\ low <= n /\ high <= n
    <2> HIDE DEF least
    <2> QED
      BY <1>1, <1>2 DEF Min
  <1>4. clamped \in Int /\ clamped <= n
    <2>1. Max({low, high}) \in Int /\ Max({low, high}) <= n
      <3> HIDE DEF low, high
      <3> QED
        BY <1>3 DEF Max
    <2>2. clamped = IF r = NoAnswer THEN n ELSE Max({low, high})
      BY DEF recommendSize
    <2> HIDE DEF low, high, least, clamped
    <2> QED
      BY <2>1, <2>2
  <1>5. AdvisedSize(opp, n, r) = IF clamped <= 0 THEN n ELSE Max({clamped, opp.minOrderSize})
    BY DEF AdvisedSize
  <1> HIDE DEF clamped
  <1>6. /\ Max({clamped, opp.minOrderSize}) \in Int
        /\ clamped <= Max({clamped, opp.minOrderSize}) /\ Max({clamped, opp.minOrderSize}) <= n
    BY <1>4 DEF Max
  <1> QED
    BY <1>4, <1>5, <1>6

\* What the portfolio tells risk is typed.
LEMMA PortfolioTyped ==
    ASSUME exposure \in [Markets -> Nat]
    PROVE  SnapshotTyped(Snapshot)
  <1> DEFINE deployed == SumFunction([m \in Markets |-> exposure[m]])
             free == Max({0, TotalCapital - deployed})
  <1>1. deployed \in Int
    <2>1. exposure = [m \in Markets |-> exposure[m]] /\ IsFiniteSet(Markets)
          /\ DOMAIN exposure = Markets /\ \A m \in Markets : exposure[m] \in Int
      BY PipelineAssumption
    <2>2. SumFunction(exposure) \in Int
      BY <2>1, OverSome
    <2> QED
      BY <2>1, <2>2
  <1>2. TotalCapital \in Int /\ TotalCapital - deployed \in Int
    <2> HIDE DEF deployed
    <2> QED
      BY <1>1, PipelineAssumption
  <1>3. free \in Int
    <2> HIDE DEF deployed
    <2> QED
      BY <1>2, AtLeastSome
  <1>4. /\ Snapshot.totalCapital = TotalCapital /\ Snapshot.availableCapital = free
        /\ Snapshot.dailyPnL = 0 /\ Snapshot.exposure = exposure
    BY DEF Snapshot, SumOver
  <1> QED
    BY <1>2, <1>3, <1>4 DEF SnapshotTyped

-----------------------------------------------------------------------------
\* A scan of typed books announces typed opportunities.
LEMMA OpportunityTyped ==
    ASSUME NEW type, NEW side, NEW m \in Markets, NEW yes, NEW no, BookTyped(yes), BookTyped(no),
           NEW gate, DecisionTyped(gate), NEW minimum \in Int, NEW confidence, NEW t
    PROVE  LET opp == Opportunity(type, side, m, yes, no, gate, minimum, confidence, t)
           IN  /\ OppTyped(opp)
               /\ {"type", "legs", "marketId", "tickSize", "minOrderSize"} \subseteq DOMAIN opp
               /\ opp.type = type
  <1> DEFINE opp == Opportunity(type, side, m, yes, no, gate, minimum, confidence, t)
             tick == Max({yes.tickSize, no.tickSize})
             leg == Leg(m, gate.costPerSet, gate.maxSizeByDepth, minimum, tick)
  <1>1. tick \in Int
    BY MaxOfTwo DEF BookTyped
  <1>2. /\ opp.legs = {leg} /\ opp.marketId = m /\ opp.tickSize = tick
        /\ opp.minOrderSize = minimum /\ opp.type = type
        /\ {"type", "legs", "marketId", "tickSize", "minOrderSize"} \subseteq DOMAIN opp
    BY DEF Opportunity
  <1> HIDE DEF opp, tick
  <1>3. LegTyped(leg) /\ minimum <= leg.minOrderSize
    BY <1>1 DEF LegTyped, Leg, DecisionTyped
  <1> HIDE DEF leg
  <1>4. OppTyped(opp)
    BY <1>1, <1>2, <1>3, FS_Singleton DEF OppTyped
  <1> QED
    BY <1>2, <1>4 DEF opp

\* The settings of the policy that prices and sizes are compared with.
LEMMA PolicyTyped ==
    ASSUME PipelineInv
    PROVE  /\ policy.depthHeadroomPct \in Int /\ policy.edgeRequired \in Int
           /\ policy.entrySlippageToleranceBps \in Nat
  BY NumbersAssumption DEF PipelineInv, PipelineTypes

\* What a scan of a pair finds is typed.
LEMMA ScanTyped ==
    ASSUME PipelineInv, NEW m \in Markets, NEW yes, NEW no, BookTyped(yes), BookTyped(no)
    PROVE  ScannedPair(m, yes, no) = Nothing \/ OppTyped(ScannedPair(m, yes, no))
  <1> DEFINE fees == evaluateGatesWithFees(yes, no, policy, now, NoSize, Fee)
             pair == NearZeroOpportunity(m, yes, no, fees, policy, now)
             signal == Signal(getInsight(insights[m], now), policy)
             ev == EvOpportunity(m, yes, no, policy, signal, lastEvAt[m], now)
  <1>1. yes.minOrderSize \in Int /\ no.minOrderSize \in Int
    BY DEF BookTyped
  <1>2. pair = Nothing \/ OppTyped(pair)
    <2>1. DecisionTyped(fees)
      BY PairGatesTyped, PolicyTyped
    <2>2. Max({yes.minOrderSize, no.minOrderSize}) \in Int
      BY <1>1, MaxOfTwo
    <2> HIDE DEF fees
    <2>3. OppTyped(Opportunity("near_zero", "none", m, yes, no, fees,
                               Max({yes.minOrderSize, no.minOrderSize}), 0, now))
      BY <2>1, <2>2, OpportunityTyped
    <2> QED
      BY <2>3 DEF NearZeroOpportunity
  <1>3. ev = Nothing \/ OppTyped(ev)
    <2>1. ASSUME NEW side, NEW edge
          PROVE  LET e == EvOnSide(side, m, yes, no, signal,
                                   evaluateEvGates(yes, no, policy, now, side, edge,
                                                   signal.confidence, NoSize), now)
                 IN  e = Nothing \/ OppTyped(e)
      <3> DEFINE gate == evaluateEvGates(yes, no, policy, now, side, edge, signal.confidence,
                                         NoSize)
                 minimum == Max({0, IF side = "yes" THEN yes.minOrderSize ELSE no.minOrderSize})
      <3>1. DecisionTyped(gate)
        BY PairGatesTyped, PolicyTyped
      <3>2. minimum \in Int
        BY <1>1, AtLeastSome
      <3> HIDE DEF gate, minimum
      <3>3. OppTyped(Opportunity("ev", side, m, yes, no, gate, minimum, signal.confidence, now))
        BY <3>1, <3>2, OpportunityTyped
      <3> QED
        BY <3>3 DEF EvOnSide, gate, minimum
    <2> QED
      BY <2>1 DEF EvOpportunity, BetterSide
  <1>4. ScannedPair(m, yes, no) \in {Nothing, pair, ev}
    BY DEF ScannedPair, evaluateScannerPair, LargerEdge
  <1> HIDE DEF pair, ev
  <1> QED
    BY <1>2, <1>3, <1>4

\* A tick or a minimum size that is missing is taken from elsewhere.
LEMMA FirstPositiveType ==
    ASSUME NEW a \in Int, NEW b \in Int, NEW c \in Int
    PROVE  FirstPositive(a, b, c) \in Int
  BY DEF FirstPositive

\* A snapshot becomes a typed book: levels without a size are dropped.
LEMMA NormalizedTyped ==
    ASSUME NEW raw \in Snapshots, NEW previous, BookTyped(previous), NEW t
    PROVE  BookTyped(normalizeOrderBook(raw, t, Defaults, previous))
  <1> DEFINE asks == normalizeLevels(raw.asks)
             tick == FirstPositive(raw.tickSize, previous.tickSize, Defaults.tickSize)
             minimum == FirstPositive(raw.minOrderSize, previous.minOrderSize,
                                      Defaults.minOrderSize)
             book == [bids |-> normalizeLevels(raw.bids), asks |-> asks, tickSize |-> tick,
                      minOrderSize |-> minimum, lastUpdateMs |-> t, stableSinceMs |-> t]
  <1>1. LevelsTyped(asks)
    <2> DEFINE kept == {q \in DOMAIN raw.asks : raw.asks[q] > 0}
    <2>1. IsFiniteSet(DOMAIN raw.asks) /\ DOMAIN raw.asks \subseteq Int
          /\ \A p \in DOMAIN raw.asks : raw.asks[p] \in Int
      BY NumbersAssumption
    <2>2. kept \subseteq DOMAIN raw.asks /\ \A p \in kept : raw.asks[p] > 0
      OBVIOUS
    <2>3. asks = [p \in kept |-> raw.asks[p]]
      BY DEF normalizeLevels
    <2> HIDE DEF kept, asks
    <2>4. DOMAIN asks = kept /\ \A p \in kept : asks[p] \in Nat
      BY <2>1, <2>2, <2>3
    <2>5. IsFiniteSet(kept)
      BY <2>1, <2>2, FS_Subset
    <2> QED
      BY <2>1, <2>2, <2>4, <2>5 DEF LevelsTyped
  <1>2. tick \in Int /\ minimum \in Int
    <2>1. raw.tickSize \in Int /\ raw.minOrderSize \in Int
      BY NumbersAssumption
    <2>2. Defaults.tickSize \in Int /\ Defaults.minOrderSize \in Int
      BY DEF Defaults
    <2> QED
      BY <2>1, <2>2, FirstPositiveType DEF BookTyped
  <1> DEFINE next == normalizeOrderBook(raw, t, Defaults, previous)
  <1>3. next = book \/ next = [book EXCEPT !.stableSinceMs = previous.stableSinceMs]
    BY DEF normalizeOrderBook
  <1> HIDE DEF asks, tick, minimum, next
  <1>4. next.asks = asks /\ next.tickSize = tick /\ next.minOrderSize = minimum
    BY <1>3
  <1> QED
    BY <1>1, <1>2, <1>4 DEF BookTyped, next

-----------------------------------------------------------------------------
\* No job starts in a step that leaves the jobs, or adds or drops one.
Starts(j) == jobs[j].stage = "sizing" /\ jobs'[j].stage = "executing"

\* An opportunity that is announced starts nothing.
LEMMA PlacedTyped ==
    ASSUME JobsTyped, JobsSized, NEW opp, OppTyped(opp), Place(opp)
    PROVE  JobsSized' /\ \A j \in Jobs : ~Starts(j)
  <1> DEFINE job == [stage |-> "ordering", opp |-> opp, size |-> 0]
  <1>1. PICK j \in Jobs : jobs' = [jobs EXCEPT ![j] = job]
    BY DEF Place
  <1>2. JobTyped(job) /\ JobInBudget(job) /\ job.stage = "ordering"
    BY DEF JobTyped, JobInBudget
  <1> HIDE DEF job
  <1>3. jobs'[j] = job /\ \A k \in Jobs \ {j} : jobs'[k] = jobs[k]
    BY <1>1 DEF JobsTyped
  <1> QED
    BY <1>2, <1>3 DEF JobsSized, Starts

\* Nor does one that is dropped.
LEMMA DroppedTyped ==
    ASSUME JobsTyped, JobsSized, NEW j \in Jobs, Drop(j)
    PROVE  JobsSized' /\ \A k \in Jobs : ~Starts(k)
  <1>1. jobs' = [jobs EXCEPT ![j] = IdleJob]
    BY DEF Drop
  <1>2. JobTyped(IdleJob) /\ JobInBudget(IdleJob) /\ IdleJob.stage = "idle"
    BY DEF JobTyped, JobInBudget, IdleJob
  <1>3. jobs'[j] = IdleJob /\ \A k \in Jobs \ {j} : jobs'[k] = jobs[k]
    BY <1>1 DEF JobsTyped
  <1> QED
    BY <1>2, <1>3 DEF JobsSized, Starts

\* One that goes on may start, and only that one.
LEMMA AdvancedTyped ==
    ASSUME JobsTyped, JobsSized, NEW j \in Jobs, jobs[j].stage # "idle",
           NEW stage \in {"sizing", "executing"}, NEW size \in Nat \ {0}, Advance(j, stage, size),
           stage = "sizing" => jobs[j].opp.minOrderSize <= size, InBudget(jobs[j].opp, size)
    PROVE  /\ JobsSized'
           /\ \A k \in Jobs : Starts(k) => k = j /\ stage = "executing"
           /\ jobs'[j].size = size
  <1> DEFINE job == [stage |-> stage, opp |-> jobs[j].opp, size |-> size]
  <1>1. jobs' = [jobs EXCEPT ![j] = job]
    BY AdvancedJob
  <1>2. JobTyped(job) /\ JobInBudget(job) /\ job.stage = stage /\ job.size = size
    <2>1. OppTyped(jobs[j].opp)
      BY DEF JobsSized, JobTyped
    <2> QED
      BY <2>1 DEF JobTyped, JobInBudget
  <1> HIDE DEF job
  <1>3. jobs'[j] = job /\ \A k \in Jobs \ {j} : jobs'[k] = jobs[k]
    BY <1>1 DEF JobsTyped
  <1> QED
    BY <1>2, <1>3 DEF JobsSized, Starts

\* A step that leaves the jobs alone starts none.
LEMMA SameJobs ==
    ASSUME JobsSized, UNCHANGED jobs
    PROVE  JobsSized' /\ \A j \in Jobs : ~Starts(j)
  BY DEF JobsSized, Starts, JobTyped, OppTyped, LegTyped, JobInBudget, InBudget, PerMarketCap

\* Jobs are records.
LEMMA JobsRecords ==
    ASSUME PipelineInv
    PROVE  JobsTyped
  BY DEF PipelineInv, PipelineTypes, JobsTyped

\* The two books of a market.
LEMMA MarketBooks ==
    ASSUME BooksTyped, NEW m \in Markets
    PROVE  BookTyped(Yes(m)) /\ BookTyped(No(m))
  BY DEF BooksTyped, Tokens, Yes, No

\* A market update replaces a book by a typed one, and announces at most what it found.
LEMMA UpdatePairs ==
    ASSUME PipelineInv, PairInv, NEW m \in Markets, NEW side \in {"yes", "no"},
           NEW raw \in Snapshots, MarketUpdated(m, side, raw)
    PROVE  PairInv' /\ \A j \in Jobs : ~Starts(j)
  <1> DEFINE t == <<m, side>>
             book == normalizeOrderBook(raw, now, Defaults, books[t])
             yes == books'[<<m, "yes">>]
             no == books'[<<m, "no">>]
             found == ScannedPair(m, yes, no)
  <1>1. t \in Tokens /\ BookTyped(books[t])
    BY DEF Tokens, PairInv, BooksTyped
  <1>2. BookTyped(book)
    BY <1>1, NormalizedTyped
  <1>3. books' = [books EXCEPT ![t] = book] /\ UNCHANGED exposure /\ Announce(m, found)
    BY DEF MarketUpdated
  <1> HIDE DEF book
  <1>4. BooksTyped'
    <2>1. \A u \in Tokens : books'[u] = IF u = t THEN book ELSE books[u]
      BY <1>1, <1>3 DEF PairInv, BooksTyped
    <2>2. DOMAIN books' = Tokens
      BY <1>1, <1>3 DEF PairInv, BooksTyped
    <2>3. Tokens' = Tokens
      BY DEF Tokens
    <2> HIDE DEF t
    <2> QED
      BY <1>2, <2>1, <2>2, <2>3 DEF PairInv, BooksTyped, BookTyped
  <1>5. BookTyped(yes) /\ BookTyped(no)
    BY <1>4 DEF BooksTyped, Tokens, BookTyped
  <1>6. found = Nothing \/ OppTyped(found)
    <2>1. \A y, n : BookTyped(y) /\ BookTyped(n)
                      => ScannedPair(m, y, n) = Nothing \/ OppTyped(ScannedPair(m, y, n))
      BY ScanTyped
    <2> HIDE DEF yes, no
    <2> QED
      BY <1>5, <2>1
  <1>7. UNCHANGED jobs \/ (found # Nothing /\ Place(found))
    BY <1>3 DEF Announce
  <1> HIDE DEF found
  <1>8. JobsSized' /\ \A j \in Jobs : ~Starts(j)
    <2>1. CASE UNCHANGED jobs
      BY <2>1, SameJobs DEF PairInv
    <2>2. CASE found # Nothing /\ Place(found)
      BY <1>6, <2>2, PlacedTyped, JobsRecords DEF PairInv
    <2> QED
      BY <1>7, <2>1, <2>2
  <1> QED
    BY <1>3, <1>4, <1>8 DEF PairInv

\* An opportunity of the projection is one of the books, with its projection.
LEMMA AmendedTyped ==
    ASSUME NEW opp, OppTyped(opp),
           {"type", "legs", "marketId", "tickSize", "minOrderSize"} \subseteq DOMAIN opp,
           NEW projection, NEW edge, NEW minimum \in Int, NEW legs, IsFiniteSet(legs), legs # {},
           \A l \in legs : LegTyped(l), \E l \in legs : minimum <= l.minOrderSize
    PROVE  /\ OppTyped([opp EXCEPT !.projection = projection])
           /\ OppTyped([opp EXCEPT !.legs = legs, !.projection = projection, !.edge = edge,
                                   !.minOrderSize = minimum])
  <1> DEFINE one == [opp EXCEPT !.projection = projection]
             all == [opp EXCEPT !.legs = legs, !.projection = projection, !.edge = edge,
                                !.minOrderSize = minimum]
  <1>1. /\ one.legs = opp.legs /\ one.marketId = opp.marketId /\ one.tickSize = opp.tickSize
        /\ one.minOrderSize = opp.minOrderSize
    OBVIOUS
  <1>2. /\ all.legs = legs /\ all.marketId = opp.marketId /\ all.tickSize = opp.tickSize
        /\ all.minOrderSize = minimum
    OBVIOUS
  <1> HIDE DEF one, all
  <1>3. OppTyped(one)
    BY <1>1 DEF OppTyped
  <1>4. OppTyped(all)
    BY <1>2 DEF OppTyped
  <1> QED
    BY <1>3, <1>4 DEF one, all

\* The projection of one market announces a typed opportunity.
LEMMA FwScanPairs ==
    ASSUME PipelineInv, PairInv, NEW m \in Markets, NEW p, FwScan(m, p)
    PROVE  \E opp : OppTyped(opp) /\ Place(opp)
  <1> DEFINE gate == evaluateFwProjectionGates(Yes(m), No(m), policy, now, Projected(m, p), NoSize)
             minimum == Max({Yes(m).minOrderSize, No(m).minOrderSize})
             opp == Opportunity("fw_projection", "none", m, Yes(m), No(m), gate, minimum, 0, now)
             amended == [opp EXCEPT !.projection = Projected(m, p)]
  <1>1. BookTyped(Yes(m)) /\ BookTyped(No(m))
    BY MarketBooks DEF PairInv
  <1>2. DecisionTyped(gate)
    BY <1>1, PairGatesTyped, PolicyTyped
  <1>3. minimum \in Int
    BY <1>1, MaxOfTwo DEF BookTyped
  <1>4. Place(amended)
    BY DEF FwScan
  <1> HIDE DEF gate, minimum
  <1>5. /\ OppTyped(opp)
        /\ {"type", "legs", "marketId", "tickSize", "minOrderSize"} \subseteq DOMAIN opp
    BY <1>1, <1>2, <1>3, OpportunityTyped
  <1> HIDE DEF opp
  <1>6. OppTyped(amended)
    <2>1. /\ IsFiniteSet(opp.legs) /\ opp.legs # {} /\ \A l \in opp.legs : LegTyped(l)
          /\ opp.minOrderSize \in Int /\ \E l \in opp.legs : opp.minOrderSize <= l.minOrderSize
      BY <1>5 DEF OppTyped
    <2> QED
      BY <1>5, <2>1, AmendedTyped
  <1> QED
    BY <1>4, <1>6

\* So does a basket: its legs are one for each market.
LEMMA BasketScanPairs ==
    ASSUME PipelineInv, PairInv, NEW members \in SUBSET Markets, NEW p,
           FwBasketScan(members, p)
    PROVE  \E opp : OppTyped(opp) /\ Place(opp)
  <1> DEFINE aged == [p EXCEPT !.projectionAgeMs = Max({ProjectionAge(m) : m \in members})]
             gate(m) == evaluateFwProjectionGates(Yes(m), No(m), policy, now, aged, NoSize)
             plain(m) == Leg(m, gate(m).costPerSet, gate(m).maxSizeByDepth,
                             Max({Yes(m).minOrderSize, No(m).minOrderSize}),
                             Max({Yes(m).tickSize, No(m).tickSize}))
             leg(m) == [plain(m) EXCEPT !.edgeLowerBound = p.edgeLowerBound]
             first == CHOOSE m \in members : TRUE
             opp == Opportunity("fw_basket", "none", first, Yes(first), No(first), gate(first), 1,
                                0, now)
             legs == {leg(m) : m \in members}
             least == Max({leg(m).minOrderSize : m \in members})
             amended == [opp EXCEPT !.legs = legs, !.projection = aged,
                                    !.edge = p.edgeLowerBound, !.minOrderSize = least]
  <1>1. Place(amended)
    BY DEF FwBasketScan
  <1>2. IsFiniteSet(members) /\ members # {} /\ first \in members /\ first \in Markets
    <2>1. IsFiniteSet(members)
      BY PipelineAssumption, FS_Subset
    <2>2. members # {}
      BY DEF FwBasketScan
    <2> QED
      BY <2>1, <2>2
  <1>3. ASSUME NEW m \in members
        PROVE  BookTyped(Yes(m)) /\ BookTyped(No(m)) /\ DecisionTyped(gate(m))
    <2>1. BookTyped(Yes(m)) /\ BookTyped(No(m))
      BY MarketBooks DEF PairInv
    <2> HIDE DEF aged
    <2> QED
      BY <2>1, PairGatesTyped, PolicyTyped
  <1> HIDE DEF gate
  <1>4. ASSUME NEW m \in members
        PROVE  LegTyped(leg(m)) /\ leg(m).minOrderSize \in Int
    <2> DEFINE minimum == Max({Yes(m).minOrderSize, No(m).minOrderSize})
               tick == Max({Yes(m).tickSize, No(m).tickSize})
    <2>1. minimum \in Int /\ tick \in Int
      BY <1>3, MaxOfTwo DEF BookTyped
    <2>2. gate(m).costPerSet \in Nat /\ gate(m).maxSizeByDepth \in Int
      BY <1>3 DEF DecisionTyped
    <2> HIDE DEF minimum, tick
    <2>3. /\ leg(m).marketId = m /\ leg(m).costPerSet = gate(m).costPerSet
          /\ leg(m).maxSizeByDepth = gate(m).maxSizeByDepth
          /\ leg(m).minOrderSize = minimum /\ leg(m).tickSize = tick
      BY DEF Leg, minimum, tick
    <2> HIDE DEF leg
    <2> QED
      BY <2>1, <2>2, <2>3 DEF LegTyped
  <1> HIDE DEF leg, first
  <1>5. IsFiniteSet(legs) /\ legs # {} /\ \A l \in legs : LegTyped(l)
    <2> DEFINE f == [m \in members |-> leg(m)]
    <2>1. f = [m \in members |-> f[m]] /\ legs = {f[m] : m \in members}
      OBVIOUS
    <2> HIDE DEF f
    <2>2. IsFiniteSet({f[m] : m \in members})
      BY <1>2, <2>1, FiniteImage
    <2>3. legs # {} /\ \A l \in legs : LegTyped(l)
      BY <1>2, <1>4
    <2> QED
      BY <2>1, <2>2, <2>3
  <1>6. least \in Int /\ \E l \in legs : least <= l.minOrderSize
    <2> DEFINE f == [m \in members |-> leg(m).minOrderSize]
    <2>1. Range(f) = {leg(m).minOrderSize : m \in members} /\ DOMAIN f = members
          /\ \A m \in members : f[m] \in Int
      BY <1>4 DEF Range
    <2> HIDE DEF f
    <2>2. IsFiniteSet(Range(f)) /\ Range(f) \subseteq Int
      BY <1>2, <2>1, OverSome
    <2>3. Range(f) # {}
      BY <1>2, <2>1 DEF Range
    <2>4. least \in Int /\ least \in Range(f)
      BY <2>1, <2>2, <2>3, GreatestOfSome
    <2>5. PICK m \in members : least = leg(m).minOrderSize
      BY <2>1, <2>4
    <2> HIDE DEF least
    <2> QED
      BY <2>4, <2>5
  <1>7. /\ OppTyped(opp)
        /\ {"type", "legs", "marketId", "tickSize", "minOrderSize"} \subseteq DOMAIN opp
    BY <1>2, <1>3, OpportunityTyped
  <1> HIDE DEF opp, legs, least, aged
  <1>8. OppTyped(amended)
    BY <1>5, <1>6, <1>7, AmendedTyped
  <1> QED
    BY <1>1, <1>8

\* Neither starts anything.
LEMMA ProjectionPairs ==
    ASSUME PipelineInv, PairInv,
           \/ \E m \in Markets, p \in Projections : FwScan(m, p)
           \/ \E members \in SUBSET Markets, p \in Projections : FwBasketScan(members, p)
    PROVE  PairInv' /\ \A j \in Jobs : ~Starts(j)
  <1>1. PICK opp : OppTyped(opp) /\ Place(opp)
    BY FwScanPairs, BasketScanPairs
  <1>2. JobsSized' /\ \A j \in Jobs : ~Starts(j)
    BY <1>1, PlacedTyped, JobsRecords DEF PairInv
  <1>3. UNCHANGED <<books, exposure>>
    BY DEF FwScan, FwBasketScan
  <1> QED
    BY <1>2, <1>3 DEF PairInv, BooksTyped, BookTyped, Tokens

\* Risk sizes a job, or drops it.
LEMMA OrderedPairs ==
    ASSUME PipelineInv, PairInv, NEW j \in Jobs, Ordered(j)
    PROVE  PairInv' /\ \A k \in Jobs : ~Starts(k)
  <1> DEFINE decision == evaluate(jobs[j].opp, Snapshot, Risk)
  <1>1. /\ jobs[j].stage = "ordering" /\ UNCHANGED <<books, exposure>>
        /\ \/ decision.approved /\ Advance(j, "sizing", decision.size)
           \/ Drop(j)
    BY DEF Ordered
  <1>2. OppTyped(jobs[j].opp)
    BY <1>1 DEF PairInv, JobsSized, JobTyped
  <1>3. decision.approved => /\ decision.size \in Nat \ {0}
                             /\ jobs[j].opp.minOrderSize <= decision.size
                             /\ InBudget(jobs[j].opp, decision.size)
    <2> SUFFICES ASSUME decision.approved
                 PROVE  /\ decision.size \in Nat \ {0}
                        /\ jobs[j].opp.minOrderSize <= decision.size
                        /\ InBudget(jobs[j].opp, decision.size)
      OBVIOUS
    <2>1. SnapshotTyped(Snapshot)
      BY PortfolioTyped DEF PairInv
    <2>2. decision.size \in Nat \ {0} /\ MinOrderSize(jobs[j].opp) <= decision.size
      BY <1>2, <2>1, ApprovedSize
    <2>3. InBudget(jobs[j].opp, decision.size)
      <3>1. /\ LossPerAttempt(jobs[j].opp, Risk) > 0
            /\ decision.size * LossPerAttempt(jobs[j].opp, Risk) <= Risk.maxPerTradeLoss
        BY <1>2, <2>1, ApprovedWithinLimits
      <3>2. LossPerAttempt(jobs[j].opp, Risk) \in Int
        BY <1>2, LegSums
      <3>3. PerMarketCap(jobs[j].opp) > 0
              => \A l \in jobs[j].opp.legs :
                   decision.size * l.costPerSet <= PerMarketCap(jobs[j].opp)
        BY <1>2, <2>1, ApprovedWithinCap
      <3> HIDE DEF decision
      <3> QED
        BY <3>1, <3>2, <3>3 DEF InBudget
    <2>4. /\ jobs[j].opp.minOrderSize \in Int /\ MinOrderSize(jobs[j].opp) \in Int
          /\ jobs[j].opp.minOrderSize <= MinOrderSize(jobs[j].opp)
      BY <1>2, OwnMinimum
    <2> HIDE DEF decision
    <2> QED
      BY <2>2, <2>3, <2>4
  <1> HIDE DEF decision
  <1>4. JobsSized' /\ \A k \in Jobs : ~Starts(k)
    <2>1. CASE decision.approved /\ Advance(j, "sizing", decision.size)
      BY <1>1, <1>3, <2>1, AdvancedTyped, JobsRecords DEF PairInv
    <2>2. CASE Drop(j)
      BY <2>2, DroppedTyped, JobsRecords DEF PairInv
    <2> QED
      BY <1>1, <2>1, <2>2
  <1> QED
    BY <1>1, <1>4 DEF PairInv, BooksTyped, BookTyped, Tokens

\* What is in the budget still is when there is less of it.
LEMMA SmallerInBudget ==
    ASSUME NEW opp, OppTyped(opp), NEW n \in Nat, InBudget(opp, n), NEW size \in 1 .. n
    PROVE  InBudget(opp, size)
  <1> DEFINE loss == LossPerAttempt(opp, Risk)
  <1>1. loss \in Nat \ {0} /\ n * loss <= Risk.maxPerTradeLoss
    BY DEF InBudget
  <1> HIDE DEF loss
  <1>2. size * loss <= n * loss /\ size * loss \in Int /\ n * loss \in Int
    <2>1. \A u, v \in Nat : u <= v => u * loss <= v * loss
      BY <1>1
    <2> QED
      BY <1>1, <2>1
  <1>3. size * loss <= Risk.maxPerTradeLoss
    BY <1>1, <1>2, RiskNumbers
  <1>4. ASSUME PerMarketCap(opp) > 0, NEW l \in opp.legs
        PROVE  size * l.costPerSet <= PerMarketCap(opp)
    <2> DEFINE cost == l.costPerSet
               most == PerMarketCap(opp)
    <2>1. cost \in Int /\ n * cost <= most /\ most \in Int
      BY <1>4, RiskNumbers DEF OppTyped, LegTyped, InBudget, PerMarketCap
    <2>2. size \in Nat \ {0} /\ size <= n
      OBVIOUS
    <2>3. most > 0
      BY <1>4
    <2> HIDE DEF cost, most
    <2>4. CASE cost <= 0
      <3>1. \A u \in Nat, v \in Int : v <= 0 => u * v <= 0
        OBVIOUS
      <3>2. size * cost <= 0 /\ size * cost \in Int
        BY <2>1, <2>2, <2>4, <3>1
      <3> QED
        BY <2>1, <2>3, <3>2 DEF cost, most
    <2>5. CASE cost > 0
      <3>1. \A u, v \in Nat : u <= v => u * cost <= v * cost
        BY <2>1, <2>5
      <3>2. size * cost <= n * cost /\ size * cost \in Int /\ n * cost \in Int
        BY <2>1, <2>2, <3>1
      <3>3. size * cost <= most
        BY <2>1, <3>2
      <3> QED
        BY <3>3 DEF cost, most
    <2> QED
      BY <2>1, <2>4, <2>5
  <1> QED
    BY <1>1, <1>3, <1>4 DEF InBudget, loss

\* What is tried for a basket, or starts, keeps its size or is dropped.
LEMMA TriedOrEnds ==
    ASSUME NEW j, NEW size, NEW p, NEW w, TryPair(j, size, p, w) \/ FailBasket(j, size, p)
    PROVE  Advance(j, "executing", size) \/ Drop(j)
  <1>1. FailBasket(j, size, p) => Advance(j, "executing", size) \/ Drop(j)
    BY DEF FailBasket, Continue, End
  <1> QED
    BY <1>1 DEF TryPair, Continue, End

LEMMA StartsOrEnds ==
    ASSUME NEW j, NEW size, StartBasket(j, size) \/ StartTrade(j, size) \/ End(j)
    PROVE  Advance(j, "executing", size) \/ Drop(j)
  <1>1. ASSUME StartBasket(j, size)
        PROVE  Advance(j, "executing", size) \/ Drop(j)
    BY <1>1, TriedOrEnds DEF StartBasket, Continue, End
  <1> QED
    BY <1>1 DEF StartTrade, Continue, End

\* A job that starts has passed the gates of its size, which is no more than risk's.
LEMMA ApprovePairs ==
    ASSUME PipelineInv, PairInv, NEW j \in Jobs, NEW r \in Recommended \cup {NoAnswer},
           Approve(j, r)
    PROVE  /\ PairInv'
           /\ \A k \in Jobs : Starts(k) => /\ jobs'[k].size \in 1 .. jobs[k].size
                                           /\ Passed(GatesOf(jobs[k].opp, jobs'[k].size))
  <1> DEFINE opp == jobs[j].opp
             size == AdvisedSize(opp, jobs[j].size, r)
  <1>1. /\ jobs[j].stage = "sizing" /\ UNCHANGED <<books, exposure>>
        /\ \/ Passed(GatesOf(opp, size)) /\ Advance(j, "executing", size)
           \/ Drop(j)
    <2>1. /\ jobs[j].stage = "sizing" /\ UNCHANGED <<books, exposure>>
          /\ \/ Passed(GatesOf(opp, size)) /\ (StartBasket(j, size) \/ StartTrade(j, size))
             \/ End(j)
      BY DEF Approve
    <2> HIDE DEF opp, size
    <2>2. StartBasket(j, size) \/ StartTrade(j, size) => Advance(j, "executing", size) \/ Drop(j)
      BY StartsOrEnds
    <2>3. End(j) => Drop(j)
      BY DEF End
    <2> QED
      BY <2>1, <2>2, <2>3
  <1>2. /\ OppTyped(opp) /\ jobs[j].size \in Nat \ {0} /\ opp.minOrderSize <= jobs[j].size
        /\ InBudget(opp, jobs[j].size)
    BY <1>1 DEF PairInv, JobsSized, JobTyped, JobInBudget
  <1>3. size \in 1 .. jobs[j].size
    BY <1>2, AdvisedSizeType DEF OppTyped
  <1> HIDE DEF size
  <1>4. InBudget(opp, size)
    BY <1>2, <1>3, SmallerInBudget
  <1>5. /\ JobsSized'
        /\ \A k \in Jobs : Starts(k) => /\ jobs'[k].size \in 1 .. jobs[k].size
                                        /\ Passed(GatesOf(jobs[k].opp, jobs'[k].size))
    <2>1. CASE Passed(GatesOf(opp, size)) /\ Advance(j, "executing", size)
      <3>1. /\ JobsSized' /\ jobs'[j].size = size
            /\ \A k \in Jobs : Starts(k) => k = j
        BY <1>1, <1>3, <1>4, <2>1, AdvancedTyped, JobsRecords DEF PairInv
      <3> QED
        BY <1>3, <2>1, <3>1
    <2>2. CASE Drop(j)
      BY <2>2, DroppedTyped, JobsRecords DEF PairInv
    <2> QED
      BY <1>1, <2>1, <2>2
  <1> QED
    BY <1>1, <1>5 DEF PairInv, BooksTyped, BookTyped, Tokens

\* What a job has paid in a market is not negative.
LEMMA PaidType ==
    ASSUME PairInv, NEW j \in Jobs, jobs[j].stage = "executing", NEW m
    PROVE  Paid(j, m) \in Nat
  <1> DEFINE opp == jobs[j].opp
             own == {l \in opp.legs : l.marketId = m}
             f == [l \in own |-> l.costPerSet]
             sum == SumFunction(f)
  <1>1. OppTyped(opp) /\ jobs[j].size \in Nat
    BY DEF PairInv, JobsSized, JobTyped
  <1>2. IsFiniteSet(own) /\ \A l \in own : l.costPerSet \in Nat
    <2>1. own \subseteq opp.legs
      OBVIOUS
    <2>2. IsFiniteSet(opp.legs) /\ \A l \in opp.legs : l.costPerSet \in Nat
      BY <1>1 DEF OppTyped, LegTyped
    <2> HIDE DEF own
    <2> QED
      BY <2>1, <2>2, FS_Subset
  <1>3. DOMAIN f = own /\ \A l \in own : f[l] \in Nat
    BY <1>2
  <1>4. Paid(j, m) = jobs[j].size * sum
    BY DEF Paid, SumOver
  <1> HIDE DEF own, f
  <1>5. sum \in Nat
    BY <1>2, <1>3, SumOfPart DEF SumFunction
  <1> HIDE DEF sum
  <1> QED
    BY <1>1, <1>4, <1>5

\* An execution that ends or goes on starts nothing, and keeps the sizes.
LEMMA RunningTyped ==
    ASSUME PipelineInv, PairInv, NEW j \in Jobs, jobs[j].stage = "executing",
           Advance(j, "executing", jobs[j].size) \/ Drop(j)
    PROVE  JobsSized' /\ \A k \in Jobs : ~Starts(k)
  <1>1. CASE Drop(j)
    BY <1>1, DroppedTyped, JobsRecords DEF PairInv
  <1>2. CASE Advance(j, "executing", jobs[j].size)
    <2>1. jobs' = [jobs EXCEPT ![j] = [stage |-> "executing", opp |-> jobs[j].opp,
                                       size |-> jobs[j].size]]
      BY <1>2, JobsRecords, AdvancedJob
    <2>2. jobs[j] = [stage |-> "executing", opp |-> jobs[j].opp, size |-> jobs[j].size]
      BY JobsRecords DEF JobsTyped
    <2>3. DOMAIN jobs = Jobs /\ \A k \in Jobs : jobs'[k] = jobs[k]
      <3> DEFINE job == [stage |-> "executing", opp |-> jobs[j].opp, size |-> jobs[j].size]
      <3>1. jobs' = [jobs EXCEPT ![j] = job] /\ jobs[j] = job /\ DOMAIN jobs = Jobs
        BY <2>1, <2>2, JobsRecords DEF JobsTyped
      <3> HIDE DEF job
      <3> QED
        BY <3>1
    <2> QED
      BY <2>3 DEF PairInv, JobsSized, Starts, JobTyped, OppTyped, LegTyped, JobInBudget, InBudget,
                  PerMarketCap
  <1> QED
    BY <1>1, <1>2

\* Only what is executing has answers.
LEMMA AnswersAreOfRunning ==
    ASSUME PipelineInv, NEW j \in Jobs, progress[j].phase # "none"
    PROVE  jobs[j].stage = "executing"
  BY DEF PipelineInv, ProgressKept

\* What has traded is added to the exposure of its markets, what is sold again taken from it.
LEMMA ExecutionPairs ==
    ASSUME PipelineInv, PairInv, NEW j \in Jobs,
           \/ \E outcome, at, k : Finish(j, outcome, at, k) \/ PairEnds(j, outcome, at, k)
           \/ \E held : BatchEnds(j, held) \/ Unwound(j, held)
           \/ BatchRefused(j)
    PROVE  PairInv' /\ \A k \in Jobs : ~Starts(k)
  <1>1. progress[j].phase # "none" /\ UNCHANGED books
    BY DEF Finish, PairEnds, BatchEnds, Unwound, BatchRefused
  <1>2. jobs[j].stage = "executing"
    BY <1>1, AnswersAreOfRunning
  <1>3. \A m : Paid(j, m) \in Nat
    BY <1>2, PaidType
  <1>4. exposure \in [Markets -> Nat]
    BY DEF PairInv
  <1>5. Advance(j, "executing", jobs[j].size) \/ Drop(j)
    <2>1. ASSUME NEW outcome, NEW at, NEW n, PairEnds(j, outcome, at, n)
          PROVE  Advance(j, "executing", jobs[j].size) \/ Drop(j)
      BY <2>1, TriedOrEnds DEF PairEnds
    <2>2. ASSUME BatchRefused(j)
          PROVE  Advance(j, "executing", jobs[j].size) \/ Drop(j)
      BY <2>2, TriedOrEnds DEF BatchRefused
    <2>3. ASSUME NEW outcome, NEW at, NEW n, Finish(j, outcome, at, n)
          PROVE  Drop(j)
      BY <2>3 DEF Finish, End
    <2>4. ASSUME NEW held, BatchEnds(j, held) \/ Unwound(j, held)
          PROVE  Drop(j)
      BY <2>4 DEF BatchEnds, Unwound, End
    <2> QED
      BY <2>1, <2>2, <2>3, <2>4
  <1>6. exposure' \in [Markets -> Nat]
    <2>1. ASSUME NEW outcome, NEW at, NEW n, Finish(j, outcome, at, n)
          PROVE  exposure' \in [Markets -> Nat]
      <3>1. \/ exposure' = [m \in Markets |-> exposure[m] + Paid(j, m)]
            \/ UNCHANGED exposure
        BY <2>1 DEF Finish
      <3> QED
        BY <1>3, <1>4, <3>1
    <2>2. ASSUME NEW outcome, NEW at, NEW n, PairEnds(j, outcome, at, n)
          PROVE  exposure' \in [Markets -> Nat]
      <3> DEFINE m == progress[j].pair.marketId
      <3>1. \/ exposure' = [exposure EXCEPT ![m] = @ + Paid(j, m)]
            \/ UNCHANGED exposure
        BY <2>2 DEF PairEnds
      <3> HIDE DEF m
      <3> QED
        BY <1>3, <1>4, <3>1
    <2>3. ASSUME NEW held, BatchEnds(j, held)
          PROVE  exposure' \in [Markets -> Nat]
      <3>1. exposure' = [m \in Markets |-> IF m \in held THEN exposure[m] + Paid(j, m)
                                                          ELSE exposure[m]]
        BY <2>3 DEF BatchEnds
      <3> QED
        BY <1>3, <1>4, <3>1
    <2>4. ASSUME NEW sold, Unwound(j, sold)
          PROVE  exposure' \in [Markets -> Nat]
      <3> DEFINE rest(m) == exposure[m] - Paid(j, m)
      <3>1. exposure' = [m \in Markets |-> IF m \in sold THEN Max({0, rest(m)}) ELSE exposure[m]]
        BY <2>4 DEF Unwound
      <3>2. \A m \in Markets : rest(m) \in Int
        BY <1>3, <1>4
      <3> HIDE DEF rest
      <3>3. \A m \in Markets : Max({0, rest(m)}) \in Nat
        <4>1. ASSUME NEW a \in Int
              PROVE  Max({0, a}) \in Nat
          <5>1. \A x, y \in Int : Max({x, y}) \in Int /\ x <= Max({x, y})
            BY MaxOfTwo
          <5> QED
            BY <5>1
        <4> QED
          BY <3>2, <4>1
      <3> QED
        BY <1>4, <3>1, <3>3
    <2>5. BatchRefused(j) => UNCHANGED exposure
      BY DEF BatchRefused
    <2> QED
      BY <1>4, <2>1, <2>2, <2>3, <2>4, <2>5
  <1>7. JobsSized' /\ \A k \in Jobs : ~Starts(k)
    BY <1>2, <1>5, RunningTyped
  <1> QED
    BY <1>1, <1>6, <1>7 DEF PairInv, BooksTyped, BookTyped, Tokens

\* The other steps change neither books, nor jobs, nor exposure.
LEMMA OthersPair ==
    ASSUME PairInv,
           \/ \E m \in Markets, i \in Insights : Insight(m, i)
           \/ \E next \in TradingModes : SetMode(next)
           \/ \E next \in {"connected", "disconnected"} : Channel(next)
           \/ Tick
           \/ UNCHANGED vars
    PROVE  PairInv' /\ \A j \in Jobs : ~Starts(j)
  <1>1. UNCHANGED <<books, exposure, jobs>>
    BY DEF Insight, SetMode, Channel, Tick, vars
  <1> QED
    BY <1>1, SameJobs DEF PairInv, BooksTyped, BookTyped, Tokens

\* Nothing is on its way at first, and no book has come.
LEMMA PairInitial == Init => PairInv
  <1> SUFFICES ASSUME Init
               PROVE  PairInv
    OBVIOUS
  <1>1. BookTyped(NoBook)
    <2>1. NoBook.asks = <<>> /\ NoBook.tickSize = 0 /\ NoBook.minOrderSize = 0
      BY DEF NoBook
    <2>2. DOMAIN NoBook.asks = {}
      BY <2>1
    <2> QED
      BY <2>1, <2>2, FS_EmptySet DEF BookTyped, LevelsTyped
  <1>2. BooksTyped
    BY <1>1 DEF Init, StartsWith, BooksTyped
  <1>3. JobTyped(IdleJob) /\ JobInBudget(IdleJob)
    BY DEF JobTyped, JobInBudget, IdleJob
  <1>4. JobsSized /\ exposure \in [Markets -> Nat]
    BY <1>3 DEF Init, StartsWith, JobsSized
  <1> QED
    BY <1>2, <1>4 DEF PairInv

\* Every step keeps the types, and starts only what has passed the gates for its size.
LEMMA PairStep ==
    ASSUME PipelineInv, PairInv, [Next]_vars
    PROVE  /\ PairInv'
           /\ \A j \in Jobs : Starts(j) => /\ jobs'[j].size \in 1 .. jobs[j].size
                                           /\ Passed(GatesOf(jobs[j].opp, jobs'[j].size))
  BY UpdatePairs, ProjectionPairs, OrderedPairs, ApprovePairs, ExecutionPairs, OthersPair DEF Next

\* A pair that starts is within its bounds.
LEMMA StartInBounds ==
    ASSUME PipelineInv, PairInv, [Next]_vars, NEW j \in Jobs,
           jobs[j].opp.type = "near_zero", Starts(j)
    PROVE  PairInBounds(jobs[j].opp.marketId, jobs'[j].size)
  <1> DEFINE size == jobs'[j].size
             m == jobs[j].opp.marketId
  <1>1. size \in Nat \ {0} /\ Passed(GatesOf(jobs[j].opp, size))
    <2>1. size \in 1 .. jobs[j].size /\ Passed(GatesOf(jobs[j].opp, size))
      BY PairStep
    <2>2. jobs[j].size \in Nat
      BY DEF PairInv, JobsSized, JobTyped, Starts
    <2> HIDE DEF size
    <2> QED
      BY <2>1, <2>2
  <1>2. m \in Markets
    BY DEF PairInv, JobsSized, JobTyped, OppTyped, Starts
  <1>3. LevelsTyped(Yes(m).asks) /\ LevelsTyped(No(m).asks)
    BY <1>2, MarketBooks DEF PairInv, BookTyped
  <1>4. Passed(evaluateGatesWithFees(Yes(m), No(m), policy, now, size, Fee))
    BY <1>1 DEF GatesOf
  <1>5. \A asks : UnitCosts(asks, size) = SumFunction(Prices(asks, size))
    BY DEF UnitCosts, SumOver, Prices
  <1> HIDE DEF size, m
  <1>6. (SumFunction(Prices(Yes(m).asks, size)) + SumFunction(Prices(No(m).asks, size))) * 10000
          <= size * (One - policy.edgeRequired) * (10000 + policy.entrySlippageToleranceBps)
    BY <1>1, <1>3, <1>4, PolicyTyped, PassedPairCost
  <1>7. PairInBounds(m, size)
    BY <1>5, <1>6 DEF PairInBounds
  <1> QED
    BY <1>7 DEF size, m

\* The books, the exposure and the jobs are typed in every state.
LEMMA PairInvariant == Spec => []PairInv
  <1>1. PipelineInv /\ PairInv /\ [Next]_vars => PairInv'
    BY PairStep
  <1> QED
    BY <1>1, PairInitial, PipelineInvariant, PTL DEF Spec

\* What risk has sized, and what has started, is never nothing: no cap that is used up, no
\* minimum order size and no answer of the advisor makes a size of 0.
THEOREM SizedAboveZero ==
    Spec => [](\A j \in Jobs : jobs[j].stage \in {"sizing", "executing"}
                                 => jobs[j].size \in Nat \ {0})
  <1>1. PairInv => \A j \in Jobs : jobs[j].stage \in {"sizing", "executing"}
                                     => jobs[j].size \in Nat \ {0}
    BY DEF PairInv, JobsSized, JobTyped
  <1> QED
    BY <1>1, PairInvariant, PTL

\* What is on its way to its orders is within the loss that one trade may make, from the
\* sizing to the end of its execution: not the minimum order size that a size is raised to,
\* nor the advisor, nor a portfolio that changed meanwhile takes it past that.
THEOREM LossBudgetHeld ==
    Spec => [](\A j \in Jobs :
                 jobs[j].stage \in {"sizing", "executing"}
                   => jobs[j].size * LossPerAttempt(jobs[j].opp, Risk) <= Risk.maxPerTradeLoss)
  <1>1. PairInv => \A j \in Jobs :
                     jobs[j].stage \in {"sizing", "executing"}
                       => jobs[j].size * LossPerAttempt(jobs[j].opp, Risk) <= Risk.maxPerTradeLoss
    BY DEF PairInv, JobsSized, JobInBudget, InBudget
  <1> QED
    BY <1>1, PairInvariant, PTL

\* No trade of an expected value or of a projection puts more than the cap into a market, a
\* basket not in any of its markets.  What the market holds after several of them is another
\* matter: EvMarketCapHeld is violated.
THEOREM TradesWithinCap ==
    Spec => [](\A j \in Jobs :
                 (jobs[j].stage \in {"sizing", "executing"} /\ PerMarketCap(jobs[j].opp) > 0)
                   => \A l \in jobs[j].opp.legs :
                        jobs[j].size * l.costPerSet <= PerMarketCap(jobs[j].opp))
  <1>1. PairInv => \A j \in Jobs :
                     (jobs[j].stage \in {"sizing", "executing"} /\ PerMarketCap(jobs[j].opp) > 0)
                       => \A l \in jobs[j].opp.legs :
                            jobs[j].size * l.costPerSet <= PerMarketCap(jobs[j].opp)
    BY DEF PairInv, JobsSized, JobInBudget, InBudget
  <1> QED
    BY <1>1, PairInvariant, PTL

\* The advisor never makes a trade larger than risk has allowed: its answer is cut to that
\* size, and the minimum order size that it is raised to is one that risk has looked at.
THEOREM AdvisorNeverEnlarges ==
    Spec => [][\A j \in Jobs : Starts(j) => jobs'[j].size <= jobs[j].size]_vars
  <1> DEFINE A == \A j \in Jobs : Starts(j) => jobs'[j].size <= jobs[j].size
  <1>1. ASSUME PipelineInv, PairInv, [Next]_vars
        PROVE  A
    <2> SUFFICES ASSUME NEW j \in Jobs, Starts(j)
                 PROVE  jobs'[j].size <= jobs[j].size
      OBVIOUS
    <2>1. jobs'[j].size \in 1 .. jobs[j].size
      BY <1>1, PairStep
    <2>2. jobs[j].size \in Nat
      BY <1>1 DEF PairInv, JobsSized, JobTyped, Starts
    <2> QED
      BY <2>1, <2>2
  <1>2. PipelineInv /\ PairInv /\ [Next]_vars => [A]_vars
    BY <1>1
  <1> HIDE DEF A
  <1>3. Spec => [][A]_vars
    BY <1>2, PairInvariant, PipelineInvariant, PTL DEF Spec
  <1> QED
    BY <1>3 DEF A

\* Whatever the books, the risk and the advisor do while a pair is on its way: when it
\* starts, the units of both legs together cost no more than the edge leaves of the payoff,
\* plus the slippage that is tolerated.
THEOREM PairsStartInBounds == Spec => NoPairStartsTooDear
  <1> DEFINE A == \A j \in Jobs :
                    (/\ jobs[j].opp.type = "near_zero"
                     /\ jobs[j].stage = "sizing" /\ jobs'[j].stage = "executing")
                      => PairInBounds(jobs[j].opp.marketId, jobs'[j].size)
  <1>1. PipelineInv /\ PairInv /\ [Next]_vars => A
    BY StartInBounds DEF Starts
  <1>2. Spec => [][A]_vars
    <2>1. PipelineInv /\ PairInv /\ [Next]_vars => [A]_vars
      BY <1>1
    <2> HIDE DEF A
    <2> QED
      BY <2>1, PairInvariant, PipelineInvariant, PTL DEF Spec
  <1> QED
    BY <1>2 DEF NoPairStartsTooDear

-----------------------------------------------------------------------------
(* The type of the state *)

BooksDated ==
    \A t \in Tokens : /\ books[t].lastUpdateMs \in Int /\ books[t].stableSinceMs \in Int
                      /\ books[t].stableSinceMs <= books[t].lastUpdateMs
                      /\ books[t].lastUpdateMs <= now

JobsStaged ==
    \A j \in Jobs : jobs[j].stage \in Stages /\ (jobs[j].stage = "idle" <=> jobs[j] = IdleJob)

RestTyped ==
    /\ mode \in TradingModes /\ channel \in {"connected", "disconnected"}
    /\ openSince \in [Markets -> 0 .. Never] /\ changes \in 0 .. MaxChanges

StateInv == BooksDated /\ JobsStaged /\ RestTyped

\* An opportunity that is placed, a job that is dropped and one that goes on have a stage.
LEMMA StagesKept ==
    ASSUME JobsTyped, JobsStaged,
           \/ UNCHANGED jobs
           \/ \E opp : Place(opp)
           \/ \E j \in Jobs : Drop(j)
           \/ \E j \in Jobs, stage \in {"sizing", "executing"}, size \in Int :
                Advance(j, stage, size)
    PROVE  JobsStaged'
  <1>1. CASE UNCHANGED jobs
    BY <1>1 DEF JobsStaged
  <1>2. ASSUME NEW j \in Jobs, NEW job, jobs' = [jobs EXCEPT ![j] = job],
               job.stage \in Stages, job.stage = "idle" <=> job = IdleJob
        PROVE  JobsStaged'
    <2>1. jobs'[j] = job /\ \A k \in Jobs \ {j} : jobs'[k] = jobs[k]
      BY <1>2 DEF JobsTyped
    <2> QED
      BY <1>2, <2>1 DEF JobsStaged
  <1>3. CASE \E opp : Place(opp)
    <2>1. PICK opp : Place(opp)
      BY <1>3
    <2> DEFINE job == [stage |-> "ordering", opp |-> opp, size |-> 0]
    <2>2. PICK j \in Jobs : jobs' = [jobs EXCEPT ![j] = job]
      BY <2>1 DEF Place
    <2>3. job.stage \in Stages /\ job.stage # "idle" /\ job # IdleJob
      <3>1. job.stage = "ordering" /\ IdleJob.stage = "idle"
        BY DEF IdleJob
      <3> HIDE DEF job
      <3> QED
        BY <3>1 DEF Stages
    <2> HIDE DEF job
    <2> QED
      BY <1>2, <2>2, <2>3
  <1>4. CASE \E j \in Jobs : Drop(j)
    <2>1. PICK j \in Jobs : jobs' = [jobs EXCEPT ![j] = IdleJob]
      BY <1>4 DEF Drop
    <2>2. IdleJob.stage = "idle" /\ IdleJob.stage \in Stages
      BY DEF IdleJob, Stages
    <2> QED
      BY <1>2, <2>1, <2>2
  <1>5. CASE \E j \in Jobs, stage \in {"sizing", "executing"}, size \in Int :
               Advance(j, stage, size)
    <2>1. PICK j \in Jobs, stage \in {"sizing", "executing"}, size \in Int :
                 Advance(j, stage, size)
      BY <1>5
    <2> DEFINE job == [stage |-> stage, opp |-> jobs[j].opp, size |-> size]
    <2>2. jobs' = [jobs EXCEPT ![j] = job]
      BY <2>1, AdvancedJob
    <2>3. job.stage \in Stages /\ job.stage # "idle" /\ job # IdleJob
      <3>1. job.stage = stage /\ IdleJob.stage = "idle"
        BY DEF IdleJob
      <3> HIDE DEF job
      <3> QED
        BY <3>1 DEF Stages
    <2> HIDE DEF job
    <2> QED
      BY <1>2, <2>2, <2>3
  <1> QED
    BY <1>1, <1>3, <1>4, <1>5

\* A book that has come is of this moment, and its top stable since then or before.
LEMMA UpdateDated ==
    ASSUME PipelineInv, PairInv, BooksDated, NEW m \in Markets, NEW side \in {"yes", "no"},
           NEW raw \in Snapshots, MarketUpdated(m, side, raw)
    PROVE  BooksDated'
  <1> DEFINE t == <<m, side>>
             book == normalizeOrderBook(raw, now, Defaults, books[t])
  <1>1. t \in Tokens /\ now \in Nat /\ now' = now /\ Tokens' = Tokens
    BY PolicyNumbers DEF Tokens, PipelineInv, MarketUpdated
  <1>2. \A u \in Tokens : books'[u] = IF u = t THEN book ELSE books[u]
    BY <1>1 DEF MarketUpdated, PairInv, BooksTyped
  <1>3. book.lastUpdateMs = now /\ book.stableSinceMs \in {now, books[t].stableSinceMs}
    BY DEF normalizeOrderBook
  <1> HIDE DEF book
  <1>4. /\ book.lastUpdateMs \in Int /\ book.stableSinceMs \in Int
        /\ book.stableSinceMs <= book.lastUpdateMs /\ book.lastUpdateMs <= now
    BY <1>1, <1>3 DEF BooksDated
  <1> HIDE DEF t
  <1> QED
    BY <1>1, <1>2, <1>4 DEF BooksDated

\* The other steps leave the books alone, and the clock does not go back.
LEMMA OthersDated ==
    ASSUME PipelineInv, BooksDated, UNCHANGED books, now' \in {now, now + 1}
    PROVE  BooksDated'
  <1>1. now \in Nat
    BY PolicyNumbers DEF PipelineInv
  <1> QED
    BY <1>1 DEF BooksDated, Tokens

\* Sizing and starting set a number.
LEMMA StagesStep ==
    ASSUME PipelineInv, PairInv, JobsStaged, [Next]_vars
    PROVE  JobsStaged'
  <1>1. JobsTyped
    BY JobsRecords
  <1>2. ASSUME NEW m \in Markets, NEW side \in {"yes", "no"}, NEW raw \in Snapshots,
               MarketUpdated(m, side, raw)
        PROVE  JobsStaged'
    <2>1. UNCHANGED jobs \/ \E opp : Place(opp)
      BY <1>2 DEF MarketUpdated, Announce
    <2> QED
      BY <1>1, <2>1, StagesKept
  <1>3. ASSUME NEW p, NEW members \in SUBSET Markets,
               (\E m \in Markets : FwScan(m, p)) \/ FwBasketScan(members, p)
        PROVE  JobsStaged'
    <2>1. \E opp : Place(opp)
      BY <1>3, FwScanPairs, BasketScanPairs
    <2> QED
      BY <1>1, <2>1, StagesKept
  <1>4. ASSUME NEW j \in Jobs, Ordered(j)
        PROVE  JobsStaged'
    <2> DEFINE decision == evaluate(jobs[j].opp, Snapshot, Risk)
    <2>1. /\ jobs[j].stage = "ordering"
          /\ \/ decision.approved /\ Advance(j, "sizing", decision.size)
             \/ Drop(j)
      BY <1>4 DEF Ordered
    <2>2. decision.approved => decision.size \in Int
      <3>1. OppTyped(jobs[j].opp) /\ SnapshotTyped(Snapshot)
        BY <2>1, PortfolioTyped DEF PairInv, JobsSized, JobTyped
      <3> QED
        BY <3>1, ApprovedSize
    <2> HIDE DEF decision
    <2> QED
      BY <1>1, <2>1, <2>2, StagesKept
  <1>5. ASSUME NEW j \in Jobs, NEW r \in Recommended \cup {NoAnswer}, Approve(j, r)
        PROVE  JobsStaged'
    <2> DEFINE size == AdvisedSize(jobs[j].opp, jobs[j].size, r)
    <2>1. /\ jobs[j].stage = "sizing"
          /\ Advance(j, "executing", size) \/ Drop(j)
      <3>1. /\ jobs[j].stage = "sizing"
            /\ StartBasket(j, size) \/ StartTrade(j, size) \/ End(j)
        BY <1>5 DEF Approve
      <3> HIDE DEF size
      <3> QED
        BY <3>1, StartsOrEnds
    <2>2. size \in Int
      <3>1. /\ jobs[j].opp.minOrderSize \in Int /\ jobs[j].size \in Nat \ {0}
            /\ jobs[j].opp.minOrderSize <= jobs[j].size
        BY <2>1 DEF PairInv, JobsSized, JobTyped, JobInBudget, OppTyped
      <3> QED
        BY <3>1, AdvisedSizeType
    <2> HIDE DEF size
    <2> QED
      BY <1>1, <2>1, <2>2, StagesKept
  <1>6. ASSUME NEW j \in Jobs,
               \/ \E o, at, n : Finish(j, o, at, n) \/ PairEnds(j, o, at, n)
               \/ \E held : BatchEnds(j, held) \/ Unwound(j, held)
               \/ BatchRefused(j)
        PROVE  JobsStaged'
    <2>1. jobs[j].size \in Int
      <3>1. progress[j].phase # "none"
        BY <1>6 DEF Finish, PairEnds, BatchEnds, Unwound, BatchRefused
      <3>2. jobs[j].stage = "executing"
        BY <3>1, AnswersAreOfRunning
      <3> QED
        BY <3>2 DEF PairInv, JobsSized, JobTyped
    <2>2. Advance(j, "executing", jobs[j].size) \/ Drop(j)
      <3>1. ASSUME NEW o, NEW at, NEW n, PairEnds(j, o, at, n)
            PROVE  Advance(j, "executing", jobs[j].size) \/ Drop(j)
        BY <3>1, TriedOrEnds DEF PairEnds
      <3>2. BatchRefused(j) => Advance(j, "executing", jobs[j].size) \/ Drop(j)
        BY TriedOrEnds DEF BatchRefused
      <3> QED
        BY <1>6, <3>1, <3>2 DEF Finish, BatchEnds, Unwound, End
    <2> QED
      BY <1>1, <2>1, <2>2, StagesKept
  <1>7. ASSUME \/ \E m \in Markets, i \in Insights : Insight(m, i)
               \/ \E next \in TradingModes : SetMode(next)
               \/ \E next \in {"connected", "disconnected"} : Channel(next)
               \/ Tick
               \/ UNCHANGED vars
        PROVE  JobsStaged'
    <2>1. UNCHANGED jobs
      BY <1>7 DEF Insight, SetMode, Channel, Tick, vars
    <2> QED
      BY <1>1, <2>1, StagesKept
  <1> QED
    BY <1>2, <1>3, <1>4, <1>5, <1>6, <1>7 DEF Next

\* The steps of an execution leave books, settings, channel and clock alone.
LEMMA ExecutionLeaves ==
    ASSUME NEW j,
           \/ \E r : Approve(j, r)
           \/ \E o, at, n : Finish(j, o, at, n) \/ PairEnds(j, o, at, n)
           \/ \E held : BatchEnds(j, held) \/ Unwound(j, held)
           \/ BatchRefused(j)
    PROVE  UNCHANGED <<books, now, mode, channel, changes>>
  BY DEF Approve, Finish, PairEnds, BatchEnds, Unwound, BatchRefused

\* Of these only answers to a trade touch openSince.
LEMMA BasketsLeave ==
    ASSUME NEW j,
           \/ \E r : Approve(j, r)
           \/ \E o, at, n : PairEnds(j, o, at, n)
           \/ \E held : BatchEnds(j, held) \/ Unwound(j, held)
           \/ BatchRefused(j)
    PROVE  UNCHANGED openSince
  BY DEF Approve, PairEnds, BatchEnds, Unwound, BatchRefused

\* Books are dated in every step.
LEMMA DatesStep ==
    ASSUME PipelineInv, PairInv, BooksDated, [Next]_vars
    PROVE  BooksDated'
  <1>1. \/ \E m \in Markets, side \in {"yes", "no"}, raw \in Snapshots : MarketUpdated(m, side, raw)
        \/ UNCHANGED books /\ now' \in {now, now + 1}
    BY ExecutionLeaves
       DEF Next, FwScan, FwBasketScan, Ordered, Insight, SetMode, Channel, Tick, vars
  <1> QED
    BY <1>1, UpdateDated, OthersDated

\* So are the settings, the channel and the bounds.
LEMMA RestStep ==
    ASSUME PipelineInv, RestTyped, [Next]_vars
    PROVE  RestTyped'
  <1>1. now \in Nat /\ MaxTime \in Nat /\ now <= MaxTime /\ MaxChanges \in Nat
    BY PolicyNumbers, PipelineAssumption DEF PipelineInv
  <1>2. changes' \in 0 .. MaxChanges
    <2>1. changes' = changes \/ (changes > 0 /\ changes' = changes - 1)
      BY ExecutionLeaves
         DEF Next, MarketUpdated, FwScan, FwBasketScan, Ordered, Insight, SetMode, Channel, Tick,
             Change, vars
    <2> QED
      BY <1>1, <2>1 DEF RestTyped
  <1>3. mode' \in TradingModes /\ channel' \in {"connected", "disconnected"}
    BY ExecutionLeaves
       DEF Next, MarketUpdated, FwScan, FwBasketScan, Ordered, Insight, SetMode, Channel, Tick,
           vars, RestTyped
  <1>4. openSince' \in [Markets -> 0 .. Never]
    <2>1. \/ UNCHANGED openSince
          \/ \E uneven \in SUBSET Markets :
               openSince' = [m \in Markets |-> IF m \in uneven THEN now ELSE openSince[m]]
      <3>1. ASSUME NEW j \in Jobs, NEW o, NEW at, NEW n, Finish(j, o, at, n)
            PROVE  \/ UNCHANGED openSince
                   \/ \E uneven \in SUBSET Markets :
                        openSince' = [m \in Markets |-> IF m \in uneven THEN now
                                                        ELSE openSince[m]]
        <4> DEFINE uneven == {m \in Markets : jobs[j].opp.type = "ev"
                                                /\ m \in MarketsOf(jobs[j].opp)}
        <4>1. \/ UNCHANGED openSince
              \/ openSince' = [m \in Markets |-> IF m \in uneven THEN now ELSE openSince[m]]
          BY <3>1 DEF Finish
        <4>2. uneven \in SUBSET Markets
          OBVIOUS
        <4> HIDE DEF uneven
        <4> QED
          BY <4>1, <4>2
      <3>2. \/ UNCHANGED openSince
            \/ \E j \in Jobs : \E o, at, n : Finish(j, o, at, n)
        BY BasketsLeave
           DEF Next, MarketUpdated, FwScan, FwBasketScan, Ordered, Insight, SetMode, Channel, Tick,
               vars
      <3> QED
        BY <3>1, <3>2
    <2>2. now \in 0 .. Never /\ Never' = Never
      BY <1>1 DEF Never
    <2> QED
      BY <2>1, <2>2 DEF RestTyped
  <1> QED
    BY <1>2, <1>3, <1>4 DEF RestTyped, Never

\* At first no book has come, and nothing is on its way.
LEMMA StateInitial == Init => StateInv
  <1> SUFFICES ASSUME Init
               PROVE  StateInv
    OBVIOUS
  <1>1. MaxTime \in Nat /\ MaxChanges \in Nat
    BY PipelineAssumption
  <1>2. BooksDated
    BY DEF Init, StartsWith, BooksDated, NoBook
  <1>3. JobsStaged
    <2>1. IdleJob.stage = "idle"
      BY DEF IdleJob
    <2> QED
      BY <2>1 DEF Init, StartsWith, JobsStaged, Stages
  <1>4. RestTyped
    BY <1>1 DEF Init, StartsWith, RestTyped, Never
  <1> QED
    BY <1>2, <1>3, <1>4 DEF StateInv

\* The state has its type: books are stable since no later than they came, a place is free
\* exactly when nothing is left of its job, and the portfolio never owes a market anything.
THEOREM PipelineTypeCorrect == Spec => []TypeOK
  <1>1. PipelineInv /\ PairInv /\ StateInv /\ [Next]_vars => StateInv'
    BY StagesStep, DatesStep, RestStep DEF StateInv
  <1>2. Spec => []StateInv
    BY <1>1, StateInitial, PairInvariant, PipelineInvariant, PTL DEF Spec
  <1>3. PipelineInv /\ PairInv /\ StateInv => TypeOK
    BY DEF PipelineInv, PipelineTypes, ProgressKept, ProgressTyped, PairInv, BooksTyped, StateInv,
           BooksDated, JobsStaged, RestTyped, TypeOK
  <1> QED
    BY <1>2, <1>3, PairInvariant, PipelineInvariant, PTL

=============================================================================

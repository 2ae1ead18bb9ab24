---------------------------- MODULE FwScan_proofs ----------------------------
(***************************************************************************)
(* No scan of the universe is turned away for want of an oracle slot, and  *)
(* no leg is announced below the threshold, for any markets, any settings  *)
(* and any order of updates, answers and the clock.                        *)
(*                                                                         *)
(* Scans do not overlap: one that runs is in flight, or the supervisor has *)
(* stopped, and then nothing is left that starts another (stop clears the  *)
(* timer and what is pending, and a scan that ends later finds nothing     *)
(* pending).  So the slots taken are those of the one scan: none before    *)
(* its first request and none once it is over.                             *)
(*                                                                         *)
(* The legs of an announcement are candidates that the gates of their own  *)
(* market let through, on the bound they carry, and the policy of the scan *)
(* is that of the announcement: it never changes while the process runs.   *)
(*                                                                         *)
(* The type of the state follows.  Of the loop it needs that an answer is  *)
(* followed by a request only before the last iteration of the policy.     *)
(*                                                                         *)
(* Last, the composition of all services: each of them runs among the      *)
(* others as it does alone, so what is proved here and in Services_proofs  *)
(* holds of it.                                                            *)
(***************************************************************************)
EXTENDS Services, TLAPS

\* The slot taken is the running scan's, while it waits for the oracle.
SlotsAccounted == slots = IF scan.stage = "solving" THEN 1 ELSE 0

\* A scan that runs keeps the next one off.
OneScan == scan.stage # "idle" => inFlight \/ ~supervising

\* Nothing starts a scan once the supervisor has stopped.
Quiet == ~supervising => deferred = NoTimer /\ ~pending

ScanInv ==
    /\ fwPolicy \in FwPolicies
    /\ "stage" \in DOMAIN scan
    /\ SlotsAccounted
    /\ OneScan
    /\ Quiet
    /\ NeverCrowdedOut
    /\ NoWeakLegAnnounced

\* The leg passes the threshold with the bound it carries.
Strong(leg) == ~(leg.edgeLowerBound < fwPolicy.fwMinEdgeThreshold)

\* How a scan ends: the reason is not the want of a slot, and no weak leg is announced.
ScanEnded ==
    /\ scan' = NoScan
    /\ AfterScan
    /\ outcome'.reason # "oracle_concurrency_limited"
    /\ \A bound \in outcome'.bounds : ~(bound < fwPolicy.fwMinEdgeThreshold)

\* A step on which none of the invariant but the stage and the slots depends.
Undisturbed == UNCHANGED <<fwPolicy, supervising>>
-----------------------------------------------------------------------------
(* The ways a scan may go *)

LEMMA NoScanIdle == NoScan.stage = "idle" /\ "stage" \in DOMAIN NoScan
  BY DEF NoScan

\* A projection whose gates pass has the bound the policy asks for.
LEMMA PassedIsStrong ==
    ASSUME NEW yes, NEW no, NEW policy, NEW now, NEW projection, NEW size,
           Passed(evaluateFwProjectionGates(yes, no, policy, now, projection, size))
    PROVE  ~(projection.edgeLowerBound < policy.fwMinEdgeThreshold)
<1> DEFINE Conditions ==
      {<<"fw_dependency_low_confidence",
         projection.dependencyConfidence < policy.fwDependencyMinConfidence>>,
       <<"fw_projection_stale", projection.projectionAgeMs > policy.fwMaxProjectionAgeMs>>,
       <<"fw_edge_lower_bound_fail", projection.edgeLowerBound < policy.fwMinEdgeThreshold>>,
       <<"fw_requires_converged", policy.fwRequireConverged /\ ~projection.converged>>,
       <<"fw_solver_status", projection.solverStatus \notin {"optimal", "feasible"}>>}
<1>1. "reasons" \in DOMAIN evaluateGates(yes, no, policy, now, size)
  BY DEF evaluateGates, Refused
<1>2. Reasons(Conditions) = {}
  BY <1>1 DEF evaluateFwProjectionGates, Passed
<1>3. ASSUME projection.edgeLowerBound < policy.fwMinEdgeThreshold
      PROVE  FALSE
  <2> DEFINE weak ==
        <<"fw_edge_lower_bound_fail", projection.edgeLowerBound < policy.fwMinEdgeThreshold>>
  <2>1. weak \in Conditions /\ weak[1] = "fw_edge_lower_bound_fail" /\ weak[2]
    BY <1>3
  <2>2. weak[1] \in Reasons(Conditions)
    <3> HIDE DEF Conditions, weak
    <3>1. QED
      BY <2>1 DEF Reasons
  <2>3. QED
    BY <2>2, <1>2
<1>4. QED
  BY <1>3

\* What is announced is made of the candidates there are.
LEMMA AnnouncedLegs ==
    ASSUME NEW candidates, NEW policy
    PROVE  Announced(candidates, policy).legs \subseteq candidates
<1>1. ASSUME NEW k, NEW Earlier(_, _)
      PROVE  FirstOf(k, candidates, Earlier) \subseteq candidates
  BY DEF FirstOf
<1>2. NoOpportunity.legs = {}
  BY DEF NoOpportunity
<1>3. buildBasketOpportunity(candidates, policy).legs \subseteq candidates
  BY <1>1, <1>2 DEF buildBasketOpportunity, FirstOf
<1>4. toSingleFwOpportunity(FirstOf(1, candidates, Precedes)).legs \subseteq candidates
  BY <1>1 DEF toSingleFwOpportunity, FirstOf
<1>5. QED
  BY <1>2, <1>3, <1>4 DEF Announced

\* An announcement of executable candidates ends the scan well.
LEMMA FoundEnds ==
    ASSUME NEW candidates, NEW executable, Found(candidates, executable),
           \A c \in executable : Strong(c)
    PROVE  ScanEnded
<1>1. ASSUME NEW reason, Rejected(reason), reason # "oracle_concurrency_limited"
      PROVE  ScanEnded
  BY <1>1 DEF Rejected, EndScan, ScanEnded, NoOpportunity
<1>2. CASE EndScan("announced", Announced(executable, fwPolicy))
  <2>1. \A leg \in Announced(executable, fwPolicy).legs : Strong(leg)
    BY AnnouncedLegs
  <2>2. outcome'.bounds = {leg.edgeLowerBound : leg \in Announced(executable, fwPolicy).legs}
    BY <1>2 DEF EndScan
  <2>3. QED
    BY <1>2, <2>1, <2>2 DEF EndScan, ScanEnded, Strong
<1>3. QED
  BY <1>1, <1>2 DEF Found

\* Whatever becomes of the iterate, the scan is over.
LEMMA ConcludeEnds ==
    ASSUME NEW terminal, Conclude(terminal)
    PROVE  ScanEnded
<1>1. PICK point \in Points(scan.entries, scan.edges, Iterated(terminal)) :
        Concluded(terminal, point)
  BY DEF Conclude
<1>2. ASSUME NEW reason, Rejected(reason), reason # "oracle_concurrency_limited"
      PROVE  ScanEnded
  BY <1>2 DEF Rejected, EndScan, ScanEnded, NoOpportunity
<1>3. mapNonConvergedReason(terminal) # "oracle_concurrency_limited"
  BY DEF mapNonConvergedReason
<1>4. ASSUME NEW candidates, NEW converged, Candidates(candidates, converged)
      PROVE  ScanEnded
  <2> DEFINE executable ==
        filterExecutableBasketCandidates(candidates, scan.books, fwPolicy, 0, converged)
  <2>1. \A c \in executable :
          Passed(evaluateFwProjectionGates(scan.books[c.marketId][1], scan.books[c.marketId][2],
                                           fwPolicy, 0, CandidateProjection(c, converged), NoSize))
    BY DEF filterExecutableBasketCandidates
  <2>2. \A c \in executable : Strong(c)
    <3> HIDE DEF executable
    <3> TAKE c \in executable
    <3>1. ~(CandidateProjection(c, converged).edgeLowerBound < fwPolicy.fwMinEdgeThreshold)
      BY <2>1, PassedIsStrong
    <3>2. QED
      BY <3>1 DEF CandidateProjection, Strong
  <2>3. Found(candidates, executable)
    BY <1>4 DEF Candidates
  <2>4. QED
    BY <2>2, <2>3, FoundEnds
<1>5. \/ Rejected("projection_requires_converged")
      \/ Rejected(mapNonConvergedReason(terminal))
      \/ Candidates(buildCandidatesFromIterate(scan.entries, point, fwPolicy),
                    terminal = "gap_converged")
  BY <1>1 DEF Concluded
<1>6. QED
  BY <1>2, <1>3, <1>4, <1>5

\* A scan that ends gives back what it had taken.
LEMMA EndedKeeps ==
    ASSUME ScanInv, ScanEnded, Undisturbed, slots' = 0
    PROVE  ScanInv'
<1>1. scan'.stage = "idle" /\ "stage" \in DOMAIN scan'
  BY NoScanIdle DEF ScanEnded
<1>2. Quiet'
  BY DEF ScanInv, Quiet, ScanEnded, AfterScan, Undisturbed
<1>3. QED
  BY <1>1, <1>2 DEF ScanInv, SlotsAccounted, OneScan, NeverCrowdedOut, NoWeakLegAnnounced,
     ScanEnded, Undisturbed

\* A running scan goes on.
LEMMA OnwardKeeps ==
    ASSUME ScanInv, Undisturbed, UNCHANGED <<inFlight, pending, deferred, outcome>>,
           "stage" \in DOMAIN scan', scan.stage # "idle",
           SlotsAccounted'
    PROVE  ScanInv'
  BY DEF ScanInv, OneScan, Quiet, NeverCrowdedOut, NoWeakLegAnnounced, Undisturbed

\* A scan starts only when none runs.
LEMMA CoalescedKeeps ==
    ASSUME ScanInv, supervising, Undisturbed, UNCHANGED slots,
           NEW books, NEW timer, Coalesced(books, timer)
    PROVE  ScanInv'
<1>1. CASE UNCHANGED <<scan, inFlight, outcome>>
  BY <1>1 DEF ScanInv, SlotsAccounted, OneScan, Quiet, NeverCrowdedOut, NoWeakLegAnnounced,
     Undisturbed
<1>2. CASE ~inFlight /\ \E universe \in Universes(FwMarkets, Text, fwPolicy) :
                          StartScan(books, universe)
  <2>1. PICK universe : StartScan(books, universe)
    BY <1>2
  <2>2. scan'.stage = "started" /\ "stage" \in DOMAIN scan'
    BY <2>1 DEF StartScan, NoScan
  <2>3. slots' = 0
    BY <1>2 DEF ScanInv, SlotsAccounted, OneScan
  <2>4. inFlight' /\ outcome'.reason = "none" /\ outcome'.bounds = {}
    BY <2>1 DEF StartScan, NothingFound
  <2>5. QED
    BY <2>2, <2>3, <2>4 DEF ScanInv, SlotsAccounted, OneScan, Quiet, NeverCrowdedOut,
       NoWeakLegAnnounced, Undisturbed
<1>3. QED
  BY <1>1, <1>2 DEF Coalesced
-----------------------------------------------------------------------------
(* The steps *)

LEMMA ScanInvInit == ScanInit => ScanInv
  BY DEF ScanInit, ScanInv, SlotsAccounted, OneScan, Quiet, NeverCrowdedOut, NoWeakLegAnnounced,
     NoScan, NothingFound

\* The dependencies are resolved, or the model is asked.
LEMMA ResolveKeeps ==
    ASSUME ScanInv, Resolves \/ ModelAnswered
    PROVE  ScanInv'
<1>1. ASSUME NEW llm, Resolved(llm)
      PROVE  scan'.stage = "resolved" /\ "stage" \in DOMAIN scan'
  BY <1>1 DEF Resolved, ScanInv
<1>2. ASSUME scan.stage \in {"started", "asking"}, scan'.stage \in {"resolved", "asking"},
             "stage" \in DOMAIN scan',
             UNCHANGED <<fwPolicy, coalescing, slots, outcome>>
      PROVE  ScanInv'
  BY <1>2, OnwardKeeps DEF ScanInv, SlotsAccounted, coalescing, Undisturbed
<1>3. CASE ResolveStatically
  BY <1>1, <1>2, <1>3 DEF ResolveStatically
<1>4. CASE ResolveFromCache
  BY <1>1, <1>2, <1>4 DEF ResolveFromCache
<1>5. CASE AskModel
  <2>1. scan'.stage = "asking" /\ "stage" \in DOMAIN scan'
    BY <1>5 DEF AskModel, ScanInv
  <2>2. QED
    BY <2>1, <1>2, <1>5 DEF AskModel
<1>6. ASSUME NEW call \in Calls, ModelAnswers(call)
      PROVE  ScanInv'
  <2>1. PICK reason : Answered(reason, IF reason = "ok"
                                       THEN sanitizeEdges(call.edges, scan.universe) ELSE {})
    BY <1>6 DEF ModelAnswers
  <2>2. scan.stage = "asking" /\ \E llm : Resolved(llm)
    BY <2>1 DEF Answered
  <2>3. QED
    BY <2>2, <1>1, <1>2, <1>6 DEF ModelAnswers
<1>7. QED
  BY <1>3, <1>4, <1>5, <1>6 DEF Resolves, ModelAnswered

\* The first request finds its slot: no other scan has taken one.
LEMMA ProjectKeeps ==
    ASSUME ScanInv, Project
    PROVE  ScanInv'
<1> DEFINE Entries == buildProjectionUniverse(scan.universe, scan.books, scan.edges, Text,
                                              fwPolicy, 0)
<1>1. slots = 0 /\ scan.stage = "resolved" /\ Undisturbed
  BY DEF ScanInv, SlotsAccounted, Project, Undisturbed
<1>2. ~NoSlot
  <2>1. fwPolicy.fwOracleMaxConcurrency \in Nat
    BY ScanAssumption DEF ScanInv
  <2>2. QED
    BY <1>1, <2>1 DEF NoSlot, AtLeast
<1>3. \/ TurnedAway("no_markets_with_books", circuit)
      \/ TurnedAway("circuit_open", circuit)
      \/ \E entries : Ask(entries, 0)
  BY <1>2 DEF Project
<1>4. ASSUME NEW reason, TurnedAway(reason, circuit), reason # "oracle_concurrency_limited"
      PROVE  ScanInv'
  BY <1>1, <1>4, EndedKeeps DEF TurnedAway, Rejected, EndScan, ScanEnded, NoOpportunity
<1>5. ASSUME NEW entries, Ask(entries, 0)
      PROVE  ScanInv'
  <2>1. scan'.stage = "solving" /\ "stage" \in DOMAIN scan' /\ slots' = 1
    BY <1>1, <1>5 DEF Ask, ScanInv
  <2>2. QED
    BY <2>1, <1>1, <1>5, OnwardKeeps DEF Ask, SlotsAccounted
<1>6. QED
  BY <1>3, <1>4, <1>5

\* An answer ends the scan and gives its slot back, or is followed by the next request.
LEMMA AnswerKeeps ==
    ASSUME ScanInv, NEW reply, NEW verdict, OracleAnswers(reply, verdict)
    PROVE  ScanInv'
<1>1. slots = 1 /\ scan.stage = "solving" /\ Undisturbed
  BY DEF ScanInv, SlotsAccounted, OracleAnswers, Undisturbed
<1>2. ASSUME NEW terminal, Concludes(terminal, reply)
      PROVE  ScanInv'
  <2>1. ScanEnded
    BY <1>2, ConcludeEnds DEF Concludes
  <2>2. slots' = 0
    BY <1>1, <1>2 DEF Concludes, Release, AtLeast
  <2>3. QED
    BY <1>1, <2>1, <2>2, EndedKeeps
<1>3. ASSUME NEW next, Iterate(next)
      PROVE  ScanInv'
  <2>1. scan'.stage = "solving" /\ "stage" \in DOMAIN scan' /\ slots' = slots
    BY <1>1, <1>3 DEF Iterate, ScanInv
  <2>2. QED
    BY <2>1, <1>1, <1>3, OnwardKeeps DEF Iterate, SlotsAccounted
<1>4. CASE Rejected("oracle_unavailable") /\ Release(reply)
  <2>1. ScanEnded
    BY <1>4 DEF Rejected, EndScan, ScanEnded, NoOpportunity
  <2>2. slots' = 0
    BY <1>1, <1>4 DEF Release, AtLeast
  <2>3. QED
    BY <1>1, <2>1, <2>2, EndedKeeps
<1>5. CASE FirstAnswer(reply)
  BY <1>2, <1>3, <1>4, <1>5 DEF FirstAnswer
<1>6. CASE LaterAnswer(reply, Terminal(verdict), verdict)
  BY <1>2, <1>3, <1>6 DEF LaterAnswer
<1>7. QED
  BY <1>5, <1>6 DEF OracleAnswers

\* The clock starts no scan and ends none; a timer that is not set stays so.
LEMMA ScanTickKeeps ==
    ASSUME ScanInv, ScanTick
    PROVE  ScanInv'
<1>1. scan'.stage = scan.stage /\ "stage" \in DOMAIN scan'
  <2>1. scan' = IF scan.stage = "idle" THEN scan ELSE [scan EXCEPT !.age = @ + 1]
    BY DEF ScanTick
  <2>2. [scan EXCEPT !.age = @ + 1].stage = scan.stage
    BY DEF ScanInv
  <2>3. QED
    BY <2>1, <2>2 DEF ScanInv
<1>2. deferred = NoTimer => deferred' = NoTimer
  BY DEF ScanTick, CountedDown, NoTimer
<1>3. UNCHANGED <<fwPolicy, supervising, inFlight, pending, slots, outcome>>
  BY DEF ScanTick
<1>4. QED
  BY <1>1, <1>2, <1>3 DEF ScanInv, SlotsAccounted, OneScan, Quiet, NeverCrowdedOut,
     NoWeakLegAnnounced

LEMMA ScanInvStep == ScanInv /\ [ScanNext]_scanVars => ScanInv'
<1> SUFFICES ASSUME ScanInv, [ScanNext]_scanVars
             PROVE  ScanInv'
  OBVIOUS
<1>1. ASSUME NEW m \in FwMarkets, NEW quote \in Quotes[m], FwMarketUpdated(m, quote)
      PROVE  ScanInv'
  <2>1. \E books, timer : Coalesced(books, timer)
    BY <1>1 DEF FwMarketUpdated
  <2>2. QED
    BY <2>1, <1>1, CoalescedKeeps DEF FwMarketUpdated, Undisturbed
<1>2. CASE DeferredFwScan
  <2>1. supervising
    BY <1>2 DEF DeferredFwScan, ScanInv, Quiet, NoTimer
  <2>2. \E books, timer : Coalesced(books, timer)
    BY <1>2 DEF DeferredFwScan
  <2>3. QED
    BY <2>1, <2>2, <1>2, CoalescedKeeps DEF DeferredFwScan, Undisturbed
<1>3. CASE StopSupervising
  BY <1>3 DEF StopSupervising, ScanInv, SlotsAccounted, OneScan, Quiet, NeverCrowdedOut,
     NoWeakLegAnnounced
<1>4. CASE Resolves \/ ModelAnswered
  BY <1>4, ResolveKeeps
<1>5. CASE Project
  BY <1>5, ProjectKeeps
<1>6. CASE OracleAnswered
  BY <1>6, AnswerKeeps DEF OracleAnswered
<1>7. CASE ScanTick
  BY <1>7, ScanTickKeeps
<1>8. CASE UNCHANGED scanVars
  BY <1>8 DEF scanVars, ScanInv, SlotsAccounted, OneScan, Quiet, NeverCrowdedOut, NoWeakLegAnnounced
<1>9. QED
  BY <1>1, <1>2, <1>3, <1>4, <1>5, <1>6, <1>7, <1>8 DEF ScanNext

\* No scan is turned away by the limit on concurrent requests, whatever the limit and
\* however scans, stops and answers meet.
THEOREM SlotAlwaysFree == ScanSpec => []NeverCrowdedOut
<1>1. ScanInv => NeverCrowdedOut
  BY DEF ScanInv
<1>2. QED
  BY <1>1, ScanInvInit, ScanInvStep, PTL DEF ScanSpec

\* Every leg that is announced passes the threshold with the bound it carries, whatever the
\* policy, the relations, the iterate and the books of the scan.
THEOREM LegsPassTheirBound == ScanSpec => []NoWeakLegAnnounced
<1>1. ScanInv => NoWeakLegAnnounced
  BY DEF ScanInv
<1>2. QED
  BY <1>1, ScanInvInit, ScanInvStep, PTL DEF ScanSpec

-----------------------------------------------------------------------------
(* The type of the state *)

\* What the throttle, the timer and the clocks of a scan keep.
TimesTyped ==
    /\ updates \in 0 .. MaxUpdates
    /\ deferred \in {NoTimer} \cup 0 .. MinInterval
    /\ sinceStart \in 0 .. MinInterval
    /\ scan.age \in 0 .. MaxScanAge

FlagsTyped == {supervising, unseen, inFlight, pending} \subseteq BOOLEAN

\* A scan in no known stage would never go on; the loop ends with its last iteration.
ScanTyped ==
    /\ {"stage", "age", "iteration"} \subseteq DOMAIN scan
    /\ scan.stage \in Stages
    /\ scan.iteration \in 0 .. AtLeast(1, fwPolicy.fwMaxIterations)

CircuitTyped ==
    /\ circuit = [failures |-> circuit.failures, opened |-> circuit.opened]
    /\ circuit.failures \in Nat /\ circuit.opened \in 0 .. Shut

ScanTypeInv ==
    /\ DOMAIN fwBooks = FwMarkets
    /\ TimesTyped /\ FlagsTyped /\ ScanTyped /\ CircuitTyped

LEMMA ScanNumbers ==
    ASSUME ScanInv
    PROVE  /\ MinInterval \in Nat /\ CircuitCooldown \in Nat /\ MaxScanAge \in Nat
           /\ MaxUpdates \in Nat /\ Far \in Nat /\ Shut = Far + 1
           /\ fwPolicy.fwMaxIterations \in Nat
  BY ScanAssumption DEF ScanInv, Far, Shut

LEMMA ScanTypeInit == ScanInit => ScanTypeInv
<1> SUFFICES ASSUME ScanInit
             PROVE  ScanTypeInv
  OBVIOUS
<1>1. ScanInv
  BY ScanInvInit
<1>2. DOMAIN fwBooks = FwMarkets /\ FlagsTyped
  BY ScanAssumption DEF ScanInit, FlagsTyped
<1>3. TimesTyped
  BY <1>1, ScanNumbers DEF ScanInit, TimesTyped, NoScan, NoTimer
<1>4. ScanTyped
  BY <1>1, ScanNumbers DEF ScanInit, ScanTyped, NoScan, Stages, AtLeast
<1>5. CircuitTyped
  BY <1>1, ScanNumbers DEF ScanInit, CircuitTyped
<1>6. QED
  BY <1>2, <1>3, <1>4, <1>5 DEF ScanTypeInv

\* What a scan that ends leaves to its successor.
LEMMA EndsTyped ==
    ASSUME ScanInv, ScanTypeInv, scan' = NoScan, AfterScan,
           UNCHANGED <<fwPolicy, fwBooks, updates, supervising, sinceStart, unseen>>
    PROVE  DOMAIN fwBooks' = FwMarkets /\ TimesTyped' /\ FlagsTyped' /\ ScanTyped'
<1>1. FlagsTyped'
  BY DEF ScanTypeInv, FlagsTyped, AfterScan
<1>2. deferred' \in {deferred, MinInterval}
  BY DEF AfterScan, scheduleDeferredFwScan
<1>3. TimesTyped'
  BY <1>2, ScanNumbers DEF ScanTypeInv, TimesTyped, NoScan
<1>4. ScanTyped'
  BY ScanNumbers DEF ScanTyped, NoScan, Stages, AtLeast
<1>5. QED
  BY <1>1, <1>3, <1>4 DEF ScanTypeInv

\* A request for a scan starts one, or asks for a later one.
LEMMA CoalescedTyped ==
    ASSUME ScanInv, ScanTypeInv, NEW books, NEW timer, Coalesced(books, timer),
           timer \in {deferred, NoTimer},
           updates' \in 0 .. MaxUpdates, DOMAIN fwBooks' = FwMarkets,
           UNCHANGED <<fwPolicy, supervising, circuit>>
    PROVE  ScanTypeInv'
<1>1. CircuitTyped'
  BY DEF ScanTypeInv, CircuitTyped
<1>2. timer \in {NoTimer} \cup 0 .. MinInterval
  BY DEF ScanTypeInv, TimesTyped
<1>3. CASE inFlight
  <2>1. pending' /\ unseen' /\ deferred' = timer /\ UNCHANGED <<scan, sinceStart, inFlight>>
    BY <1>3 DEF Coalesced
  <2>2. FlagsTyped'
    BY <1>3 DEF ScanTypeInv, FlagsTyped, Coalesced
  <2>3. QED
    BY <2>1, <2>2, <1>1, <1>2 DEF ScanTypeInv, TimesTyped, ScanTyped
<1>4. CASE ~inFlight /\ sinceStart < MinInterval
  <2>1. UNCHANGED <<scan, sinceStart, inFlight>>
    BY <1>4 DEF Coalesced
  <2>2. deferred' \in {timer, MinInterval - sinceStart}
    BY <1>4 DEF Coalesced
  <2>3. FlagsTyped'
    BY <1>4 DEF ScanTypeInv, FlagsTyped, Coalesced
  <2>4. TimesTyped'
    BY <2>1, <2>2, <1>2, ScanNumbers DEF ScanTypeInv, TimesTyped
  <2>5. QED
    BY <2>1, <2>3, <2>4, <1>1 DEF ScanTypeInv, ScanTyped
<1>5. CASE ~inFlight /\ ~ (sinceStart < MinInterval)
  <2>1. PICK universe : StartScan(books, universe) /\ deferred' = timer
    BY <1>5 DEF Coalesced
  <2>2. /\ scan'.stage = "started" /\ scan'.age = 0 /\ scan'.iteration = 0
        /\ {"stage", "age", "iteration"} \subseteq DOMAIN scan'
    BY <2>1 DEF StartScan, NoScan
  <2>3. FlagsTyped'
    BY <2>1 DEF ScanTypeInv, FlagsTyped, StartScan
  <2>4. TimesTyped'
    BY <2>1, <2>2, <1>2, ScanNumbers DEF ScanTypeInv, TimesTyped, StartScan
  <2>5. ScanTyped'
    BY <2>2, ScanNumbers DEF ScanTyped, Stages, AtLeast
  <2>6. QED
    BY <2>3, <2>4, <2>5, <1>1 DEF ScanTypeInv
<1>6. QED
  BY <1>3, <1>4, <1>5

\* A scan that goes on in its next stage.
LEMMA OnwardTyped ==
    ASSUME ScanInv, ScanTypeInv,
           scan'.stage \in Stages, scan'.age = scan.age,
           {"stage", "age", "iteration"} \subseteq DOMAIN scan',
           scan'.iteration \in 0 .. AtLeast(1, fwPolicy.fwMaxIterations),
           UNCHANGED <<fwPolicy, fwBooks, updates, coalescing, unseen>>
    PROVE  DOMAIN fwBooks' = FwMarkets /\ TimesTyped' /\ FlagsTyped' /\ ScanTyped'
<1>1. FlagsTyped'
  BY DEF ScanTypeInv, FlagsTyped, coalescing
<1>2. TimesTyped' /\ ScanTyped'
  BY DEF ScanTypeInv, TimesTyped, ScanTyped, coalescing
<1>3. QED
  BY <1>1, <1>2 DEF ScanTypeInv

LEMMA ResolveTyped ==
    ASSUME ScanInv, ScanTypeInv, Resolves \/ ModelAnswered
    PROVE  ScanTypeInv'
<1>1. ASSUME NEW llm, Resolved(llm)
      PROVE  /\ scan'.stage = "resolved" /\ scan'.age = scan.age
             /\ scan'.iteration = scan.iteration /\ DOMAIN scan' = DOMAIN scan
  BY <1>1 DEF Resolved, ScanTypeInv, ScanTyped
<1>2. ASSUME scan'.stage \in {"resolved", "asking"}, scan'.age = scan.age,
             scan'.iteration = scan.iteration, DOMAIN scan' = DOMAIN scan,
             UNCHANGED <<fwPolicy, fwBooks, updates, coalescing, unseen, circuit>>
      PROVE  ScanTypeInv'
  <2>1. CircuitTyped'
    BY <1>2 DEF ScanTypeInv, CircuitTyped
  <2>2. QED
    BY <2>1, <1>2, OnwardTyped DEF ScanTypeInv, ScanTyped, Stages
<1>3. CASE ResolveStatically
  BY <1>1, <1>2, <1>3 DEF ResolveStatically
<1>4. CASE ResolveFromCache
  BY <1>1, <1>2, <1>4 DEF ResolveFromCache
<1>5. CASE AskModel
  <2>1. /\ scan'.stage = "asking" /\ scan'.age = scan.age
        /\ scan'.iteration = scan.iteration /\ DOMAIN scan' = DOMAIN scan
    BY <1>5 DEF AskModel, ScanTypeInv, ScanTyped
  <2>2. QED
    BY <2>1, <1>2, <1>5 DEF AskModel
<1>6. ASSUME NEW call \in Calls, ModelAnswers(call)
      PROVE  ScanTypeInv'
  <2>1. PICK reason : Answered(reason, IF reason = "ok"
                                       THEN sanitizeEdges(call.edges, scan.universe) ELSE {})
    BY <1>6 DEF ModelAnswers
  <2>2. \E llm : Resolved(llm)
    BY <2>1 DEF Answered
  <2>3. QED
    BY <2>2, <1>1, <1>2, <1>6 DEF ModelAnswers
<1>7. QED
  BY <1>3, <1>4, <1>5, <1>6 DEF Resolves, ModelAnswered

LEMMA ProjectTyped ==
    ASSUME ScanInv, ScanTypeInv, Project
    PROVE  ScanTypeInv'
<1>1. UNCHANGED <<fwPolicy, fwBooks, updates, supervising, sinceStart, unseen>>
  BY DEF Project
<1>2. ASSUME NEW reason, TurnedAway(reason, circuit)
      PROVE  ScanTypeInv'
  <2>1. scan' = NoScan /\ AfterScan /\ circuit' = circuit
    BY <1>2 DEF TurnedAway, Rejected, EndScan
  <2>2. CircuitTyped'
    BY <2>1 DEF ScanTypeInv, CircuitTyped
  <2>3. QED
    BY <1>1, <2>1, <2>2, EndsTyped DEF ScanTypeInv
<1>3. ASSUME NEW entries, Ask(entries, 0)
      PROVE  ScanTypeInv'
  <2>1. /\ scan'.stage = "solving" /\ scan'.age = scan.age /\ scan'.iteration = 0
        /\ DOMAIN scan' = DOMAIN scan
    BY <1>3 DEF Ask, ScanTypeInv, ScanTyped
  <2>2. CircuitTyped'
    BY <1>3, ScanNumbers DEF Ask, CircuitAsked, ScanTypeInv, CircuitTyped
  <2>3. 0 \in 0 .. AtLeast(1, fwPolicy.fwMaxIterations)
    BY ScanNumbers DEF AtLeast
  <2>4. UNCHANGED coalescing
    BY <1>1, <1>3 DEF Ask, coalescing
  <2>5. QED
    BY <1>1, <2>1, <2>2, <2>3, <2>4, OnwardTyped DEF ScanTypeInv, ScanTyped, Stages
<1>4. QED
  BY <1>2, <1>3 DEF Project

\* While the loop goes on, it has not used its last iteration.
LEMMA LoopGoesOn ==
    ASSUME NEW verdict, Terminal(verdict) = "none"
    PROVE  ~ (scan.iteration >= AtLeast(1, fwPolicy.fwMaxIterations))
  BY DEF Terminal

LEMMA AnswerTyped ==
    ASSUME ScanInv, ScanTypeInv, NEW reply, NEW verdict, OracleAnswers(reply, verdict)
    PROVE  ScanTypeInv'
<1>1. UNCHANGED <<fwPolicy, fwBooks, updates, supervising, sinceStart, unseen>>
  BY DEF OracleAnswers
<1>2. CircuitTyped'
  <2>1. circuit' = CircuitAfter(reply)
    BY DEF OracleAnswers
  <2>2. scan.age \in 0 .. Shut
    BY ScanNumbers DEF ScanTypeInv, TimesTyped, Far
  <2>3. QED
    BY <2>1, <2>2, ScanNumbers DEF CircuitAfter, ScanTypeInv, CircuitTyped
<1>3. ASSUME scan' = NoScan, AfterScan
      PROVE  ScanTypeInv'
  BY <1>1, <1>2, <1>3, EndsTyped DEF ScanTypeInv
<1>4. ASSUME NEW terminal, Concludes(terminal, reply)
      PROVE  ScanTypeInv'
  BY <1>3, <1>4, ConcludeEnds DEF Concludes, ScanEnded
<1>5. ASSUME NEW next, Iterate(next),
             ~ (scan.iteration >= AtLeast(1, fwPolicy.fwMaxIterations))
      PROVE  ScanTypeInv'
  <2>1. /\ scan'.stage = scan.stage /\ scan'.age = scan.age
        /\ scan'.iteration = scan.iteration + 1 /\ DOMAIN scan' = DOMAIN scan
    BY <1>5 DEF Iterate, ScanTypeInv, ScanTyped
  <2>2. scan.iteration + 1 \in 0 .. AtLeast(1, fwPolicy.fwMaxIterations)
    BY <1>5, ScanNumbers DEF ScanTypeInv, ScanTyped, AtLeast
  <2>3. UNCHANGED coalescing
    BY <1>1, <1>5 DEF Iterate, coalescing
  <2>4. QED
    BY <1>1, <1>2, <2>1, <2>2, <2>3, OnwardTyped DEF ScanTypeInv, ScanTyped
<1>6. ASSUME scan.iteration = 0
      PROVE  ~ (scan.iteration >= AtLeast(1, fwPolicy.fwMaxIterations))
  BY <1>6, ScanNumbers DEF AtLeast
<1>7. CASE scan.iteration = 0 /\ FirstAnswer(reply)
  <2>1. Rejected("oracle_unavailable") => scan' = NoScan /\ AfterScan
    BY DEF Rejected, EndScan
  <2>2. QED
    BY <2>1, <1>3, <1>4, <1>5, <1>6, <1>7 DEF FirstAnswer
<1>8. CASE LaterAnswer(reply, Terminal(verdict), verdict)
  BY <1>4, <1>5, <1>8, LoopGoesOn DEF LaterAnswer
<1>9. QED
  BY <1>7, <1>8 DEF OracleAnswers

LEMMA ScanTickTyped ==
    ASSUME ScanInv, ScanTypeInv, ScanTick
    PROVE  ScanTypeInv'
<1>1. FlagsTyped' /\ DOMAIN fwBooks' = FwMarkets
  BY DEF ScanTick, ScanTypeInv, FlagsTyped
<1>2. /\ scan'.age \in 0 .. MaxScanAge /\ DOMAIN scan' = DOMAIN scan
      /\ scan'.stage = scan.stage /\ scan'.iteration = scan.iteration
  <2>1. CASE scan.stage = "idle"
    BY <2>1 DEF ScanTick, ScanTypeInv, TimesTyped
  <2>2. CASE scan.stage # "idle"
    <3>1. scan' = [scan EXCEPT !.age = @ + 1] /\ scan.age < MaxScanAge
      BY <2>2 DEF ScanTick
    <3>2. scan.age + 1 \in 0 .. MaxScanAge
      BY <3>1, ScanNumbers DEF ScanTypeInv, TimesTyped
    <3>3. QED
      BY <3>1, <3>2 DEF ScanTypeInv, ScanTyped
  <2>3. QED
    BY <2>1, <2>2
<1>3. deferred' \in {NoTimer} \cup 0 .. MinInterval
  BY ScanNumbers DEF ScanTick, CountedDown, NoTimer, ScanTypeInv, TimesTyped
<1>4. sinceStart' \in 0 .. MinInterval
  BY ScanNumbers DEF ScanTick, AtMost, ScanTypeInv, TimesTyped
<1>5. CircuitTyped'
  <2>1. circuit' = [circuit EXCEPT !.opened = IF @ = Shut THEN @ ELSE AtMost(Far, @ + 1)]
    BY DEF ScanTick
  <2>2. /\ circuit'.failures = circuit.failures
        /\ circuit'.opened = IF circuit.opened = Shut THEN circuit.opened
                             ELSE AtMost(Far, circuit.opened + 1)
        /\ circuit' = [failures |-> circuit'.failures, opened |-> circuit'.opened]
    BY <2>1 DEF ScanTypeInv, CircuitTyped
  <2>3. circuit'.opened \in 0 .. Shut
    BY <2>2, ScanNumbers DEF AtMost, ScanTypeInv, CircuitTyped
  <2>4. QED
    BY <2>2, <2>3 DEF ScanTypeInv, CircuitTyped
<1>6. UNCHANGED <<updates, fwPolicy>>
  BY DEF ScanTick
<1>7. QED
  BY <1>1, <1>2, <1>3, <1>4, <1>5, <1>6 DEF ScanTypeInv, TimesTyped, ScanTyped

LEMMA ScanTypeStep == ScanInv /\ ScanTypeInv /\ [ScanNext]_scanVars => ScanTypeInv'
<1> SUFFICES ASSUME ScanInv, ScanTypeInv, [ScanNext]_scanVars
             PROVE  ScanTypeInv'
  OBVIOUS
<1>1. ASSUME NEW m \in FwMarkets, NEW quote \in Quotes[m], FwMarketUpdated(m, quote)
      PROVE  ScanTypeInv'
  <2>1. updates' \in 0 .. MaxUpdates
    BY <1>1, ScanNumbers DEF FwMarketUpdated, ScanTypeInv, TimesTyped
  <2>2. DOMAIN fwBooks' = FwMarkets
    BY <1>1 DEF FwMarketUpdated, ScanTypeInv
  <2>3. QED
    BY <1>1, <2>1, <2>2, CoalescedTyped DEF FwMarketUpdated
<1>2. CASE DeferredFwScan
  BY <1>2, CoalescedTyped DEF DeferredFwScan, ScanTypeInv, TimesTyped
<1>3. CASE StopSupervising
  BY <1>3 DEF StopSupervising, ScanTypeInv, TimesTyped, FlagsTyped, ScanTyped, CircuitTyped
<1>4. CASE Resolves \/ ModelAnswered
  BY <1>4, ResolveTyped
<1>5. CASE Project
  BY <1>5, ProjectTyped
<1>6. CASE OracleAnswered
  BY <1>6, AnswerTyped DEF OracleAnswered
<1>7. CASE ScanTick
  BY <1>7, ScanTickTyped
<1>8. CASE UNCHANGED scanVars
  BY <1>8 DEF scanVars, ScanTypeInv, TimesTyped, FlagsTyped, ScanTyped, CircuitTyped
<1>9. QED
  BY <1>1, <1>2, <1>3, <1>4, <1>5, <1>6, <1>7, <1>8 DEF ScanNext

\* The scans keep their type: the timer is never set further ahead than the interval
\* (scheduleDeferredFwScan), the loop goes no further than the iterations of its policy, a scan
\* is always in a stage it can leave, and an open circuit never gets the age of a shut one.
THEOREM ScanTypeCorrect == ScanSpec => []ScanTypeOK
<1>1. ScanSpec => []ScanInv /\ []ScanTypeInv
  BY ScanInvInit, ScanInvStep, ScanTypeInit, ScanTypeStep, PTL DEF ScanSpec
<1>2. ScanInv /\ ScanTypeInv => ScanTypeOK
  <2> SUFFICES ASSUME ScanInv, ScanTypeInv
               PROVE  ScanTypeOK
    OBVIOUS
  <2>1. scan.iteration \in Iterations
    <3> DEFINE Allowed(p) == 0 .. IF p.fwMaxIterations > 1 THEN p.fwMaxIterations ELSE 1
    <3>1. scan.iteration \in Allowed(fwPolicy) /\ fwPolicy \in FwPolicies
      BY ScanNumbers DEF ScanInv, ScanTypeInv, ScanTyped, AtLeast
    <3>2. Iterations = UNION {Allowed(p) : p \in FwPolicies}
      BY DEF Iterations
    <3> HIDE DEF Allowed
    <3>3. QED
      BY <3>1, <3>2
  <2>2. slots \in Nat
    BY DEF ScanInv, SlotsAccounted
  <2>3. QED
    BY <2>1, <2>2 DEF ScanInv, ScanTypeInv, TimesTyped, FlagsTyped, ScanTyped, CircuitTyped,
       ScanTypeOK
<1>3. QED
  BY <1>1, <1>2, PTL

-----------------------------------------------------------------------------
(* All services together *)

LEMMA ServicesStart ==
    ServicesInit => ScanInit /\ OperationsInit /\ LifeInit /\ LearningInit /\ CallsInit
  BY DEF ServicesInit

\* A step of one service leaves the others where they are.
LEMMA ServicesStep ==
    ASSUME [ServicesNext]_<<service, serviceVars>>
    PROVE  /\ [ScanNext]_scanVars
           /\ [OperationsNext]_operationVars
           /\ [LifeNext]_lifeVars
           /\ [LearningNext]_learnVars
           /\ [CallsNext]_callVars
<1>1. CASE UNCHANGED <<service, serviceVars>>
  BY <1>1 DEF serviceVars
<1>2. CASE ServicesNext
  BY <1>2 DEF ServicesNext, ScanSteps, TradingSteps, LifeSteps, SignalSteps, LearningSteps,
     CallSteps
<1>3. QED
  BY <1>1, <1>2

\* Each service runs among the others as it does alone: what is proved of it holds of all of
\* them together, whatever fairness is assumed.
THEOREM ServicesKeepParts ==
    ServicesSpec => ScanSpec /\ OperationsSpec /\ LifeSpec /\ LearningSpec /\ CallsSpec
  BY ServicesStart, ServicesStep, PTL
     DEF ServicesSpec, ScanSpec, OperationsSpec, LifeSpec, LearningSpec, CallsSpec
=============================================================================

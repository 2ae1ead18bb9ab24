------------------------------- MODULE Services -------------------------------
(***************************************************************************)
(* The services around the pipeline: the scans of the universe (FwScan),   *)
(* the trading state and the market catalog (Operations), the life of the  *)
(* process with its reconciliations (Reconciliation), the rounds of        *)
(* signals (Signals), what is learned from the events (Learning), and the  *)
(* calls to the venue (VenueCalls).  They reach each other only through    *)
(* the policy, the catalog, the bus and the answers of the venue, which    *)
(* every one of these modules lets change or fail at any time, so a        *)
(* behaviour is of one of them and the state of the others does not move.  *)
(***************************************************************************)
EXTENDS FwScan, Operations, Reconciliation, Signals, Learning, VenueCalls

VARIABLE service         \* the one this behaviour is of

ServiceNames == {"scans", "trading", "life", "signals", "learning", "calls"}

\* A service that is not the one of this behaviour stays in one of its initial states.
ServicesInit ==
    /\ service \in ServiceNames
    /\ ScanInit /\ (service # "scans" => fwPolicy = CHOOSE p \in FwPolicies : TRUE)
    /\ OperationsInit /\ (service # "trading" => manager.enabled /\ manager.mode = "live")
    /\ LifeInit /\ (service # "life" => live /\ Open = {})
    /\ SignalsInit /\ LearningInit /\ CallsInit
    /\ (service # "signals" => signalPolicy = CHOOSE p \in SignalPolicies : TRUE)

serviceVars == <<scanVars, operationVars, lifeVars, signalVars, learnVars, callVars>>

ScanSteps ==
    /\ service = "scans" /\ ScanNext
    /\ UNCHANGED <<service, operationVars, lifeVars, signalVars, learnVars, callVars>>

TradingSteps ==
    /\ service = "trading" /\ OperationsNext
    /\ UNCHANGED <<service, scanVars, lifeVars, signalVars, learnVars, callVars>>

LifeSteps ==
    /\ service = "life" /\ LifeNext
    /\ UNCHANGED <<service, scanVars, operationVars, signalVars, learnVars, callVars>>

SignalSteps ==
    /\ service = "signals" /\ SignalsNext
    /\ UNCHANGED <<service, scanVars, operationVars, lifeVars, learnVars, callVars>>

LearningSteps ==
    /\ service = "learning" /\ LearningNext
    /\ UNCHANGED <<service, scanVars, operationVars, lifeVars, signalVars, callVars>>

CallSteps ==
    /\ service = "calls" /\ CallsNext
    /\ UNCHANGED <<service, scanVars, operationVars, lifeVars, signalVars, learnVars>>

ServicesNext ==
    ScanSteps \/ TradingSteps \/ LifeSteps \/ SignalSteps \/ LearningSteps \/ CallSteps

\* Timers fire and a turn that has begun ends; a scan does not stay in one stage, since its
\* requests have timeouts; the venue answers a refresh or lets it fail; rounds of signals start
\* and go on, and every search is answered or times out.
ServicesFairness ==
    /\ WF_scanVars(service = "scans" /\ ScanTick)
    /\ []<>(deferred # 0 \/ ~TurnOver)
    /\ \A s \in Stages \ {"idle", "solving"} : []<>(scan.stage # s)
    /\ \A i \in Iterations : []<>(scan.stage # "solving" \/ scan.iteration # i)
    /\ WF_refresh(service = "trading" /\ StartRefresh)
    /\ WF_backingOff(service = "trading" /\ BackoffEnds)
    /\ WF_refresh(service = "trading" /\ PageArrives)
    /\ WF_signalVars(service = "signals" /\ SignalsTick)
    /\ WF_signalVars(service = "signals" /\ RoundStarts)
    /\ WF_signalVars(service = "signals" /\ NextPhase)
    /\ \A m \in SignalMarkets : WF_signalVars(service = "signals" /\ Answers(m))

ServicesSpec ==
    /\ ServicesInit
    /\ [][ServicesNext]_<<service, serviceVars>>
    /\ ServicesFairness

-----------------------------------------------------------------------------
(* Properties: the invariants and the liveness of the single services hold *)
(* of all together, and                                                    *)

\* A market that stays due is searched for again and again (DueMarketsGetTheirTurn), while
\* the rounds of signals run.
RoundsReachDueMarkets == service = "signals" => DueMarketsGetTheirTurn
=============================================================================

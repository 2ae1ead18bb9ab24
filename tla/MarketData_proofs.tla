---------------------------- MODULE MarketData_proofs ----------------------------
(***************************************************************************)
(* Proofs about MarketData and the connection it runs on (Realtime), for   *)
(* any tokens and any number of faults.                                    *)
(*                                                                         *)
(* A socket that is let go leaves one close event behind, and every close  *)
(* event sets one reconnect timer; so what keeps the connection up is      *)
(* handed on and never doubled.  It also has to be known that connect is   *)
(* wanted while the agent runs (shouldReconnect), and that an end of the   *)
(* first connection ends the start.                                        *)
(***************************************************************************)
EXTENDS MarketData, TLAPS

Sockets == {"none", "connecting", "open", "closing"}

ConnectionTypes ==
    /\ started \in {"no", "connecting", "yes", "stopped"}
    /\ shouldReconnect \in BOOLEAN /\ ws \in Sockets
    /\ orphans \in Nat /\ timers \in Nat

\* What there is of the connection at each stage of the agent.
StageOfConnection ==
    /\ started = "no" => ws = "none" /\ orphans = 0 /\ timers = 0
    /\ started = "connecting" => ws = "connecting" /\ orphans = 0 /\ timers = 0
    /\ started \in {"connecting", "yes"} => shouldReconnect = TRUE
    /\ started = "stopped" => shouldReconnect = FALSE

\* What is subscribed to, and so renewed with a connection.
SubscriptionsWanted ==
    /\ started \in {"no", "connecting"} => subscribed = {}
    /\ started = "yes" => subscribed = tokenIds

LifelineInv ==
    /\ ConnectionTypes /\ StageOfConnection /\ SubscriptionsWanted
    /\ OneLifeline /\ SubscribedAsWanted

\* All the invariant speaks of.
line == <<shouldReconnect, ws, orphans, timers, subscribed, venueSubs, started, tokenIds>>

-----------------------------------------------------------------------------

LEMMA InitLifeline == Init => LifelineInv
  BY DEF Init, RealtimeInit, LifelineInv, ConnectionTypes, StageOfConnection,
         SubscriptionsWanted, OneLifeline, SubscribedAsWanted, Sockets

\* Messages, requests, books and the venue do not touch the connection.
LEMMA OthersKeepLine ==
    ASSUME \/ Deliver \/ refreshStaleBooks \/ CoolDown
           \/ \E r \in rest : RestRead(r) \/ RestAnswer(r) \/ RestFails(r)
           \/ \E t \in Topics : Age(t) \/ \E p \in Prices : LevelChanges(t, p)
           \/ \E t \in Topics : \E tick \in Ticks \ {venue[t].tickSize} : TickChanges(t, tick)
           \/ UNCHANGED dataVars
    PROVE  UNCHANGED line
  <1> USE DEF line, realtimeVars, connection, agent
  <1>1. CASE Deliver
    BY <1>1 DEF Deliver
  <1>2. CASE refreshStaleBooks
    BY <1>2 DEF refreshStaleBooks
  <1>3. CASE CoolDown
    BY <1>3 DEF CoolDown
  <1>4. ASSUME NEW r \in rest, RestRead(r) \/ RestAnswer(r) \/ RestFails(r)
        PROVE  UNCHANGED line
    BY <1>4 DEF RestRead, RestAnswer, RestFails
  <1>5. ASSUME NEW t \in Topics, Age(t)
        PROVE  UNCHANGED line
    BY <1>5 DEF Age
  <1>6. ASSUME NEW t \in Topics, NEW p \in Prices, LevelChanges(t, p)
        PROVE  UNCHANGED line
    BY <1>6 DEF LevelChanges
  <1>7. ASSUME NEW t \in Topics, NEW tick \in Ticks \ {venue[t].tickSize}, TickChanges(t, tick)
        PROVE  UNCHANGED line
    BY <1>7 DEF TickChanges
  <1>8. CASE UNCHANGED dataVars
    BY <1>8 DEF dataVars
  <1> QED
    BY <1>1, <1>2, <1>3, <1>4, <1>5, <1>6, <1>7, <1>8

LEMMA NextLifeline == LifelineInv /\ [Next]_dataVars => LifelineInv'
  <1> SUFFICES ASSUME LifelineInv, [Next]_dataVars
               PROVE  LifelineInv'
    OBVIOUS
  <1> USE DEF LifelineInv, ConnectionTypes, StageOfConnection, SubscriptionsWanted, OneLifeline,
              SubscribedAsWanted, Sockets
  <1>1. CASE Start
    BY <1>1 DEF Start, connect
  <1>2. CASE StartFails
    <2>1. /\ started = "connecting" /\ started' = "stopped"
          /\ ws' = "none" /\ shouldReconnect' = FALSE
          /\ UNCHANGED <<subscribed, venueSubs, tokenIds>>
      BY <1>2 DEF StartFails, FirstConnectFails
    <2>2. orphans' \in Nat /\ timers' \in Nat
      BY <1>2 DEF StartFails, FirstConnectFails
    <2> QED
      BY <2>1, <2>2
  <1>3. CASE Open
    <2>1. /\ ws = "connecting" /\ ws' = "open"
          /\ subscribed' = subscribed \cup (IF started = "connecting" THEN tokenIds ELSE {})
          /\ venueSubs' = subscribed'
          /\ started' = IF started = "connecting" THEN "yes" ELSE started
          /\ UNCHANGED <<shouldReconnect, orphans, timers, tokenIds>>
      BY <1>3 DEF Open, Opened
    <2>2. started \in {"connecting", "yes"}
      BY <2>1
    <2> QED
      BY <2>1, <2>2
  <1>4. CASE ConnectionEnds
    <2>1. started # "connecting" /\ UNCHANGED <<subscribed, started, tokenIds, shouldReconnect>>
      BY <1>4 DEF ConnectionEnds, Closed, OrphanClosed, Dropped, OpenFails, SocketGone, agent
    <2>2. CASE Closed \/ Dropped
      BY <1>4, <2>1, <2>2 DEF Closed, Dropped, SocketGone
    <2>3. CASE OrphanClosed
      BY <1>4, <2>1, <2>3 DEF OrphanClosed, SocketGone
    <2>4. CASE OpenFails
      BY <1>4, <2>1, <2>4 DEF OpenFails
    <2> QED
      BY <1>4, <2>2, <2>3, <2>4 DEF ConnectionEnds
  <1>5. CASE ConnectionSteps
    <2>1. UNCHANGED <<subscribed, venueSubs, started, tokenIds>>
      BY <1>5 DEF ConnectionSteps, Errs, GoesSilent, Heartbeat, ReconnectTimer, Terminate, agent
    <2>2. CASE Errs \/ GoesSilent \/ Heartbeat
      BY <2>1, <2>2 DEF Errs, GoesSilent, Heartbeat, Terminate
    <2>3. CASE ReconnectTimer
      <3>1. timers > 0 /\ timers' = timers - 1 /\ orphans' = orphans
        BY <2>3 DEF ReconnectTimer, connect
      <3>2. CASE ws = "none" /\ shouldReconnect
        <4>1. ws' = "connecting" /\ shouldReconnect' = TRUE
          BY <2>3, <3>2 DEF ReconnectTimer, connect
        <4>2. started = "yes"
          BY <3>1, <3>2
        <4> QED
          BY <2>1, <3>1, <3>2, <4>1, <4>2
      <3>3. CASE ~(ws = "none" /\ shouldReconnect)
        <4>1. UNCHANGED <<ws, shouldReconnect>>
          BY <2>3, <3>3 DEF ReconnectTimer
        <4>2. started = "stopped"
          BY <3>1, <3>3
        <4> QED
          BY <2>1, <3>1, <4>1, <4>2
      <3> QED
        BY <3>2, <3>3
    <2> QED
      BY <1>5, <2>2, <2>3 DEF ConnectionSteps
  <1>6. CASE Shutdown
    <2>1. /\ started' = "stopped" /\ ws' = "none" /\ shouldReconnect' = FALSE
          /\ UNCHANGED <<subscribed, venueSubs, tokenIds, timers>>
      BY <1>6 DEF Shutdown, close
    <2>2. orphans' \in Nat
      BY <1>6 DEF Shutdown, close
    <2> QED
      BY <2>1, <2>2
  <1>7. ASSUME NEW tokens \in SUBSET Topics, updateSubscriptions(tokens)
        PROVE  LifelineInv'
    <2> DEFINE gone == tokenIds \ tokens
               more == tokens \ tokenIds
    <2>1. /\ started = "yes" /\ started' = "yes" /\ tokenIds' = tokens
          /\ IF gone = {} THEN subscribe(more) ELSE unsubscribe(gone, more)
      BY <1>7 DEF updateSubscriptions
    <2>2. (subscribed \ gone) \cup more = tokens
      BY <2>1
    <2>3. CASE gone = {}
      BY <2>1, <2>2, <2>3 DEF subscribe, connection
    <2>4. CASE gone # {}
      BY <2>1, <2>2, <2>4 DEF unsubscribe
    <2> QED
      BY <2>3, <2>4
  <1>8. CASE UNCHANGED line
    BY <1>8 DEF line
  <1> QED
    BY <1>1, <1>2, <1>3, <1>4, <1>5, <1>6, <1>7, <1>8, OthersKeepLine DEF Next

LEMMA LifelineInvariant == Spec => []LifelineInv
  BY InitLifeline, NextLifeline, PTL DEF Spec

\* However errors, closes, the heartbeat, reconnect timers and changes of subscriptions
\* meet, a running agent has one socket or one thing that will make one, and a stopped one
\* none (PolymarketRealtime).
THEOREM OneLifelineKept == Spec => []OneLifeline
  <1>1. LifelineInv => OneLifeline
    BY DEF LifelineInv
  <1> QED
    BY <1>1, LifelineInvariant, PTL

\* The venue sends on an open connection what the catalog wants (updateSubscriptions).
THEOREM SubscriptionsFollow == Spec => []SubscribedAsWanted
  <1>1. LifelineInv => SubscribedAsWanted
    BY DEF LifelineInv
  <1> QED
    BY <1>1, LifelineInvariant, PTL
=============================================================================

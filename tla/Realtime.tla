------------------------------- MODULE Realtime -------------------------------
(***************************************************************************)
(* A websocket connection that is kept up (src/src/services/               *)
(* PolymarketRealtime.ts): connecting, reconnecting after errors and       *)
(* closes, the heartbeat that ends a silent connection, subscriptions and  *)
(* their renewal, and close.  The delays are left out: a timer that is set *)
(* fires at some time.                                                     *)
(***************************************************************************)
EXTENDS Naturals, FiniteSets

CONSTANTS Topics,        \* what can be subscribed to
          MaxFaults      \* bound: how often the network or the venue fails

VARIABLES
    shouldReconnect,
    ws,              \* the socket the service holds
    orphans,         \* the sockets it no longer holds whose close event is to come
    timers,          \* the reconnect timers that are set
    heartbeat,       \* whether the heartbeat runs
    silent,          \* whether the open connection carries nothing any more
    subscribed,      \* subscribedAssetIds and subscribedUser
    venueSubs,       \* what the venue sends on the socket
    faults

connection == <<shouldReconnect, ws, orphans, timers, heartbeat, silent>>
realtimeVars == <<connection, subscribed, venueSubs, faults>>

RealtimeTypeOK ==
    /\ shouldReconnect \in BOOLEAN /\ heartbeat \in BOOLEAN /\ silent \in BOOLEAN
    /\ ws \in {"none", "connecting", "open", "closing"}
    /\ orphans \in 0 .. 1 /\ timers \in 0 .. 1
    /\ subscribed \subseteq Topics /\ venueSubs \subseteq Topics
    /\ faults \in 0 .. MaxFaults

RealtimeInit ==
    /\ shouldReconnect = TRUE /\ ws = "none" /\ orphans = 0 /\ timers = 0
    /\ heartbeat = FALSE /\ silent = FALSE
    /\ subscribed = {} /\ venueSubs = {} /\ faults = 0

\* connect does nothing while there is a socket.
connect ==
    /\ shouldReconnect' = TRUE
    /\ ws' = IF ws = "none" THEN "connecting" ELSE ws
    /\ UNCHANGED <<orphans, heartbeat, silent>>

\* The open event renews every subscription and starts the heartbeat; more is what the
\* caller of connect subscribes to next.
Opened(more) ==
    /\ ws = "connecting"
    /\ ws' = "open"
    /\ heartbeat' = TRUE /\ silent' = FALSE
    /\ subscribed' = subscribed \cup more
    /\ venueSubs' = subscribed'
    /\ UNCHANGED <<shouldReconnect, orphans, timers, faults>>

\* Not in the code: only a connection that had been open is made again.
SocketGoneForGood(n) ==
    /\ ws' = "none"
    /\ orphans' = n
    /\ timers' = timers + (IF shouldReconnect /\ heartbeat THEN 1 ELSE 0)
    /\ heartbeat' = FALSE /\ silent' = FALSE
    /\ venueSubs' = {}
    /\ UNCHANGED <<shouldReconnect, subscribed>>

\* The close event of a socket, the one held or another: whatever is held is let go.
SocketGone(n) ==
    /\ ws' = "none"
    /\ orphans' = n
    /\ timers' = timers + (IF shouldReconnect THEN 1 ELSE 0)
    /\ heartbeat' = FALSE /\ silent' = FALSE
    /\ venueSubs' = {}
    /\ UNCHANGED <<shouldReconnect, subscribed>>

Fault == faults < MaxFaults /\ faults' = faults + 1

Closed == ws = "closing" /\ SocketGone(orphans) /\ UNCHANGED faults

OrphanClosed == orphans > 0 /\ SocketGone(orphans - 1) /\ UNCHANGED faults

\* The venue or the network closes the connection.
Dropped == ws \in {"connecting", "open"} /\ Fault /\ SocketGone(orphans)

\* An error before the connection is open: the socket is let go, its close event follows.
OpenFails ==
    /\ ws = "connecting" /\ Fault
    /\ ws' = "none" /\ orphans' = orphans + 1
    /\ heartbeat' = FALSE
    /\ UNCHANGED <<shouldReconnect, timers, silent, subscribed, venueSubs>>

\* The socket is closed or terminated: nothing can be sent, the close event follows.
Terminate ==
    /\ ws' = "closing"
    /\ UNCHANGED <<shouldReconnect, orphans, subscribed, venueSubs>>

\* Not in the code: a reconnect on the error too.
ErrsAndReconnects ==
    /\ ws = "open" /\ Fault
    /\ heartbeat' = FALSE
    /\ timers' = timers + 1
    /\ Terminate
    /\ UNCHANGED silent

\* An error of an open connection.
Errs ==
    /\ ws = "open" /\ Fault
    /\ heartbeat' = FALSE
    /\ Terminate
    /\ UNCHANGED <<timers, silent>>

\* The connection stays open but carries nothing any more.
GoesSilent ==
    /\ ws = "open" /\ ~silent /\ Fault
    /\ silent' = TRUE
    /\ UNCHANGED <<shouldReconnect, ws, orphans, timers, heartbeat, subscribed, venueSubs>>

\* The heartbeat finds that nothing has come for staleThresholdMs.
Heartbeat ==
    /\ heartbeat /\ ws = "open" /\ silent
    /\ Terminate
    /\ UNCHANGED <<heartbeat, timers, silent, faults>>

\* A reconnect timer fires.
ReconnectTimer ==
    /\ timers > 0
    /\ timers' = timers - 1
    /\ IF ws = "none" /\ shouldReconnect
       THEN connect
       ELSE UNCHANGED <<shouldReconnect, ws, orphans, heartbeat, silent>>
    /\ UNCHANGED <<subscribed, venueSubs, faults>>

subscribe(topics) ==
    /\ subscribed' = subscribed \cup topics
    /\ venueSubs' = IF ws = "open" THEN venueSubs \cup topics ELSE venueSubs
    /\ UNCHANGED <<connection, faults>>

\* Not in the code: the set of ids changes and the connection stays.
unsubscribeQuietly(gone, topics) ==
    /\ subscribed' = (subscribed \ gone) \cup topics
    /\ UNCHANGED <<connection, venueSubs, faults>>

\* Dropping a subscription closes the connection, for the next one to renew the rest;
\* what is subscribed to at once is sent on neither.
unsubscribe(gone, topics) ==
    /\ subscribed' = (subscribed \ gone) \cup topics
    /\ ws' = IF ws \in {"connecting", "open"} THEN "closing" ELSE ws
    /\ UNCHANGED <<shouldReconnect, orphans, timers, heartbeat, silent, venueSubs, faults>>

\* The first connection fails, by an error or a close, and the process that cannot start
\* closes it.
FirstConnectFails ==
    /\ ws = "connecting" /\ Fault
    /\ ws' = "none" /\ heartbeat' = FALSE /\ shouldReconnect' = FALSE
    /\ \/ orphans' = orphans + 1 /\ timers' = timers
       \/ orphans' = orphans /\ timers' = timers + 1
    /\ UNCHANGED <<silent, subscribed, venueSubs>>

close ==
    /\ shouldReconnect' = FALSE /\ heartbeat' = FALSE
    /\ ws' = "none"
    /\ orphans' = orphans + (IF ws = "none" THEN 0 ELSE 1)
    /\ UNCHANGED <<timers, silent, subscribed, venueSubs, faults>>
=============================================================================

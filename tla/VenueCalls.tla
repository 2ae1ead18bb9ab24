------------------------------ MODULE VenueCalls ------------------------------
(***************************************************************************)
(* The calls to the venue (src/src/services/PolymarketClob.ts): they wait  *)
(* in line for the rate limiter (src/src/services/RateLimiter.ts), and     *)
(* what fails is sent again after a growing delay (src/src/services/       *)
(* RetryPolicy.ts).  A request that is given up may still reach the venue, *)
(* and an answer may be lost.                                              *)
(*                                                                         *)
(* The venue is known from its error codes: it refuses an order whose      *)
(* nonce it has seen.  A call that places no order is like a batch the     *)
(* venue never takes.                                                      *)
(***************************************************************************)
EXTENDS Integers, Sequences

CONSTANTS
    OrderCalls,      \* the calls of createOrder
    BatchCalls,      \* those of createBatchOrders
    Capacity,        \* rateLimitPerSecond, the limiter's bucket
    MaxRetries, BaseDelay, MaxDelay   \* of the retry policy, in ticks

VARIABLES
    stage,           \* where a call has got to
    attempt,         \* how often it has been sent again
    delay,           \* the ticks left until it is sent again
    nonce,           \* the nonce of its order, or the first one of its batch
    answer,          \* what the caller has been told
    inLine,          \* the limiter's chain of waiting calls
    tokens,          \* what is left in the bucket
    nextNonce,
    requests,        \* what is on its way to the venue
    placed           \* the orders the venue has taken

callVars == <<stage, attempt, delay, nonce, answer, inLine, tokens, nextNonce, requests, placed>>

Called == OrderCalls \cup BatchCalls
CallStages == {"none", "queued", "sent", "waiting", "answered"}
Told == {"none", "accepted", "refused", "failed"}

CallsTypeOK ==
    /\ stage \in [Called -> CallStages] /\ attempt \in [Called -> 0 .. MaxRetries]
    /\ delay \in [Called -> 0 .. MaxDelay] /\ answer \in [Called -> Told]
    /\ inLine \in Seq(Called) /\ tokens \in 0 .. Capacity

CallsInit ==
    /\ stage = [c \in Called |-> "none"] /\ attempt = [c \in Called |-> 0]
    /\ delay = [c \in Called |-> 0] /\ nonce = [c \in Called |-> 0]
    /\ answer = [c \in Called |-> "none"]
    /\ inLine = <<>> /\ tokens = Capacity
    /\ nextNonce = 1
    /\ requests = {} /\ placed = {}

-----------------------------------------------------------------------------
(* The client *)

\* Mutant of allocateNonce: the counter stands still.
allocateSameNonce == UNCHANGED nextNonce

allocateNonce == nextNonce' = nextNonce + 1

\* A request is made and stands in line; its nonce is its own, whether the client adds it or
\* the caller has reserved it.
Call(c) ==
    /\ stage[c] = "none"
    /\ stage' = [stage EXCEPT ![c] = "queued"]
    /\ nonce' = [nonce EXCEPT ![c] = nextNonce] /\ allocateNonce
    /\ inLine' = Append(inLine, c)
    /\ UNCHANGED <<attempt, delay, answer, tokens, requests, placed>>

\* Mutant of Request: every attempt has a nonce of its own.
RequestAnew(c, n) == [call |-> c, attempt |-> n, nonce |-> nonce[c] + 100 * n]

\* All attempts send the same body.
Request(c, n) == [call |-> c, attempt |-> n, nonce |-> nonce[c]]

\* acquire: the first in line takes a token; later attempts take none.
acquire ==
    /\ inLine # <<>> /\ tokens > 0
    /\ tokens' = tokens - 1
    /\ inLine' = Tail(inLine)
    /\ stage' = [stage EXCEPT ![Head(inLine)] = "sent"]
    /\ requests' = requests \cup {Request(Head(inLine), 0)}
    /\ UNCHANGED <<attempt, delay, nonce, answer, nextNonce, placed>>

Tell(c, told) ==
    /\ stage' = [stage EXCEPT ![c] = "answered"]
    /\ answer' = [answer EXCEPT ![c] = told]
    /\ UNCHANGED delay

Bounded(bound, n) == IF n < bound THEN n ELSE bound

\* RetryPolicy.execute: the last attempt's error is the caller's.
Retry(c) ==
    IF attempt[c] >= MaxRetries THEN Tell(c, "failed")
    ELSE /\ stage' = [stage EXCEPT ![c] = "waiting"]
         /\ delay' = [delay EXCEPT ![c] = Bounded(MaxDelay, BaseDelay * 2 ^ attempt[c])]
         /\ UNCHANGED answer

SendAgain(c) ==
    /\ stage[c] = "waiting" /\ delay[c] = 0
    /\ stage' = [stage EXCEPT ![c] = "sent"]
    /\ attempt' = [attempt EXCEPT ![c] = @ + 1]
    /\ requests' = requests \cup {Request(c, attempt[c] + 1)}
    /\ UNCHANGED <<delay, nonce, answer, inLine, tokens, nextNonce, placed>>

\* The venue has the order already: that is a success to createOrder (isDuplicateOrderError),
\* while a batch reports what it could not place.
duplicateMeans(c) == IF c \in OrderCalls THEN "accepted" ELSE "refused"

\* requestJson: a timeout, a connection that breaks, an overloaded venue and an answer that
\* cannot be read are tried again; a refusal is final.
Heard(c, verdict) ==
    CASE verdict = "taken" -> Tell(c, "accepted")
      [] verdict = "duplicate" -> Tell(c, duplicateMeans(c))
      [] verdict = "refused" -> Tell(c, "refused")
      [] OTHER -> Retry(c)

Awaited(request) == stage[request.call] = "sent" /\ attempt[request.call] = request.attempt

-----------------------------------------------------------------------------
(* The venue *)

Seen(request) == \E order \in placed : order.nonce = request.nonce

\* What the venue may do with a request: an error may come before or after it is placed.
MayAnswer(request) ==
    {"busy"} \cup IF Seen(request) THEN {"duplicate"} ELSE {"taken", "refused", "garbled"}

\* The venue reads a request, awaited or not, and its answer is heard if it is awaited.
Reads(request, verdict) ==
    /\ request \in requests /\ verdict \in MayAnswer(request)
    /\ requests' = requests \ {request}
    /\ placed' = IF verdict \in {"taken", "garbled"} THEN placed \cup {request} ELSE placed
    /\ IF Awaited(request) THEN Heard(request.call, verdict) ELSE UNCHANGED <<stage, delay, answer>>
    /\ UNCHANGED <<attempt, nonce, inLine, tokens, nextNonce>>

\* The request is given up after its timeout; whether the venue ever reads it is open, and so
\* is whether it has.
TimesOut(c) ==
    /\ stage[c] = "sent"
    /\ Retry(c)
    /\ UNCHANGED <<attempt, nonce, inLine, tokens, nextNonce, requests, placed>>

\* The venue takes the order and its answer is lost.
AnswerLost(request) ==
    /\ request \in requests /\ ~Seen(request)
    /\ requests' = requests \ {request}
    /\ placed' = placed \cup {request}
    /\ UNCHANGED <<stage, attempt, delay, nonce, answer, inLine, tokens, nextNonce>>

CallTick ==
    /\ tokens < Capacity \/ \E c \in Called : delay[c] > 0
    /\ delay' = [c \in Called |-> IF delay[c] > 0 THEN delay[c] - 1 ELSE 0]
    /\ tokens' = Bounded(Capacity, tokens + 1)
    /\ UNCHANGED <<stage, attempt, nonce, answer, inLine, nextNonce, requests, placed>>

CallsNext ==
    \/ acquire \/ CallTick
    \/ \E c \in Called : Call(c) \/ SendAgain(c) \/ TimesOut(c)
    \/ \E request \in requests :
         \/ AnswerLost(request)
         \/ \E verdict \in {"taken", "duplicate", "refused", "garbled", "busy"} :
              Reads(request, verdict)

CallsSpec == CallsInit /\ [][CallsNext]_callVars

-----------------------------------------------------------------------------
(* Properties *)

\* However often a call is sent again, however late what was given up arrives, it places its
\* order once.
OneOrderPerCall == \A p, q \in placed : p.call = q.call => p = q

\* A caller is told that its order was accepted only if the venue has taken its order, not
\* that of another call.
AcceptedMeansPlaced ==
    \A c \in Called : answer[c] = "accepted" => \E order \in placed : order.call = c
=============================================================================

----------------------------- MODULE MarketLocks -----------------------------
(***************************************************************************)
(* What admission promises about markets, with no mention of how: every    *)
(* market has at most one holder, an execution takes all of its markets in *)
(* one step or none of them, and gives all of them back in one step.       *)
(***************************************************************************)
CONSTANTS
    Opps,            \* the opportunities that compete for markets
    Markets,
    MarketsOf        \* the markets each opportunity trades

VARIABLE holders     \* the executions that hold each market

Init == holders = [m \in Markets |-> {}]

Acquire(o) ==
    /\ \A m \in MarketsOf[o] : holders[m] = {}
    /\ holders' = [m \in Markets |-> IF m \in MarketsOf[o] THEN {o} ELSE holders[m]]

Release(o) ==
    /\ \A m \in MarketsOf[o] : holders[m] = {o}
    /\ holders' = [m \in Markets |-> IF m \in MarketsOf[o] THEN {} ELSE holders[m]]

Next == \E o \in Opps : Acquire(o) \/ Release(o)

Spec == Init /\ [][Next]_holders
=============================================================================

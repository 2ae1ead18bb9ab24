----------------------------- MODULE PairOutcome -----------------------------
(***************************************************************************)
(* What a paired execution promises: while it works, the venue may fill    *)
(* its legs; in the end it either traded, with both legs filled in full if *)
(* it watched them, or it reports a failure, having sold back part of at   *)
(* most one leg.                                                           *)
(* The venue may fill an order even after that.                            *)
(***************************************************************************)
EXTENDS Naturals

CONSTANTS Legs, Size

VARIABLES
    watched,         \* whether fills are watched, or assumed on acknowledgement
    bought,          \* what the venue filled of each leg
    sold,            \* what was sold back of each leg
    verdict          \* "working", "traded" or "reported"

vars == <<watched, bought, sold, verdict>>

Init ==
    /\ watched \in BOOLEAN
    /\ bought = [l \in Legs |-> 0]
    /\ sold = [l \in Legs |-> 0]
    /\ verdict = "working"

VenueFills(l) ==
    /\ \E n \in (bought[l] + 1) .. Size : bought' = [bought EXCEPT ![l] = n]
    /\ UNCHANGED <<watched, sold, verdict>>

Trade ==
    /\ verdict = "working"
    /\ watched => \A l \in Legs : bought[l] = Size
    /\ verdict' = "traded"
    /\ UNCHANGED <<watched, bought, sold>>

Report ==
    /\ verdict = "working"
    /\ verdict' = "reported"
    /\ \/ UNCHANGED sold
       \/ \E l \in Legs : \E n \in 1 .. bought[l] : sold' = [sold EXCEPT ![l] = n]
    /\ UNCHANGED <<watched, bought>>

Next == Trade \/ Report \/ \E l \in Legs : VenueFills(l)

Spec == Init /\ [][Next]_vars
=============================================================================

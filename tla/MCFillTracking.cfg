\* Two orders in sequence, a trade for each half.
CONSTANTS
    t1 = t1
    t2 = t2
    Trades = {t1, t2}
    LastOrder = 2
    Size = 2
SPECIFICATION Spec
INVARIANTS NeverAheadOfVenue NoLostWakeup BookedOnceWhileRunning ExcessIsReported
SYMMETRY Symmetry
CHECK_DEADLOCK FALSE

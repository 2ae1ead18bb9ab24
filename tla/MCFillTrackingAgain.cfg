\* One order; the venue sends its trades again after the execution has ended.
CONSTANTS
    t1 = t1
    t2 = t2
    Trades = {t1, t2}
    LastOrder = 1
    Size = 2
SPECIFICATION Spec
INVARIANT EachTradeBookedOnce
SYMMETRY Symmetry
CHECK_DEADLOCK FALSE

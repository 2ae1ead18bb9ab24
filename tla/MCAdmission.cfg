\* Overlapping opportunities under both limits, with the circuit settings changed
\* while the system runs.
CONSTANTS
    a = a  b = b  c = c
    x = x  y = y  w = w
    Opps = {x, y, w}
    Markets = {a, b, c}
    MarketsOf <- SharedMarketsOf
    Costs = {0, 2}
    MaxConcurrent = 2
    MaxCapital = 2
    Configs <- TwoConfigs
    MaxTime = 1
    MaxFailures = 2
SPECIFICATION Spec
INVARIANTS ReservationsMatchRunning NoRunWhileCircuitOpen TrippedCircuitRemembers
PROPERTY ImplementsLocks

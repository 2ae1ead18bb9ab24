\* Two executions, with and without awaited fills.
CONSTANTS
    x1 = x1
    x2 = x2
    Ids = {x1, x2}
    MaxTime = 2
SPECIFICATION Spec
INVARIANTS ActiveMatchesLog CrashLosesNothing
SYMMETRY Symmetry
CHECK_DEADLOCK FALSE

\* The same executions: can one that has finished come back?
CONSTANTS
    x1 = x1
    x2 = x2
    Ids = {x1, x2}
    MaxTime = 2
SPECIFICATION Spec
INVARIANT FinishedStaysFinished
SYMMETRY Symmetry
CHECK_DEADLOCK FALSE

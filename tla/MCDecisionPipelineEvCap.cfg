CONSTANTS
    One = 20
    Calibrated <- Uncalibrated
    Jobs = {j1, j2}
    Markets = {m}
    Policies <- EvOnlyPolicies
    Risk <- MCRisk
    Fee = 0
    Snapshots <- MCSnapshots
    Insights <- MCInsights
    Projections = {}
    Recommended = {1, 3}
    TotalCapital = 200
    MaxChanges = 4
    MaxTime = 2

SYMMETRY Symmetry
INVARIANT EvMarketCapHeld
SPECIFICATION Spec
CHECK_DEADLOCK FALSE

CONSTANTS
    One = 20
    Calibrated <- Uncalibrated
    Jobs = {j1, j2}
    Markets = {m1, m2}
    Policies <- MCPolicies
    Risk <- MCRisk
    Fee = 0
    Snapshots <- MCSnapshots
    Insights <- MCInsights
    Projections <- MCProjections
    Recommended = {1, 3}
    TotalCapital = 200
    MaxChanges = 2
    MaxTime = 2

SYMMETRY Symmetry
INVARIANTS EvSpaced VelocityHeld
PROPERTY NoPairStartsTooDear
SPECIFICATION WarmSpec
CHECK_DEADLOCK FALSE

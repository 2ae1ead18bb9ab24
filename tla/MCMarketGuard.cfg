\* Quarantines against circuits, with refreshes and resumes at any time.
CONSTANTS
    a = a  b = b
    x = x  z = z
    Opps = {x, z}
    Markets = {a, b}
    MarketsOf <- GuardMarketsOf
    Costs = {1, 2}
    MaxConcurrent = 0
    MaxCapital = 2
    Configs <- OneConfig
    MaxTime = 3
    MaxFailures = 2
    AutoResume = TRUE
    Catalogs = {{a}, {a, b}}
SPECIFICATION GuardSpec
PROPERTY ExpiryFindsCircuitShut

\* What the catalog's documentation says of execution.
CONSTANTS
    a = a  b = b
    x = x  z = z
    Opps = {x, z}
    Markets = {a, b}
    MarketsOf <- GuardMarketsOf
    Costs = {1}
    MaxConcurrent = 0
    MaxCapital = 0
    Configs <- OneConfig
    MaxTime = 2
    MaxFailures = 2
    AutoResume = TRUE
    Catalogs = {}
SPECIFICATION GuardSpec
PROPERTY StartsOnlyOnAllowedMarkets

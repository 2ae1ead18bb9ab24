CONSTANTS
    One = 1000
    CohortMinMarkets = 2
    CohortMinDensity = 25
    FwMarkets = {1, 2, 3}
    Text <- MCText
    Opening <- MCOpening
    Quotes <- MCQuotes
    FwPolicies <- MCFwPolicies
    Catalog <- MCCatalog
    Calls <- MCCalls
    MinInterval = 2
    CircuitThreshold = 2
    CircuitCooldown = 2
    LlmCooldown = 2
    MaxScanAge = 1
    MaxUpdates = 2

    Listed = {marketA, marketB}
    Seeded = {marketA}
    MaxPairs = 2
    ExplorationMax = 1
    PageSize = 1
    MaxPages = 1
    ExplorationPages = 2
    Tests = {test1}
    MaxCommands = 2
    MaxListings = 1
    MaxOutages = 1

    Restored = {restored1}
    Orphans = {orphan1}
    NewOrders = {new1}
    MaxFailures = 1

    SignalMarkets = {marketA, marketB}
    MarketLists = {{marketB}}
    NearResolution = {}
    OfficialRelease = {marketA}
    SignalPolicies <- MCSignalPolicies
    HeartbeatStates <- MCHeartbeats
    Refresh = 1
    InsightTtl = 2
    MaxRoundAge = 1
    MaxChanges = 1

    LearnMarkets = {1, 2}
    BusEvents <- MCBusEvents
    Retention = 1
    MaxTracked = 1
    SnapshotInterval = 1
    PruneInterval = 1
    MinEvents = 2
    MaxBusEvents = 3
    MaxLearnTime = 3
    MaxSyntheses = 1

    OrderCalls = {order1}
    BatchCalls = {batch1}
    Capacity = 1
    MaxRetries = 2
    BaseDelay = 1
    MaxDelay = 1
    marketA = marketA
    marketB = marketB
    test1 = test1
    restored1 = restored1
    orphan1 = orphan1
    new1 = new1
    order1 = order1
    batch1 = batch1

SPECIFICATION ServicesSpec
INVARIANTS
    NeverCrowdedOut NoWeakLegAnnounced TradingAsDecided CatalogAgrees OwnOrdersSpared
    NothingLeftOpen NothingCountedTwice OneOrderPerCall AcceptedMeansPlaced
PROPERTIES UpdatesGetScanned Unblocks RoundsReachDueMarkets
CHECK_DEADLOCK FALSE

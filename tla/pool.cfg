CONSTANTS
    c1 = c1
    c2 = c2
    Ids <- ThreeIds
    DbFaults <- AllFaults
    SqsFaults <- NoFaults
    UseMockFallback = TRUE
    SqsConfigured = TRUE
    MaxWorkers = 2
    Clients <- NoClients
    Readers <- NoClients
    MaxCrashes = 1
    MaxStops = 0
SPECIFICATION FairSpec
INVARIANT Bulkhead
INVARIANT PoolIsNeverStuck
PROPERTY EveryListedRowIsProcessed
PROPERTY OldIsAnnounced
CHECK_DEADLOCK FALSE

CONSTANTS
    c1 = c1
    c2 = c2
    Ids <- OneId
    DbFaults <- AllFaults
    SqsFaults <- AllFaults
    UseMockFallback = FALSE
    SqsConfigured = TRUE
    MaxWorkers = 1
    Clients <- TwoClients
    Readers <- OneReader
    MaxCrashes = 1
    MaxStops = 1
SPECIFICATION RetrySpec
INVARIANT SummaryMissesNothing
PROPERTY RetryAnnounces

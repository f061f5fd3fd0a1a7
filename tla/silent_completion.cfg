CONSTANTS
    c1 = c1
    c2 = c2
    Ids <- TwoIds
    DbFaults <- NoFaults
    SqsFaults <- NoFaults
    UseMockFallback = FALSE
    SqsConfigured = TRUE
    MaxWorkers = 1
    Clients <- NoClients
    Readers <- NoClients
    MaxCrashes = 0
    MaxStops = 0
SPECIFICATION FairSpec
PROPERTY OldIsAnnounced
CHECK_DEADLOCK FALSE

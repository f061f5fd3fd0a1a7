CONSTANTS
    c1 = c1
    c2 = c2
    Ids <- TwoIds
    DbFaults <- AllFaults
    SqsFaults <- AllFaults
    UseMockFallback = TRUE
    SqsConfigured = TRUE
    MaxWorkers = 1
    Clients <- OneClient
    Readers <- NoClients
    MaxCrashes = 1
    MaxStops = 1
SPECIFICATION FairSpec
INVARIANT NothingIsCutOff
PROPERTY ShutdownEnds
PROPERTY SilenceHasACause

CONSTANTS
    c1 = c1
    c2 = c2
    Ids <- TwoIds
    DbFaults <- AllFaults
    SqsFaults <- AllFaults
    UseMockFallback = FALSE
    SqsConfigured = TRUE
    MaxWorkers = 1
    Clients <- OneClient
    Readers <- NoClients
    MaxCrashes = 1
    MaxStops = 0
    Vehicles <- OneVehicle
    Of <- SameVehicle
SPECIFICATION FairSpec
INVARIANT TypeOK
INVARIANT CompletedAtMatchesStatus
INVARIANT NoContentMeansDone
INVARIANT Bulkhead
PROPERTY ImplementsLedger
PROPERTY ImplementsActiveRows
PROPERTY SettledRowsStaySettled
PROPERTY SilenceHasACause
PROPERTY EventuallyDone

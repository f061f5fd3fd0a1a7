CONSTANTS
    c1 = c1
    c2 = c2
    Ids <- TwoIds
    DbFaults <- NoFaults
    SqsFaults <- NoFaults
    UseMockFallback = TRUE
    SqsConfigured = TRUE
    MaxWorkers = 1
    Clients <- OneClient
    Readers <- NoClients
    MaxCrashes = 0
    MaxStops = 0
SPECIFICATION Spec
PROPERTY TerminalStaysTerminal

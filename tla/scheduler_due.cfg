CONSTANTS
    Schedulers <- Cron
    Vehicles <- OneVehicle
    Fleet <- Boundaries
    KmThresholds <- DefaultThresholds
    DaysThreshold = 90
    CreateFaults <- AllFaults
    EventFaults <- NoFaults
    ListMayFail = TRUE
    MayReopen = TRUE
    MaxRows = 2
    MaxCrashes = 1
    MaxTroubles = 0
    PlatesRepeat = FALSE
SPECIFICATION FairSpec
PROPERTY DueVehiclesAreTakenUp
PROPERTY DueVehiclesAreBooked

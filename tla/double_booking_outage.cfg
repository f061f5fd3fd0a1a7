CONSTANTS
    Schedulers <- Cron
    Vehicles <- OneVehicle
    Fleet <- TwoStates
    KmThresholds <- DefaultThresholds
    DaysThreshold = 90
    CreateFaults <- NoFaults
    EventFaults <- NoFaults
    ListMayFail = TRUE
    MayReopen = FALSE
    MaxRows = 2
    MaxCrashes = 0
    MaxTroubles = 0
    PlatesRepeat = FALSE
SPECIFICATION Spec
INVARIANT NoDoubleBooking

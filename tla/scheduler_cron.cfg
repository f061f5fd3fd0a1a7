CONSTANTS
    Schedulers <- CronAndSimulation
    Vehicles <- OneVehicle
    Fleet <- TwoStates
    KmThresholds <- DefaultThresholds
    DaysThreshold = 90
    CreateFaults <- AllFaults
    EventFaults <- AllFaults
    ListMayFail = TRUE
    MayReopen = TRUE
    MaxRows = 3
    MaxCrashes = 1
    MaxTroubles = 2
    PlatesRepeat = TRUE
SPECIFICATION Spec
INVARIANT TypeOK
INVARIANT BookingsAreAccountedFor
INVARIANT EventsAreForBookings

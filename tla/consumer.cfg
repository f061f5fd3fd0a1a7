CONSTANTS
    m1 = m1
    m2 = m2
    i1 = i1
    i2 = i2
    Messages <- TwoMessages
    Incidents <- TwoIncidents
    BatchSize = 2
    Faults <- AllFaults
    MaxRows = 2
    MaxCrashes = 1
SPECIFICATION FairSpec
INVARIANT TypeOK
INVARIANT AcknowledgedIsStored
INVARIANT OneRowPerMessage
PROPERTY ImplementsIntake
PROPERTY EveryIncidentIsHandled
CHECK_DEADLOCK FALSE

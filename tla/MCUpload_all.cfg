SPECIFICATION FairSpec
CONSTANTS
    anAlarm = anAlarm
    anEvent = anEvent
    aStatus = aStatus
    aMeasurement = aMeasurement
    NDev = 5
    Id = {anAlarm, anEvent, aStatus, aMeasurement}
    None = None
    Points <- Types
    Ends <- Ranges
    Value = {0, 1}
    MaxTroubles = 1
INVARIANTS TypeOK PlatformTrue ForwardTrue
PROPERTY Recovers
CHECK_DEADLOCK FALSE

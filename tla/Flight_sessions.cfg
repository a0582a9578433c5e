SPECIFICATION FlightSpec
CONSTANTS
    Events <- MCEvents
    Commands = {"start", "stop", "reset"}
    MaxChanges = 0
    MaxTime = 3
    Word = 4
    Order <- MCOrder
    Window = 5
    MaxSampleTime = 8
    NumLcls = 2
    DelayBefore = 2
    DelayAfter = 1
    RecoveryPeriod = 5
    MaxResetCount = 2
    Masks = {{2}}
    Broken = {1}
    TripTime = 4
    LiftoffEnds = TRUE
    MaxLogs = 2
    MaxRecords = 3
    RequestLimit = 1
    SyncInterval = 1
INVARIANTS ClockIsStopwatch LclsRight
PROPERTIES SignalsTrue LclsFollowed LogsRight
CHECK_DEADLOCK FALSE

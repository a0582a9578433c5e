SPECIFICATION Spec
CONSTANTS
    Order <- MCOrder
    Window = 10
    MaxSampleTime = 8
    NumLcls = 1
    DelayBefore = 2
    DelayAfter = 1
    RecoveryPeriod = 5
    MaxResetCount = 2
    Masks = {}
    Broken = {}
    TripTime = 4
    LiftoffEnds = FALSE
INVARIANTS BootFollowed

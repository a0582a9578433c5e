SPECIFICATION GroundSpec
CONSTANTS
    Reports <- MCReports
    Period <- MCPeriod
    MaxLclChanges = 2
    MaxAsked = 2
    LogTasks = {t1, t2}
    Loggers = {"obc", "imu"}
    NoLogTask = nobody
    MaxPayload = 32
    MaxReadLength = 8192
    FrameData <- MCFrameData
INVARIANTS MessagesRight
PROPERTIES ReportsInTime GroundFollows
CHECK_DEADLOCK FALSE

SPECIFICATION ModulesSpec
CONSTANTS
    Pages = {p1}
    Contents = {a}
    MaxRetries = 2
    NumBlocks = 2
    BlockContents = {a}
    MaxSdRetries = 2
    MaxTries <- MCTries
    MaxRestarts = 2
    ImuConfigs <- MCImu
    MagFields <- MCMag
    Channels = 2
    MagTries = 2
    AdcTries = 2
    MaxSpiFaults = 2
    MaxScans = 2
    MinSamples = 2
    AllSides = {up, down}
    NoSide = none
    Racing = FALSE
    NumScintillators = 2
    HistogramSize = 3
    FragmentSize = 2
    Measurements <- MCMeasurements
    MaxPackets = 3
    SentenceLength = 5
    MaxSentenceLength = 4
    MaxSentences = 3
    NumBytes = 4
    MaxPayload = 1
    Uarts = {u1}
    CommandKinds <- MCKinds
    ChunkFrames = 2
    MaxFrames = 3
    QueueSize = 1
    HeapSize = 2
    ErrorCodes = {1, 3, 32}
    ErrorTasks = {e1, e2}
    NoErrorTask = none
    NudgingTasks = {n1}
    MinNudges = 2
    MaxNudges = 2
    NudgeLimit = 3
    WatchedQueues = {q1, q2}
    NoQueue = none
    MaxQueues = 2
    WatchdogSeconds = 3
    MaxLag = 1
    CrashTasks = {"cmd", "flashmem"}
INVARIANTS MemoriesRight  StreamsParsed
PROPERTIES  CommandsRight ErrorsRight SupervisionRight ModulesMoveOn
CHECK_DEADLOCK FALSE

SPECIFICATION FairSpec
CONSTANTS
    BootMode = "NORMAL"
    Producers = {p1}
    MaxRemounts = 2
    QueueCap = 2
    MaxDropped = 1
    Commands = {"UNMOUNT", "SIMULATE_ERROR"}
    Careful = FALSE
    Faults = {"setup", "mount", "unmount", "open", "write"}
INVARIANTS TypeOK MountedFlagAgrees RecorderHasFilesystem NoLostWakeup
PROPERTIES MountsUnmounted ErroredNotMounted RemountingEnds

SPECIFICATION FairSpec
CONSTANTS
    BootMode = "FORMAT_IF_NEEDED"
    Producers = {p1}
    MaxRemounts = 2
    QueueCap = 2
    MaxDropped = 1
    Commands = {"MOUNT", "UNMOUNT", "ERASE"}
    Careful = TRUE
    Faults = {"mount", "format"}
PROPERTIES FormatsUnmounted StopUnmounts MountedIsRecorded 

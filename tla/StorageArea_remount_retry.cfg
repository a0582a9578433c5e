SPECIFICATION Spec
CONSTANTS
    BootMode = "NORMAL"
    Producers = {p1}
    MaxRemounts = 2
    QueueCap = 2
    MaxDropped = 1
    Commands = {"UNMOUNT"}
    Careful = FALSE
    Faults = {"write", "mount"}
PROPERTIES RemountTriesDevice

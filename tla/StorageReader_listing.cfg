SPECIFICATION Spec
CONSTANTS
    Storage = Storage
    Cmd = Cmd
    Telem = Telem
    NoTask = NoTask
    NoMessage = NoMessage
    Tasks <- AllTasks
    Requests <- TwoRequests
    Inputs <- SomeInputs
    QueueLimit = 1
    MaxMishaps = 0
    FragmentLength = 2
    Entries = 1
    IndexWord = 4
INVARIANTS OneOperation
CHECK_DEADLOCK FALSE

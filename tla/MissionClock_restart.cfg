SPECIFICATION Spec
CONSTANTS
    Events <- MCEvents
    Commands = {}
    MaxChanges = 3
    MaxTime = 2
    Word = 4
INVARIANTS RestartRunsAll
CHECK_DEADLOCK FALSE

SPECIFICATION FairSpec
CONSTANTS
    Events <- MCEvents
    Commands = {"start", "stop", "reset"}
    MaxChanges = 2
    MaxTime = 1
    Word = 2
INVARIANTS TypeOK NothingForgotten
PROPERTIES EventsInOrder EventsHappen

SPECIFICATION FairSpec
CONSTANTS
    Exec = {e1, e2, e3}
    First = e1
    None = None
    Searches = 1
    LastStep = 3
    Limit = 2
    MaxFaults = 2
    MaxRestarts = 2
CHECK_DEADLOCK FALSE
INVARIANTS SlotsBalanced OneWorker DoneIsWhole
PROPERTIES NoStepAfterTakeover NothingLost JobEnds

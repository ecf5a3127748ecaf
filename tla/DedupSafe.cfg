SPECIFICATION FairSpec
CONSTANTS
    Request = {r1, r2}
    Absent = Absent
    Free = Free
    Limit = 2
    MaxFaults = 1
CHECK_DEADLOCK FALSE
INVARIANTS OneWorker SlotsBalanced
PROPERTIES AcceptedEnds

SPECIFICATION Spec
CONSTANTS
    Request = {r1, r2}
    Absent = Absent
    Free = Free
    Limit = 1
    MaxFaults = 0
CHECK_DEADLOCK FALSE
INVARIANTS DuplicateWasAccepted

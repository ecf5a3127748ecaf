SPECIFICATION FairSpec
CONSTANTS
    c1 = c1
    c2 = c2
    c3 = c3
    c4 = c4
    u1 = u1
    u2 = u2
    Call = {c1, c2, c3, c4}
    Paid = {c1, c2, c3}
    Strict = {c2, c3}
    UserOf <- MCUserOf
    Concurrency = 1
    QueueMax = 2
    Est = 1
    Limit = 2
    UserLimit = 1
    MaxFaults = 1
CHECK_DEADLOCK FALSE
INVARIANTS UnitsBalanced WaitingIsTrue WithinBudget NoPhantom
PROPERTIES Served

SPECIFICATION FairSpec
CONSTANTS
    Watcher = {w1, w2}
    First = w1
    Process = {p1, p2}
    Home = p1
    Survivor = p2
    MaxFaults = 1
    None = None
CHECK_DEADLOCK FALSE
INVARIANTS NoticeInv AtMostOneNotice
PROPERTIES ToldIsForgotten EndIsAnnounced

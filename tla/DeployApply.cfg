SPECIFICATION FairSpec
CONSTANTS
    Attempts = {a1, a2}
    None = None
    MaxFaults = 2
INVARIANTS OneHand ProductionIsRelease
PROPERTIES ChangesAreCovered EndsClean
CHECK_DEADLOCK FALSE

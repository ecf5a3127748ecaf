SPECIFICATION Spec
CONSTANTS
    Run = {r1, r2, r3}
    None = None
    MaxFaults = 1
SYMMETRY Symmetry
CHECK_DEADLOCK FALSE
INVARIANTS OneBiller PaidIsStored OwnGeneration
PROPERTIES NotPaidTwice ResultFenced

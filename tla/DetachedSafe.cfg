CONSTANTS
    r1 = r1
    r2 = r2
    r3 = r3
    r4 = r4
    k1 = k1
    k2 = k2
    k3 = k3
    NoJob = NoJob
    AutoRequest <- MCAuto
    Key <- MCKeys
    KeyOf <- MCKeyOf
    Request <- MCAll
    MaxBackground = 1
    MaxQueued = 1
    MaxShutdownCalls = 0
ACTION_CONSTRAINT TurnedAway
SPECIFICATION Spec
INVARIANTS
    RegistryInv
    OneLiveJobPerKey
    SkillsWithinLimit
    NothingLeaked
PROPERTY ExplicitFirst

CONSTANTS
    r1 = r1
    r2 = r2
    r3 = r3
    r4 = r4
    k1 = k1
    k2 = k2
    k3 = k3
    NoJob = NoJob
    AutoRequest <- MCAuto
    Key <- MCKeys
    KeyOf <- MCOwnKey
    Request <- MCPair
    MaxBackground = 1
    MaxQueued = 1
    MaxShutdownCalls = 2
SPECIFICATION FairSpec
INVARIANT AtMostOneOutcome
PROPERTIES
    PromiseKept
    QueueMoves

SPECIFICATION Spec
CONSTANTS
    Deliveries = {d1, d2}
    Reconcilers = {r1, r2}
    Janitors = {j1}
    None = None
    MaxVersion = 2
    MaxFaults = 1
INVARIANTS OneTask ResultReadable NothingLeft
PROPERTIES PromiseKept
SYMMETRY Symmetry
CHECK_DEADLOCK FALSE

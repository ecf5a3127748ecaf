SPECIFICATION Spec
CONSTANTS
    Rows = 4
    Calls = 3
    Grace = 3
CHECK_DEADLOCK FALSE
INVARIANT JanitorIsAuthoritative

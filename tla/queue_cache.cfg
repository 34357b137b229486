SPECIFICATION Spec
CONSTANTS
    Threads = {a, b}
    NoThread = none
    LockWaits = TRUE
    SIZE_MAX = 99
    MaxNodes = 4
INVARIANTS
    TypeOK
    ListComplete
PROPERTIES
    ListIsFifo
CHECK_DEADLOCK FALSE

SPECIFICATION Spec
CONSTANTS
    N = 3
    Room = 2
    HeadRoom = 1
    MaxResume = 1
    MaxRedirect = 1
    MaxBody = 2
    MaxUpdates = 2
INVARIANTS
    TypeOK
    DataInOrder
    InstalledWhole
    CloudTold
    MemorySafe
PROPERTIES
    UpdateEnds
CHECK_DEADLOCK FALSE

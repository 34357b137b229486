SPECIFICATION Spec
CONSTANTS
    Builds = {TRUE, FALSE}
    QUEUE_LENGTH = 2
    FrameLen = 2
    Capacity = 2
    MaxRecordings = 2
    MaxSamples = 6
    MaxConnects = 2
INVARIANTS
    TypeOK
    TopicsWhole
    NothingTwice
CHECK_DEADLOCK FALSE

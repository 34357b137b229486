SPECIFICATION Spec
CONSTANTS
    Behaviors = {"REPLACE_ALL", "ENQUEUE", "REPLACE_ENQUEUED", "CLEAR_ENQUEUED", "CLEAR_ALL", "STOP"}
    MaxItems = 2
    MaxCalls = 2
INVARIANTS
    TypeOK
    HandsLiveHead
    StateMatchesPlayer
    SpeechFirstAlone
    ListenEnds
CHECK_DEADLOCK FALSE
PROPERTIES
    LockReleased

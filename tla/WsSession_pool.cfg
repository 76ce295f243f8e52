SPECIFICATION FairSpec
CONSTANTS
    SessionNum = 2
    BufNum = 3
    MaxLogin = 3
CHECK_DEADLOCK FALSE
INVARIANTS
    TypeOK
    SlotOwned
    QueueSafe
    Fresh
PROPERTIES
    StopEnds

SPECIFICATION Spec
CONSTANTS
    SessionNum = 2
    BufNum = 3
    MaxLogin = 3
CHECK_DEADLOCK FALSE
INVARIANT
    HandleOpen

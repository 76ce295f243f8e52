SPECIFICATION FairSpec
CONSTANTS
    N = 3
    High = 2
    Middle = 1
    Gop = 2
    Modes = {FALSE, TRUE}
    Keys = {"pps"}
    Others = {"p"}
    MaxPkts = 2
    Teardowns = {"hangup", "lost"}
INVARIANTS
    TypeOK
    FirstIsKey
    EncoderSafe
PROPERTIES
    FramesInOrder
    HangUpEnds
CHECK_DEADLOCK FALSE

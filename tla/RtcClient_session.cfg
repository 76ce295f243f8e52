SPECIFICATION FairSpec
CONSTANTS
    HttpNum = 2
    MaxLost = 2
    MaxFrag = 1
INVARIANTS
    TypeOK
    GraceKept
PROPERTIES
    SignOutTold
    ImplementsLink
    LossNoticed
    Resynced

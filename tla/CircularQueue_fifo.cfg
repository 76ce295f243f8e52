SPECIFICATION FairSpec
CONSTANTS
    Data = {d1, d2, big}
    TooBig = {big}
    UnitNum = 3
    Syncs = {"mutex", "program", "weak"}
INVARIANTS
    TypeOK
    NoTornRead
    SlotsDisjoint
    NoLeak
PROPERTIES
    Refines
    Drained

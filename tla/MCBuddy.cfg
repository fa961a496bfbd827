SPECIFICATION FairSpec
CONSTANTS
    Ctx = {c1, c2}
    MAX_ORDER = 2
    Size <- MCSize
INVARIANTS TypeOK NoOverlap NoLeak FlagsExact Coalesced
PROPERTIES NoFalseOOM OwnedStable RefinesHeap LockReleased

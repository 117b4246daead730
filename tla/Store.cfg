SPECIFICATION Spec
CONSTANTS
    Writers = {"w1", "w2", "w3"}
    Processes = {"p1", "p2", "p3"}
    Schemes <- MCSchemes
    Inodes = {"i1", "i2", "i3", "i4"}
    MaxTries = 2
    MaxUpdates = 3
INVARIANTS
    ExclusionUnlessStolen
    FileStaysWhole
    UpdatesStay
    LockNotLeaked
    RefusedByLivingHolder
CHECK_DEADLOCK FALSE

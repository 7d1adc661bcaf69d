SPECIFICATION Spec
CONSTANTS
    Procs = {1, 2}
    BlockSize = 2
    Blocks = 3
    max_entries = 2
    Extents <- Ranges
    Values = {2}
INVARIANTS
    TypeOK
    NothingLost
    CleanIsOnDisk
    AssertsHold
PROPERTY
    LockReleased

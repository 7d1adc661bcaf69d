SPECIFICATION FairSpec
CONSTANTS
    p1 = p1
    p2 = p2
    p3 = p3
    Procs = {p1, p2, p3}
    nsems = 2
    OpLists <- AllOps
    SetValues = {5}
    Range16 = 3
    Flood = 3
    Removable = TRUE
    MaxId = 2
    MaxTokens = 1
INVARIANTS
    TypeOK
    AssertsHold
    HeldByWaiters
    NoLostWakeup
PROPERTIES
    PossibleSemopReturns
    RemovalWakesAll
CHECK_DEADLOCK FALSE

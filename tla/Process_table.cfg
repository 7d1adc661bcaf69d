SPECIFICATION Spec
CONSTANTS
    MaxPid = 3
    Selectors <- AllSelectors
    MaxStops = 1
    MaxSema = 2
    Pgids = {2}
INVARIANTS
    TypeOK
    KilledReportedOnce
    HeldWhileStopped
    NoLostWakeup
PROPERTIES
    DeadStaysDead
CHECK_DEADLOCK FALSE

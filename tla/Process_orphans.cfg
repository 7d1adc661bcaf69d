SPECIFICATION Spec
CONSTANTS
    MaxPid = 3
    Selectors <- SomeSelectors
    MaxStops = 0
    MaxSema = 2
    Pgids = {}
INVARIANTS
    OrphansReaped
CHECK_DEADLOCK FALSE

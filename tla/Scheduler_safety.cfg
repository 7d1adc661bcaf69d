SPECIFICATION FairSpec
CONSTANTS
    Task0 = t0
    Idle = idle
    a = a
    b = b
    Tasks = {t0, idle, a}
    Sems = {s}
    NoSem = none
    Slice = 1
    Deadlines = {0, 1}
    MaxUps = 2
    Controls = {"INTERRUPT", "STOPPED", "DEBUG_STOP"}
INVARIANTS TypeOK KnownWakeup TokensConserved OnlyCurrentRuns
PROPERTIES StoppedIsFrozen TimedWaitEnds IdleOnlyWhenNothingRuns ReadyRuns

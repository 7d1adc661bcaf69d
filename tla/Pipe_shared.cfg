SPECIFICATION FairSpec
CONSTANTS
    Readers = {r1, r2}
    Writers = {w1, w2}
    Size = 3
    ReadCounts <- SomeReads
    WriteCounts <- SomeWrites
    Junk = Junk
    MaxCalls = 4
INVARIANTS
    TypeOK
    Fifo
    NoLostWakeup
PROPERTIES
    ImplementsChannel
    
CHECK_DEADLOCK FALSE

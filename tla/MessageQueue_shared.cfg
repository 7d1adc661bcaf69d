SPECIFICATION FairSpec
CONSTANTS
    Senders = {s1, s2}
    Receivers = {r1}
    Types = {1, 2}
    Selectors <- AllSelectors
    Sizes = {1, 2}
    msg_qbytes = 2
    Flood = 4
    Removable = TRUE
    MaxSends = 2
    MaxId = 3
    MaxBelow = 2
INVARIANTS
    TypeOK
    InOrderPerType
    Accounted
    NoLostWakeup
PROPERTIES
    RoomWakesSender
    RemovalWakesAll
CHECK_DEADLOCK FALSE

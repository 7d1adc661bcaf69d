SPECIFICATION FairSpec
CONSTANTS
    Senders = {s1}
    Receivers = {r1, r2}
    Types = {1, 2}
    Selectors <- AllSelectors
    Sizes = {1}
    msg_qbytes = 2
    Flood = 4
    Removable = TRUE
    MaxSends = 2
    MaxId = 2
    MaxBelow = 2
PROPERTIES
    MatchWakesReceiver
CHECK_DEADLOCK FALSE

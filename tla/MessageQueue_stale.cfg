SPECIFICATION Spec
CONSTANTS
    Senders = {s1}
    Receivers = {r1}
    Types = {1, 2}
    Selectors = {0}
    Sizes = {1}
    msg_qbytes = 2
    Flood = 4
    Removable = TRUE
    MaxSends = 2
    MaxId = 2
    MaxBelow = 2
INVARIANTS
    NoStaleWaiter
CHECK_DEADLOCK FALSE

SPECIFICATION Spec
CONSTANTS
    Sent <- Some
    Targets = {16, 17}
    Masks <- SomeMasks
    Actions <- SomeActions
    MaxSends = 1
    MaxCalls = 0
INVARIANTS
    HandlesAll
CHECK_DEADLOCK FALSE

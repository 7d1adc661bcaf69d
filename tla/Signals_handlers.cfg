SPECIFICATION Spec
CONSTANTS
    Sent <- Some
    Targets = {16, 17}
    Masks <- SomeMasks
    Actions <- SomeActions
    MaxSends = 3
    MaxCalls = 3
INVARIANTS
    TypeOK
    HandlerRespectsMask
    OneHandlerOnAltStack
    MaskUnwinds
CHECK_DEADLOCK FALSE

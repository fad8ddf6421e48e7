CONSTANTS
    one = one
    two = two
    nothing = nothing
    NoMessage = nothing
    beat = beat
    expiry = expiry
    farewell = farewell
    Workers <- TwoWorkers
    NLetters = 2
    Messages <- TwoLetters
    Pri <- NormalAndEvent
    Beat = beat
    InitTimeout = expiry
    Bye = farewell
    MaxCrashes = 0

SPECIFICATION Spec

INVARIANT WrittenInOrder

CHECK_DEADLOCK FALSE

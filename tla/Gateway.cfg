CONSTANTS
    one = one
    two = two
    nothing = nothing
    NoMessage = nothing
    beat = beat
    expiry = expiry
    farewell = farewell
    Workers <- TwoWorkers
    NLetters = 2
    Messages <- TwoLetters
    Pri <- Rising
    Beat = beat
    InitTimeout = expiry
    Bye = farewell
    MaxCrashes = 1

SPECIFICATION FairSpec

INVARIANT TypeOK
INVARIANT PriorityOrder
INVARIANT OnePlace
INVARIANT NoStrandedHead
INVARIANT NoneSleepsAtJoin
PROPERTY LettersLeave

CHECK_DEADLOCK FALSE

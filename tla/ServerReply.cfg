CONSTANTS
    exec = exec
    child = child
    main = main
    nobody = nobody
    Exec = exec
    Helpers <- OneHelper
    Main = main
    Nobody = nobody
    NKinds = 2
    NCommands = 2
    Masks <- SecondState
SPECIFICATION FairSpec
CHECK_DEADLOCK FALSE
PROPERTY RepliesPrecedeStops

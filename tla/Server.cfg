CONSTANTS
    exec = exec
    child = child
    main = main
    nobody = nobody
    Exec = exec
    Helpers <- OneHelper
    Main = main
    Nobody = nobody
    NKinds = 2
    NCommands = 2
    Masks <- SecondState
SPECIFICATION FairSpec
INVARIANT TypeOK
INVARIANT SomebodyStands
PROPERTY HaltEnds
PROPERTY CommandsAnswered
CHECK_DEADLOCK FALSE

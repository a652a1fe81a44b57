SPECIFICATION NodeSpec
CONSTANTS
    p1 = p1
    nobody = nobody
    Peer = {p1}
    NoPeer = nobody
    MaxDatagrams = 2
    MaxErrors = 1
    MaxStarts = 2
    MaxCommands = 1
    MaxTrouble = 1
    Overlap = FALSE
    TickTime = 2
    RefreshTime = 2
    PingWait = 2
    RoundWait = 2
    BindTimeout = 1
INVARIANTS
    NodeTypeOK
    HandledInOrder
    TickInterval
    EndpointUpToDate
PROPERTIES
    StopIsFinal
    EveryDatagramHandled
    ChainsGoOn
    ConsoleStops
CHECK_DEADLOCK FALSE

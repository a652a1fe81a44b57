SPECIFICATION FairSpec
CONSTANTS
    root = root
    far1 = far1
    near = near
    Node = {root, far1}
    IdBits = 2
    K = 1
    Id <- MCId
    SelfId <- MCSelfId
    RootNode = root
    MINIMUM_NODES = 2
    FindCount = 2
    MaxSeq = 3
    PingTimer = 1
    PingExpire = 2
    RefreshWait = 2
    TickWait = 1
    FindExpire = 2
    MaxDelay = 1
    MaxQueue = 2
    Duplicates = TRUE
    Stall = TRUE
PROPERTIES
    DeadNodeRemoved
    RoundsGoOn
    PingSettles
CHECK_DEADLOCK FALSE

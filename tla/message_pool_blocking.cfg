SPECIFICATION FairSpec
CONSTANTS
    p1 = p1
    p2 = p2
    a1 = a1
    Peer = {p1, p2}
    Timeouts <- MCTimeouts
    Lifetime = 2
    Period = 1
    App = {a1}
    MaxMsg = 2
PROPERTY BlockedUntilArrival
CHECK_DEADLOCK FALSE

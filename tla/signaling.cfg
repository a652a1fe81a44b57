CONSTANTS
    s = s
    a = a
    b = b
    c = c
    d = d
    Node = {s, a, b, c, d}
    Unknown = Unknown
    Request = {r1}
    Sources = {s}
    Threads = {"io", "app"}
    Tables <- Topologies
    Meetings <- Late
    Unaware = {a}
    Fanout = 3
    TTL = 2
    MaxFaults = 1
SPECIFICATION FairSpec
CHECK_DEADLOCK FALSE
INVARIANT TypeOK
PROPERTIES ImplementsRendezvous RelayingEnds PayloadArrives

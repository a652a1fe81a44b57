CONSTANTS
    s = s
    a = a
    b = b
    c = c
    d = d
    Node = {s, a, b, c, d}
    Unknown = Unknown
    Request = {r1}
    Sources = {s}
    Threads = {"io", "app"}
    Tables <- NearOnly
    Meetings <- SourceMeetsDest
    Unaware = {}
    Fanout = 3
    TTL = 5
    MaxFaults = 0
SPECIFICATION Spec
CHECK_DEADLOCK FALSE
INVARIANT TtlBoundsRelays

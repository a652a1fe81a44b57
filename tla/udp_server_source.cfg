SPECIFICATION Spec
CONSTANTS
    p1 = p1
    p2 = p2
    nobody = nobody
    Peer = {p1, p2}
    NoPeer = nobody
    MaxDatagrams = 4
    MaxErrors = 2
INVARIANT SourceIsSender
CHECK_DEADLOCK FALSE

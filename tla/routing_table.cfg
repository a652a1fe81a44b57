SPECIFICATION ManagerSpec
CONSTANTS
    far1 = far1
    far2 = far2
    far3 = far3
    far4 = far4
    mid1 = mid1
    mid2 = mid2
    near = near
    self = self
    nobody = nobody
    NoNode = nobody
    MaxPicked = 1
    Node = {far1, far2, far3, far4, mid1, mid2, near, self}
    IdBits = 3
    K = 3
    Id <- MCId
    SelfId <- MCSelfId
SYMMETRY SameBucket
INVARIANTS
    TypeOK
    NoDuplicates
    WellPlaced
    NoNodeMissed
    SearchesSound
    SearchesComplete
PROPERTIES
    LeastRecentlySeenOrder
    OnlyTimeoutRemoves
CHECK_DEADLOCK FALSE

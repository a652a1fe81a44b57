SPECIFICATION FairSpec
CONSTANTS
    t1 = t1
    t2 = t2
    t3 = t3
    t4 = t4
    global1 = global1
    global2 = global2
    local = local
    Loopback = {local}
    Target = {t1, t2}
    Endpoint = {global1, local}
    Callers = {"asks"}
    Views <- MCViews
    Requests <- MCRequests
    MaxQueue = 2
PROPERTY SettledGetReturns
CHECK_DEADLOCK FALSE

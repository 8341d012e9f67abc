CONSTANTS
    s = s
    a = a
    b = b
    c = c
    d = d
    e = e
    u1 = u1
    u2 = u2
    m1 = m1
    Node <- MCNode
    Origin = s
    All = all
    NoReq = noreq
    Sends <- MCSends
    Broadcasts <- MCBroadcasts
    Dest <- MCDest
    Nets <- NoKey
    PEND_MAX = 1
    RETRIES = 1
    MAX_SUBMITS <- MCSubmits
    HOP_LIMIT = 2
    DUP_CACHE_SIZE = 6
    RX_DEPTH = 3
    ROUTE_HEALTH_MAX_FAIL = 1
SPECIFICATION Spec
CHECK_DEADLOCK FALSE
INVARIANT AckMeansDelivered

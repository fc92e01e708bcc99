CONSTANTS
    c1 = c1
    m1 = m1
    p1 = p1
    None = None
    Conns = {c1}
    Members = {m1}
    Pools = {p1}
    Events <- MCEvents
    Requests <- MCRequests
    GracePeriod = 1
    HeartbeatTimeout = 1
    MaxTime = 2
    MaxStarts = 2
    MaxBroadcasts = 1
    MaxDrops = 1
SPECIFICATION Spec
CHECK_DEADLOCK FALSE
INVARIANT ServerInv
INVARIANT WarnedOnce
 
PROPERTY ExpiredIsClosed
PROPERTY DeadIsForgotten

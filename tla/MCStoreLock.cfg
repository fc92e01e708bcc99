\* Three processes, any timing, up to two crashes.
CONSTANTS
    p1 = p1
    p2 = p2
    p3 = p3
    None = None
    Procs <- MCProcs
    MaxRetries = 3
    MaxCrashes = 2
SPECIFICATION FairSpec
INVARIANT LockInv
PROPERTIES AbstractSpec AcquireTerminates OrphanIsCleared

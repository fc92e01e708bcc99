\* Two processes that only insert.
CONSTANTS
    p1 = p1
    p2 = p2
    c1 = c1
    c2 = c2
    a = a
    b = b
    x = x
    None = None
    NoDoc = NoDoc
    NoId = NoId
    NoUpdate = NoUpdate
    NoMeta = NoMeta
    Procs <- TwoProcs
    Writers <- TwoProcs
    Colls <- OneColl
    Ids <- TwoIds
    Vals <- OneVal
    IndexNames <- Nothing
    Filters <- Nothing
    Updates <- Nothing
    Batches <- SingleBatches
    Droppable <- Nothing
    MaxOps = 2
    MaxCrashes = 0
    MaxFaults = 0
SPECIFICATION Spec
INVARIANT NoLostInserts
CHECK_DEADLOCK FALSE

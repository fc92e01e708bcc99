\* Two writers, a crash and an I/O error anywhere, partial inserts.
CONSTANTS
    p1 = p1
    p2 = p2
    c1 = c1
    c2 = c2
    a = a
    b = b
    x = x
    None = None
    NoDoc = NoDoc
    NoId = NoId
    NoUpdate = NoUpdate
    NoMeta = NoMeta
    Procs <- TwoProcs
    Writers <- TwoProcs
    Colls <- TwoColls
    Ids <- TwoIds
    Vals <- TwoVals
    IndexNames <- Nothing
    Filters <- AllDocs
    Updates <- SetAny
    Batches <- RepeatingBatches
    Droppable <- TwoColls
    MaxOps = 3
    MaxCrashes = 1
    MaxFaults = 1
SYMMETRY Alike
SPECIFICATION Spec
INVARIANT StoreInv
INVARIANT CacheCoherent
CHECK_DEADLOCK FALSE

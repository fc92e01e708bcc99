\* One writer, one reader, a crash anywhere.
CONSTANTS
    p1 = p1
    p2 = p2
    c1 = c1
    c2 = c2
    a = a
    b = b
    x = x
    None = None
    NoDoc = NoDoc
    NoId = NoId
    NoUpdate = NoUpdate
    NoMeta = NoMeta
    Procs <- TwoProcs
    Writers <- OneWriter
    Colls <- OneColl
    Ids <- TwoIds
    Vals <- TwoVals
    IndexNames <- OneIndex
    Filters <- MCFilters
    Updates <- SetVals
    Batches <- MCBatches
    Droppable <- OneColl
    MaxOps = 4
    MaxCrashes = 1
    MaxFaults = 0
SPECIFICATION Spec
INVARIANT ReaderSnapshot
PROPERTY CommitsAreSerial
CHECK_DEADLOCK FALSE

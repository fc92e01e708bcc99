SPECIFICATION ServicesSpec
CONSTANTS
    p1 = p1
    p2 = p2
    b1 = b1
    b2 = b2
    Callers = {c1, c2}
    Peers = {p1, p2}
    Blocks = {b1, b2}
    Wanted = {b1}
    Holdings <- MCHoldings
    Latency <- MCLatency
    Digest <- MCDigest
    MinSize = 10
    BitsPerItem = 8
    HashCount = 3
    DefaultHashCount = 2
    MaxConcurrentQueries = 1
    Nothing = Nothing
    None = None
    Fields = {"a", "b"}
    Values <- MCValues
    Updates <- MCUpdates
    Timestamp <- MCTimestamp
    MaxNumber = 2
    MaxLen = 2
    Bits = 3
    Primitive = 3
    PadTo = 8
    Secrets <- MCSecrets
    MaxNumShares = 3
    PrimePairs <- MCPrimePairs
    Candidates <- MCCandidates
    Messages = {0, 1, 4, 34}
    Drawn = {1, 2, 3}
    Factors = {0, 1, 3}
INVARIANTS
    NoFalseNegative
    QueriesAreLawful
    RetriedUpdateIsSafe
    SharingIsSafe
    PaillierIsSound
PROPERTY
    CacheCatchesUp
CHECK_DEADLOCK FALSE

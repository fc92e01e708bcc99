\* n1 reaches n3 through n2 only, or on its own too; nothing is lost.
CONSTANTS
    n1 = n1
    n2 = n2
    n3 = n3
    u1 = u1
    u2 = u2
    Nodes <- MCNodes
    Users <- MCUsers
    Names <- MCNames
    Nothing = Nothing
    Items <- EndToEnd
    Topologies <- LineOrDetour
    LocalUsers <- AtEnd
    Ttl <- OneHop
    Fanout <- Fanout2
    Unwraps <- MCNodes
    Overlaps = FALSE
    RegistryFails = FALSE
    MaxAnnounced = 2
    MaxStops = 1
    MaxDrops = 0
SPECIFICATION FairSpec
CHECK_DEADLOCK FALSE
INVARIANTS CopiesBounded LastUpdateWins
PROPERTY GossipStops

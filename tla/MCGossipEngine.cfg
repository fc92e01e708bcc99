\* Any two of all kinds between two nodes; a stop and a lost connection.
CONSTANTS
    n1 = n1
    n2 = n2
    n3 = n3
    u1 = u1
    u2 = u2
    Nodes <- TwoNodes
    Users <- MCUsers
    Names <- MCNames
    Nothing = Nothing
    Items <- AllKinds
    Topologies <- Meshed
    LocalUsers <- Apart
    Ttl <- OneHop
    Fanout <- Fanout1
    Unwraps <- TwoNodes
    Overlaps = TRUE
    RegistryFails = TRUE
    MaxAnnounced = 2
    MaxStops = 1
    MaxDrops = 1
SPECIFICATION Spec
CHECK_DEADLOCK FALSE
INVARIANT GossipInv

\* One peer that is connected, disconnected and lost; the timers served.
CONSTANTS
    a = a
    s1 = s1
    s2 = s2
    s3 = s3
    Peers <- OnePeer
    Chains <- ThreeChains
    Beats = 2
    MaxAttempt = 1
    MaxCalls = 3
    MaxStarts = 1
    MaxOutages = 1
SPECIFICATION FairSpec
INVARIANT PeerInv
PROPERTIES SilentIsDetected DialsGoOn
CHECK_DEADLOCK FALSE

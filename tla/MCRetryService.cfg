\* A message to nobody, to one or to two, capped backoff, the timer served, one
\* interruption.
CONSTANTS
    m1 = m1
    r1 = r1
    r2 = r2
    Recips <- MCRecips
    Multiplier = 2
    Msgs <- OneMsg
    RecipientSets <- MCRecipientSets
    InitialTimeout = 2
    MaxRetries = 3
    MaxBackoff = 5
    MaxStops = 1
    Horizon = 16
SPECIFICATION FairSpec
INVARIANTS RetryInv OnSchedule AckIsHeeded
PROPERTIES StatusMachine EventuallyResolved

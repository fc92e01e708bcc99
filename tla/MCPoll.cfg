CONSTANTS
    N = 3
    Base = 4
    Width = 3
    None = None
    SeatLimit = 2
    Agreement = 75
    Precincts <- MCPrecincts
    Jurisdictions <- MCJurisdictions
    Parent <- MCParent
    Electorate <- MCElectorate
    Offered <- MCOffered
    Reporting = {"Plurality"}
    MaxWeight <- MCMaxWeight
    Empty = Empty
    Void = Void
    MaxUnsigned = 1
    AllowInsecure = TRUE
SPECIFICATION Spec
INVARIANTS PollInv ResultIsFair NeverTwice
PROPERTY VoteIsFinal
CHECK_DEADLOCK FALSE

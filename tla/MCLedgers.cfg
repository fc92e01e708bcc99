CONSTANTS
    None = None
    Authority <- MCAuthority
    Bytes <- MCBytes
    Polls <- MCPolls
    VoterHashes <- MCVoterHashes
    Metadata <- MCMetadata
    Creators <- MCCreators
    Configurations <- MCConfigurations
    TallyHashes <- MCTallyHashes
    Ballots <- MCBallots
    TallyLists <- MCTallyLists
    ChoiceLists <- MCChoiceLists
    MaxCalls = 4
SPECIFICATION Spec
INVARIANTS RecordsVerify TamperEvident ExportReadsBack
CHECK_DEADLOCK FALSE

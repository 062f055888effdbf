SPECIFICATION FairSpec
CONSTANTS
    BlockLen = 2
    CardRca = 7
    SizeMod = 16
    BMax = 2
    OpCondPolls = 1
    StatusPolls = 1
    StatusRetries = 1
    ScrRetries = 1
    SwitchTries = 2
    CardKinds <- MCCardKinds
    Requests <- MCRequests
    MaxFaults = 2
    MaxInits = 2
    MaxReads = 2
INVARIANTS
    TypeOK
    InitMeansTransfer
    CommandsLegal
    ReadsExact
    ReadsInside
PROPERTIES
    InitReturns
    ReadReturns
CHECK_DEADLOCK FALSE

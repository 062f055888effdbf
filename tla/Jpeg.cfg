SPECIFICATION FairSpec
CONSTANTS
    Files <- AllFiles
    MaxBlocks = 90
CHECK_DEADLOCK FALSE
INVARIANTS
    TypeOK
    PrefixExact
    IdctClose
    PictureExact
PROPERTY Terminates

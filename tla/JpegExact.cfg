SPECIFICATION Spec
CONSTANTS
    Files <- AllFiles
    MaxBlocks = 90
CHECK_DEADLOCK FALSE
INVARIANT EveryBlockDecoded

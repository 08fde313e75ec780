CONSTANTS
    MaxBlocks = 4
    MaxFuncs = 2
    Refs <- MCRefs
SPECIFICATION Spec
INVARIANTS
    ReturnEnds
CHECK_DEADLOCK FALSE

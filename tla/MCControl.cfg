CONSTANTS
    MaxBlocks = 4
    MaxFuncs = 2
    Refs <- MCRefs
SPECIFICATION Spec
INVARIANTS
    TypeOK
    PendingAtMostOne
    IdleSlotsEmpty
    EndsOwned
    GuardsReturn
    GuardsExclusive
CHECK_DEADLOCK FALSE

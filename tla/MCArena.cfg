\* A reserve that is not a multiple of the commit step, so that the clamp bites.
CONSTANTS
    PageSize = 4
    HeaderSize = 2
    ProvidedReserve = 11
    ProvidedCommit = 8
    Sizes <- MCSizes
    Aligns <- MCAligns
    MaxMarks = 2
SPECIFICATION Spec
INVARIANTS
    TypeOK
    BlocksUsable
    BlocksDisjoint
    MarksRestore
    CommitOnPages
PROPERTIES
    CommitNeverShrinks
\* An exhausted arena ends the program.
CHECK_DEADLOCK FALSE

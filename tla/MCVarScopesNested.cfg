CONSTANTS
    PageSize = 4
    HeaderSize = 2
    ProvidedReserve = 60
    ProvidedCommit = 16
    Sizes <- MCSizes
    Aligns <- MCAligns
    MaxMarks = 3
    FlatSize = 2
    Room = 3
    TableAlign = 2
    TableSize <- MCTableSize
    MaxSyms = 5
SPECIFICATION Spec
INVARIANTS
    AllTablesDisjoint
CHECK_DEADLOCK FALSE

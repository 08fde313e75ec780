CONSTANTS
    PageSize = 4
    HeaderSize = 2
    ProvidedReserve = 60
    ProvidedCommit = 16
    Sizes <- MCSizes
    Aligns <- MCAligns
    MaxMarks = 4
    FlatSize = 2
    Room = 3
    TableAlign = 2
    TableSize <- MCTableSize
    MaxSyms = 5
SPECIFICATION Spec
INVARIANTS
    TypeOK
    TablesLive
    TablesDisjoint
CHECK_DEADLOCK FALSE

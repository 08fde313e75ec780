CONSTANTS
    MaxIndent = 10
    IndentSlots = 12
    BufferSlots = 16
    ScopeSlots = 32
    MaxParen = 2
    MaxComprs = 1
SPECIFICATION Spec
INVARIANTS
    TypeOK
    LevelsNested
    SlotsSuffice
    BlocksBalanced
    ScanUnbuffered
\* The file ends.
CHECK_DEADLOCK FALSE

CONSTANTS
    x = x
    y = y
    Names <- MCNames
    MaxScopes = 4
    MaxUpvals = 2
    MaxDecls = 2
SPECIFICATION Spec
INVARIANTS
    TypeOK
    UpvalsLexical
    ForwardsFound
    RefsOfParent
\* A failed assertion ends the program.
CHECK_DEADLOCK FALSE

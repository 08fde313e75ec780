CONSTANTS
    v1 = v1
    v2 = v2
    v3 = v3
    v4 = v4
    v5 = v5
    Names <- MCNames
    FlatSize = 3
    MaxDecls = 5
    Modules = {TRUE, FALSE}
    Redeclare = FALSE
SPECIFICATION Spec
INVARIANTS
    TypeOK
    NamesKept
    NewestFound
PROPERTIES
    ImplementsEnv
CHECK_DEADLOCK FALSE

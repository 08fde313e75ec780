CONSTANTS
    Limit = 32
    PartLimit = 28
    FieldLimit = 256
    WordLimit = 128
    Basics <- MCBasics
    Counts = {16, 128}
    ParamLists <- MCParamLists
    Returns = {1}
    Flags = {1}
    FieldCounts = {2}
    Blobs = {1}
SPECIFICATION Spec
INVARIANTS
    TypeOK
    HandlesKeepMeaning
    InternedUnlessReused
    FieldsLaidOut
\* A failed assertion ends the program.
CHECK_DEADLOCK FALSE

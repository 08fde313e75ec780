CONSTANTS
    Bits <- MCBits
    Texts <- MCTexts
    Literals <- MCLiterals
    Vars <- MCVars
    Names <- MCNames
    ShortData = 3
SPECIFICATION Spec
INVARIANTS
    ParsesByPrecedence
    FoldsExactly
    ListsEnd
CHECK_DEADLOCK FALSE

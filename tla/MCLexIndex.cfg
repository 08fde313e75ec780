CONSTANTS
    Alphabets <- MCAlphabets
    MaxText = 5
    Widths = {2, 4}
SPECIFICATION LexSpec
INVARIANTS
    FindsTokens
CHECK_DEADLOCK FALSE

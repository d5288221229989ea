CONSTANTS
    NrCIs = 2
    NrMembers = 3
    WramSize = 4
    Calls <- MCCalls
    MaxWords = 2
    Untouched = untouched
    Null = null
    Debug = TRUE
SPECIFICATION Spec
INVARIANT TypeOK
INVARIANT OwnWordsOnly
INVARIANT ReadComplete

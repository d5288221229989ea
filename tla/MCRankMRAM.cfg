CONSTANTS
    a = a
    b = b
    garbage = garbage
    none = none
    Words <- MCWords
    Ids = {0}
    Lanes = {0, 1}
    Values <- MCValues
    Blank = a
    Garbage = garbage
    None = none
    Speculative <- MCSpeculative
    Enabled <- MCEnabled
    MaxWords = 2
    Fills <- MCFills
    Calls <- MCCalls
    Program <- MCProgram
    Modes = {"Original"}
    Debug = TRUE
SPECIFICATION Spec
INVARIANT TypeOK
INVARIANT NoStoreInFlight
INVARIANT FreshWhileReading
INVARIANT Inv
PROPERTY SendCompletes
PROPERTY ReceiveCompletes
PROPERTY Implements

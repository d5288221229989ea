CONSTANTS
    a = a
    b = b
    garbage = garbage
    none = none
    Words <- MCWords
    Ids = {0, 1}
    Lanes = {0}
    Values = {a, b}
    Blank = a
    Garbage = garbage
    None = none
    Speculative = {}
    Enabled <- MCEnabled
    MaxWords = 2
    Fills <- MCFills
    Calls <- MCCalls
    Program <- MCProgram
    Modes = {"Original", "RoundRobin", "Sequential"}
    Debug = FALSE
SPECIFICATION FairSpec
PROPERTY CallReturns
PROPERTY Implements

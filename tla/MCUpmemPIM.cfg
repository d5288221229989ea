CONSTANTS
    a = a
    b = b
    NrRanks = 2
    Slots = {0, 1}
    Enabled <- MCEnabled
    MaxQueue = 3
    CallerWaits = TRUE
    Blank = a
    Fills <- MCFills
    Program <- MCProgram
    Areas = {"mram"}
SPECIFICATION UpmemSpec
INVARIANT NothingOwed
PROPERTY UpmemImplements

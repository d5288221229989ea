CONSTANTS
    a = a
    b = b
    null = null
    NrRanks = 3
    Slots = {0, 1, 2}
    Enabled <- MCEnabled
    MaxQueue = 1
    CallerWaits = TRUE
    Blank = a
    Fills <- MCFills
    Program <- MCProgram
    Areas = {"mram", "wram"}
    PerfRanks = {0, 1, 2}
    NrThreads = 2
    Debug = TRUE
    AsyncTransfers = {TRUE, FALSE}
    Null = null
SPECIFICATION FairSpec
INVARIANT TypeOK
INVARIANT NoTransferDuringRun
PROPERTY SendPlaces
PROPERTY Implements
PROPERTY CallReturns

CONSTANTS
    a = a
    b = b
    null = null
    NrRanks = 3
    Slots = {0, 1, 2}
    Enabled <- MCEnabled
    MaxQueue = 1
    CallerWaits = FALSE
    Blank = a
    Fills <- MCFills
    Program <- MCProgram
    Areas = {"mram"}
    PerfRanks = {0, 1, 2}
    NrThreads = 2
    Debug = FALSE
    AsyncTransfers = {TRUE}
    Null = null
SPECIFICATION UsageSpec
INVARIANT NoTransferDuringRun

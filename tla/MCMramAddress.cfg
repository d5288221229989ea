CONSTANTS
    Starts <- MCStarts
    Length = 3
SPECIFICATION WalkSpec
INVARIANT FastPathIsMasks
INVARIANT BytesReachDpu
INVARIANT LinesApart
CHECK_DEADLOCK FALSE

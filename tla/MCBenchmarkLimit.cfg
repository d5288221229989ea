CONSTANTS
    NrDpus = 2
    Sizes <- MCUpTo8MB
    MaxRepeat = 2
    Words <- MCWords
SPECIFICATION Spec
INVARIANT CheckHolds

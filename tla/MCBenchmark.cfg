CONSTANTS
    NrDpus = 2
    Sizes <- MCUpTo4MB
    MaxRepeat = 2
    Words <- MCWords
SPECIFICATION Spec
INVARIANT CheckHolds

SPECIFICATION Spec
CONSTANTS
    NrDpus = 2
    Sizes <- MCSizes
    Chunk = 2
    Faulty = TRUE
INVARIANT ErrorCountIsRight
INVARIANT HostTells

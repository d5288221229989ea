CONSTANTS
    whole = whole
    holed = holed
    small = small
    null = null
    Sets = {whole, holed, small}
    RankSizes <- MCRankSizes
    Reloads = {"direct"}
    Null = null
SPECIFICATION Spec
INVARIANT NoMismatch

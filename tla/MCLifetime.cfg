CONSTANTS
    whole = whole
    holed = holed
    small = small
    null = null
    Sets = {whole, holed, small}
    RankSizes <- MCRankSizes
    Reloads = {"upmem"}
    Null = null
SPECIFICATION Spec
INVARIANT OneSet
INVARIANT FreedOnce

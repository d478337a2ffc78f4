CONSTANTS
    Client = {a, b}
    Key = {n1}
    n2 = n2
    Edits <- AllEdits
    OrderKey = {}
    RemovedMax = 2
    LocalCastsMax = 8
    Val = {v0, v1}
    v0 = v0
    TooLarge = {}
    Absent = Absent
    Loaded <- AllLoaded
    Draggers = {a}
    MaxCasts = 3
SPECIFICATION FairSpec

INVARIANTS PendingMatchesBus
PROPERTIES NoResurrection Settles
CHECK_DEADLOCK FALSE

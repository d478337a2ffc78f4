CONSTANTS
    Client = {a, b}
    Key = {n1, n2}
    n2 = n2
    Edits <- RefusedOnN2
    OrderKey = {}
    RemovedMax = 2
    LocalCastsMax = 8
    Val = {v0, v1, big}
    v0 = v0
    TooLarge = {big}
    Absent = Absent
    Loaded <- AllLoaded
    Draggers = {}
    MaxCasts = 3
SPECIFICATION Spec
INVARIANTS TypeOK Convergence RefusedStaysDue
PROPERTIES ImplementsReplica
SYMMETRY Symmetry
CHECK_DEADLOCK FALSE

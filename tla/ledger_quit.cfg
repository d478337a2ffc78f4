CONSTANTS
    Caller = {c1, c2}
    Id = {i1}
    Fingerprint = {f1}
    Large = {}
    PerCallerMax = 2
    GlobalMax = 3
    Ttl = 1
    Stale = 0
    MaxRuns = 3
    MaxNow = 1
    MaxExits = 1
    Client = {a1}
    Op = {k1}
    NoOp = NoOp
    MaxGeneration = 1
SPECIFICATION IdsSpec
SYMMETRY Symmetry
INVARIANTS RunsOnceOverQuits
CHECK_DEADLOCK FALSE

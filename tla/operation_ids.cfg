CONSTANTS
    Caller = {c1, c2}
    Id = {i1}
    Fingerprint = {f1, f2}
    Large = {2}
    PerCallerMax = 1
    GlobalMax = 1
    Ttl = 0
    Stale = 0
    MaxRuns = 3
    MaxNow = 1
    MaxExits = 1
    Client = {a1}
    Op = {k1, k2}
    NoOp = NoOp
    MaxGeneration = 2
SPECIFICATION IdsSpec
SYMMETRY Symmetry
INVARIANTS IdsTypeOK RunsOnce AnswersAreTrue OneGeneration KillsAreExact LeaseHonoured
CHECK_DEADLOCK FALSE

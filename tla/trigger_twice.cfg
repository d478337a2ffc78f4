CONSTANTS
    Focus = {"triggers"}
    Spawn = {s1}
    Limit = 1
    MintBudget = 1
    MaxBridged = 1
    Rows <- TwoTriggers
    Schedule <- EverySecond
    NoSpec = NoSpec
    TriggerTime = 4
    Sweeps = 2
    Read = {r1}
    Mutation = {m1}
    Slots = 1
    MaxWait = 1
    Spacing = 1
    Farthest = 1
    Client = {a1}
    Op = {k1}
    NoOp = NoOp
    MaxGeneration = 1
SPECIFICATION ServicesSpec
INVARIANT OncePerSlot

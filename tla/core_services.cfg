CONSTANTS
    Focus = {"gate", "hosting", "triggers", "requests", "session", "queue"}
    Spawn = {s1, s2, s3, s4}
    Limit = 2
    MintBudget = 3
    MaxBridged = 2
    Rows <- TwoTriggers
    Schedule <- EveryMinute
    NoSpec = NoSpec
    TriggerTime = 1
    Sweeps = 2
    Read = {r1, r2}
    Mutation = {m1}
    Slots = 1
    MaxWait = 1
    Spacing = 1
    Farthest = 2
    Client = {a1, a2}
    Op = {k1}
    NoOp = NoOp
    MaxGeneration = 2
    Board = {}
    Msg = {d1, d2}
    Session = {}
    NoSession = NoSession
    Capacity = 2
    MaxEnqueuing = 1
    MaxFlushing = 2
    MaxExits = 0
SPECIFICATION CoreSpec
INVARIANTS ServicesTypeOK PermitsHeld ListenerKept SlotsCounted InOnePlace FileFollows
PROPERTIES VisibleServed KeepsTrying DueIsTaken EveryoneAnswered RequestsAnswered ToldOnce HeldEnds

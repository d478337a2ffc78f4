CONSTANTS
    Key = {n1}
    OrderKey = {}
    RemovedMax = 2
    LocalCastsMax = 8
    Val = {v0, v1}
    v0 = v0
    TooLarge = {}
    Absent = Absent
    Loaded <- AllLoaded
    None = None
    MaxOps = 2
    MaxEdits = 1
    MaxShares = 1
    MaxSaves = 1
    MaxEvents = 4
SPECIFICATION Spec
INVARIANTS EditsStay
CHECK_DEADLOCK FALSE

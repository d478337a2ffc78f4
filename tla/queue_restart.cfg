CONSTANTS
    Plain = {m1}
    Board = {b1}
    Msg <- AllMsg
    Session = {s1, s2}
    NoSession = NoSession
    Capacity = 1
    MaxEnqueuing = 2
    MaxFlushing = 1
    MaxExits = 1
SPECIFICATION Spec
SYMMETRY Symmetry
INVARIANTS TypeOK WaitingIsTimed
PROPERTIES OldestFirst OnlyOvertakingDrops RestoredKeepsSession
CHECK_DEADLOCK FALSE

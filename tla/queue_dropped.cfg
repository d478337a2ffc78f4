CONSTANTS
    Plain = {m1, m2}
    Board = {}
    Msg <- AllMsg
    Session = {}
    NoSession = NoSession
    Capacity = 2
    MaxEnqueuing = 2
    MaxFlushing = 1
    MaxExits = 0
SPECIFICATION Spec
SYMMETRY Symmetry
INVARIANTS NothingDropped
CHECK_DEADLOCK FALSE

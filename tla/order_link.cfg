CONSTANTS
    Key = {n1, n2}
    OrderKey = {}
    RemovedMax = 1
    LocalCastsMax = 2
    Me = me
    Peer = peer
    MaxSeq = 2
    MaxInFlight = 3
    MaxUnacked = 2
SPECIFICATION Spec
SYMMETRY KeySymmetry
INVARIANTS TypeOK Bookkeeping GateShutWhileUnacked SeqsRight

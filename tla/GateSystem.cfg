SPECIFICATION Spec
CONSTANTS
    a = a
    b = b
    v1 = v1
    v2 = v2
    Me = a
    Versions = {v1, v2}
    Participants <- MCRequired
    Required <- MCRequired
    Reports <- MCReports
    MaxGen = 2
    MaxQueue = 1
    MaxPeers = 1
    BranchMoves = FALSE
INVARIANTS
    TypeOK
    PassIsEarned
    NobodyIsDeaf
SYMMETRY MCSymmetry
CHECK_DEADLOCK FALSE

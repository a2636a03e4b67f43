SPECIFICATION FairSpec
CONSTANTS
    c1 = c1
    c2 = c2
    c3 = c3
    b1 = b1
    b2 = b2
    Callers <- MCCallers
    Branches <- MCBranches
    TTL = 2
INVARIANTS
    TypeOK
PROPERTIES
    FencedOutTouchesNothing
    WorkSurvives
    LiveLeaseIsKept
    AbandonedLeaseLapses

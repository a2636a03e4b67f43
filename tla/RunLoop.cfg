SPECIFICATION FairSpec
CONSTANTS
    a = a
    b = b
    r = r
    v1 = v1
    v2 = v2
    Agents <- MCAgents
    Runner = r
    Required <- MCAgents
    Versions <- MCVersions
    Verdicts <- MCVerdicts
    MaxRounds = 2
    Buffer = 1
    Wall = TRUE
INVARIANTS
    TypeOK
    GivesUpInTime
    DeathIsVisible
    LossIsKept
    BlameIsDeserved
    GivenUpLast
PROPERTIES
    TroubleEndsTheRun
CHECK_DEADLOCK FALSE

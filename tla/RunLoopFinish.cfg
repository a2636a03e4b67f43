SPECIFICATION Spec
CONSTANTS
    a = a
    b = b
    r = r
    v1 = v1
    v2 = v2
    Agents <- MCAgents
    Runner = r
    Required <- MCAgents
    Versions <- MCVersions
    Verdicts <- MCVerdicts
    MaxRounds = 3
    Buffer = 1
    Wall = TRUE
INVARIANTS
    FinishedIsNotDied
CHECK_DEADLOCK FALSE

SPECIFICATION Spec
CONSTANTS
    a = a
    b = b
    x = x
    v1 = v1
    v2 = v2
    Participants <- MCParticipants
    Required <- MCRequired
    Versions <- MCVersions
    Reports <- MCReports
    MaxGen = 3
    MaxQueue = 2
PROPERTIES
    BackfillDescribesTheRound
CHECK_DEADLOCK FALSE

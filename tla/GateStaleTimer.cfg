SPECIFICATION Spec
CONSTANTS
    a = a
    b = b
    x = x
    v1 = v1
    v2 = v2
    Participants <- MCParticipants
    Required <- MCRequired
    Versions <- MCVersions
    Reports <- MCReports
    MaxGen = 3
    MaxQueue = 1
PROPERTIES
    TimersAreFenced
CHECK_DEADLOCK FALSE

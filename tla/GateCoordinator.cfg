SPECIFICATION FairSpec
CONSTANTS
    a = a
    b = b
    x = x
    v1 = v1
    v2 = v2
    Participants <- MCParticipants
    Required <- MCRequired
    Versions <- MCVersions
    Reports <- MCReports
    MaxGen = 2
    MaxQueue = 1
INVARIANTS
    TypeOK
    QuorumIsNeverLost
    RememberedRoundIsCurrent
    DiscardIsNeverRead
    VerdictNamesEveryone
    NobodyWaitsForAPeer
PROPERTIES
    DiscardMeansANewCombination
    QuorumIsAnswered
CHECK_DEADLOCK FALSE

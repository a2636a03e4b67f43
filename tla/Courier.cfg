SPECIFICATION FairSpec
CONSTANTS
    w = w
    p = p
    run = run
    Me = w
    Peers = {p}
    Caller = run
    Callers = {run}
    Listeners = {w, p}
    Outgoing <- MCOutgoing
    Texts = {1, 2, 3}
    NoText = 0
    OnSteer <- MCOnSteer
    OnFollow <- MCOnFollow
    OnStart <- MCOnStart
    WorkCap = 2
    EventCap = 1
    Buf = 2
    UrgentCap = 1
    MaxPublish = 3
INVARIANTS
    ReceiptsSettle
    EndIsAnnounced
    InPublicationOrder
    AnswerComesLast
PROPERTIES
    ImplementsTurns
    EndingStops
    NobodyIsLeftWaiting
CHECK_DEADLOCK FALSE

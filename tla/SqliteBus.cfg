SPECIFICATION FairSpec
CONSTANTS
    a = a
    b = b
    t = t
    s1 = s1
    s2 = s2
    Agents = {a}
    Subs <- MCSubs
    Owner <- MCOwner
    TopicsOf <- MCTopicsOf
    Messages <- MCMessages
    Batch = 2
    MaxLog = 2
    MaxErrors = 1
INVARIANTS
    TypeOK
    NothingIsSkipped
PROPERTIES
    ImplementsInbox
    CursorsNeverRewind
    MessagesArrive

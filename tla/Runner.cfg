SPECIFICATION FairSpec
CONSTANTS
    a = a
    b = b
    fa = fa
    fb = fb
    r = r
    fr = fr
    Scenario <- MCScenario
    MaxTip = 2
    MaxAsked = 2
    MaxAgain = 1
INVARIANTS
    ReportNamesWhatRan
    NothingOlderThanDeclared
    RunsStartClean
    FailureNamesItsCause
PROPERTIES
    EveryRequestIsAnswered
CHECK_DEADLOCK FALSE

SPECIFICATION FairSpec
CONSTANTS
    c1 = c1
    c2 = c2
    p1 = p1
    Calls <- MCCalls
    Publishes <- MCPublishes
    IdSpace = 5
    StartIDs <- FirstAndLast
    MaxQueue = 1
CHECK_DEADLOCK FALSE
INVARIANTS
    AnswersMatch
    RecvNeverBlocks
    PendingIsExact
PROPERTIES
    EveryCallReturns
    CloseCompletes

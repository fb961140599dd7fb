SPECIFICATION FairSpec
CONSTANTS
    x1 = x1
    w1 = w1
    Subs <- MCSubs
    Writers <- MCWriters
    TopicOf <- OwnTopics
    CallsMayFail = TRUE
    maxReconnects = 2
    ChanSize = 1
    MaxConns = 3
    MaxData = 2
CHECK_DEADLOCK FALSE
INVARIANTS
    OneConnection
    CopiedAreServed
    OldestIsDropped
    CloseNeverPanics
PROPERTIES
    Reconnects
    CloseCompletes

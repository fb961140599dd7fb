SPECIFICATION Spec
CONSTANTS
    x1 = x1
    w1 = w1
    Subs <- MCSubs
    Writers <- MCWriters
    TopicOf <- OwnTopics
    CallsMayFail = FALSE
    maxReconnects = 2
    ChanSize = 1
    MaxConns = 3
    MaxData = 0
CHECK_DEADLOCK FALSE
INVARIANT ClosedWritersAreDeleted

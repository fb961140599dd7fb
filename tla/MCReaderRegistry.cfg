SPECIFICATION Spec
CONSTANTS
    s1 = s1
    s2 = s2
    s3 = s3
    t1 = t1
    t2 = t2
    Sessions <- MCSessions
    Topics <- MCTopics
    QosSets <- MCQosSets
    Requests <- MCRequests
    MaxReaders = 5
INVARIANTS
    KeysMatchReaders
    NoIdleReader
PROPERTIES
    TrackLostByResubscribeOnly
    OthersStaySubscribed
    DisconnectRemovesSubscriptions
    ImplementsSubscriptions

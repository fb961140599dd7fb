SPECIFICATION PollSpec
CONSTANTS
    s1 = s1
    s2 = s2
    t1 = t1
    t2 = t2
    Sessions <- MCSessions
    Topics <- MCTopics
    QosSets <- MCQosSets
    ClientOps <- PubSubOps
    RemoteSamples <- AnySample
    Leavers <- Nobody
    DdsMayFail = FALSE
    BufferSize = 1
    WriterIdSpace = 8
    MaxTake = 2
    CacheDepth = 2
    MaxReaders = 3
    MaxWriters = 0
    MaxReplies <- PubSubBudget
    MaxOffers = 9
    MaxSamples = 2
CHECK_DEADLOCK FALSE
INVARIANT SamplesInOrder
PROPERTIES
    EverySampleIsFannedOut

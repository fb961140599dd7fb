SPECIFICATION Spec
CONSTANTS
    s1 = s1
    s2 = s2
    t1 = t1
    t2 = t2
    Sessions <- MCSessions
    Topics <- MCTopics
    QosSets <- MCQosSets
    ClientOps <- FailureOps
    RemoteSamples <- NoSamples
    Leavers <- First
    DdsMayFail = TRUE
    BufferSize = 1
    WriterIdSpace = 8
    MaxTake = 2
    CacheDepth = 1
    MaxReaders = 1
    MaxWriters = 2
    MaxReplies <- FailureBudget
    MaxOffers = 9
    MaxSamples = 1
CHECK_DEADLOCK FALSE
INVARIANTS
    ResourcesHaveLiveOwners
    DisposeNotedAfterOk
    OneWriterPerQos
    ListedWritersOwned
PROPERTIES
    OthersKeepWriters

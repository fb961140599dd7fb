SPECIFICATION FairSpec
CONSTANTS
    s1 = s1
    Sessions <- MCSessions
    Bodies <- MCBodies
    BufferSize = 2
    MaxReplies <- FewReplies
    MaxOffers = 2
CHECK_DEADLOCK FALSE
PROPERTY LeaversAreCleanedUp

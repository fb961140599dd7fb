SPECIFICATION FairSpec
CONSTANTS
    s1 = s1
    Sessions <- MCSessions
    Bodies <- MCBodies
    BufferSize = 2
    MaxReplies <- ManyReplies
    MaxOffers = 4
CHECK_DEADLOCK FALSE
INVARIANTS
    RepliesInOrder
    NotificationsInOrder
PROPERTY RepliesArrive

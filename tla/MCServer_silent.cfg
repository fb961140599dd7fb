SPECIFICATION FairSpec
CONSTANTS
    p1 = p1
    p2 = p2
    p3 = p3
    p4 = p4
    Peers <- MCPeers
    Kind <- OneSilent
    max_connections = 2
CHECK_DEADLOCK FALSE
PROPERTY EveryoneIsServed

CONSTANTS
    c1 = c1
    c2 = c2
    Conns <- TwoConns
SPECIFICATION FairSpec
INVARIANTS ReleasedOnce
PROPERTY FoundTunnelsReleased
CHECK_DEADLOCK FALSE

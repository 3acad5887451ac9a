SPECIFICATION FairSpec
CONSTANTS
    a = a
    b = b
    c = c
    n1 = n1
    n2 = n2
    None = None
    Addr <- MCAddr
    Net <- MCNet
    NetOf <- MCNetOf
    Slot = {s1, s2}
    Limit = 1
    Paces = {"hasty"}
    MaxMoves = 2
    MaxFaults = 1
PROPERTIES MovedKeeperReplaced
CHECK_DEADLOCK FALSE

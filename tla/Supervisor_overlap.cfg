SPECIFICATION SupSpec
CONSTANTS
    p1 = p1
    p2 = p2
    p3 = p3
    s1 = s1
    s2 = s2
    Proc <- ThreeProcs
    Sup <- TwoSups
    Nobody = Nobody
    MaxFaults = 2
    MaxCommands = 5
INVARIANTS SingleInstance
CHECK_DEADLOCK FALSE

SPECIFICATION FairSpec
CONSTANTS
    Strikes = 2
    Tries = 2
    MaxFaults = 2
INVARIANTS
    TokenHonest
    FailsClosed
PROPERTIES
    NoNeedlessTeardown
    ForeignHooksKept
    HalfBuiltRemoved
    MasterEndsRewriting
    ImplementsRoleGate

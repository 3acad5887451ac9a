SPECIFICATION FairSpec
CONSTANTS
    Addr = {"a", "b"}
    RebootAttempts = 2
    DoraAttempts = 2
    RenewAttempts = 2
    MaxFaults = 2
INVARIANTS
    LeaseGranted
PROPERTIES
    ImplementsHeldLease
    AcksOwnExchange
    SettlesOnLease
CHECK_DEADLOCK FALSE

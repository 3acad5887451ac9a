SPECIFICATION Spec
CONSTANTS
    Addr = {"a", "b"}
    RebootAttempts = 2
    DoraAttempts = 2
    RenewAttempts = 2
    MaxFaults = 2
INVARIANTS
    OfferNeverHeld
CHECK_DEADLOCK FALSE

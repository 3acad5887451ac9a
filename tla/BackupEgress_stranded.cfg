SPECIFICATION Spec
CONSTANTS
    Split = {"lo", "hi"}
    Listed = {"net"}
    MaxFaults = 3
INVARIANTS
    SessionCleared
CHECK_DEADLOCK FALSE

SPECIFICATION Spec
CONSTANTS
    Strikes = 2
    Tries = 2
    MaxFaults = 2
PROPERTIES
    RestartConfirms
CHECK_DEADLOCK FALSE

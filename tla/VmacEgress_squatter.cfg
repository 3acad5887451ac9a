SPECIFICATION Spec
CONSTANTS
    Strikes = 2
    Tries = 2
    MaxFaults = 2
PROPERTIES
    NameTakerKept
CHECK_DEADLOCK FALSE

SPECIFICATION Spec
CONSTANTS
    HoldTicks = 2
    RebindSteps = 2
    Grace = 2
    ReleaseOnExit = FALSE
    Modes = {TRUE}
    MaxFaults = 0
    None = None
PROPERTIES ExpiresOnTime

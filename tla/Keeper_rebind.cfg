SPECIFICATION Spec
CONSTANTS
    HoldTicks = 2
    RebindSteps = 2
    Grace = 2
    ReleaseOnExit = FALSE
    Modes = {TRUE}
    MaxFaults = 1
    None = None
PROPERTIES BackupNeverTransmits

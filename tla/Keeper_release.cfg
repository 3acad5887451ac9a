SPECIFICATION Spec
CONSTANTS
    HoldTicks = 2
    RebindSteps = 2
    Grace = 2
    ReleaseOnExit = TRUE
    Modes = {TRUE}
    MaxFaults = 0
    None = None
PROPERTIES BackupNeverReleases

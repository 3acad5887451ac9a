SPECIFICATION FairSpec
CONSTANTS
    HoldTicks = 2
    RebindSteps = 2
    Grace = 1
    ReleaseOnExit = TRUE
    Modes = {TRUE, FALSE}
    MaxFaults = 2
    None = None
PROPERTIES ImplementsFailStop DemotionEarned BackupSilence PromotionNotSleptOut PromotionRenews LeaselessMasterDemotes

SPECIFICATION FairSpec
CONSTANTS
    Split = {"lo", "hi"}
    Listed = {"net"}
    MaxFaults = 3
PROPERTIES
    ForeignKept
    BackupEndsRouted
    ImplementsRoleGate

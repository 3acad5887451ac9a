SPECIFICATION FairSpec
CONSTANTS
    g1 = g1
    g2 = g2
    zero = zero
    None = None
    Gateway <- MCGateway
    Usable <- MCUsable
    Strikes = 3
    Mode = "enforce"
    MaxFaults = 4
INVARIANTS Converged FailsClosed
PROPERTIES NoNeedlessWithdraw InstallsOwnLease BackupEndsClean MasterEndsAdvertised

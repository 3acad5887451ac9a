SPECIFICATION ClockSpec
CONSTANTS
    LeaseTimes = {120}
    RenewalTimes = {0}
    RebindingTimes = {0}
    DefaultLease = 90
    Grain = 2
INVARIANTS HeldWithinLease

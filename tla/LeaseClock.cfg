SPECIFICATION ClockSpec
CONSTANTS
    LeaseTimes = {0, 1, 100}
    RenewalTimes = {0, 20, 200}
    RebindingTimes = {0, 90, 300}
    DefaultLease = 90
    Grain = 2
INVARIANTS TimersOrdered OverrunBounded

SPECIFICATION FairSpec
CONSTANTS
    Node = {"a", "b"}
    Preferred = "a"
    MaxFaults = 1
PROPERTIES
    ImplementsFailStop
    DemotedForCause
    HealthyNodeServes
    SettlesOnPreferred
    StoppedNodeYields

SPECIFICATION Spec
CONSTANTS
    g1 = g1
    g2 = g2
    zero = zero
    None = None
    Gateway <- MCGateway
    Usable <- MCUsable
    Strikes = 3
    Mode = "enforce"
    MaxFaults = 3
PROPERTIES UnreadableNeverInstalls

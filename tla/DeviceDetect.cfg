CONSTANTS
    Addrs = {2, 4}
    SNs = {s1, s2}
    NoSN = NoSN
    SlotCount = 2
    TickModulus = 5
    Timeouts = {1, 2}
    MaxTime = 7
    MaxQueue = 2
SYMMETRY SNSymmetry
SPECIFICATION Spec
CHECK_DEADLOCK FALSE
INVARIANTS
    TypeOK
    SilenceIsBounded
    ToldMatchesList
PROPERTIES
    NoFalseLoss
    ConnectsToSN

CONSTANTS
    Devices = {d1}
    SNs = {s1}
    Threads = {t1, t2}
    NoDev = NoDev
    NoSN = NoSN
    BadMac = BadMac
    FixedMac = FixedMac
    NoThread = NoThread
    MesLogins = {TRUE}
    RouteCheck = TRUE
    SkipSpkMic = FALSE
    MaxQueue = 2
SYMMETRY Symmetry
SPECIFICATION Spec
CHECK_DEADLOCK FALSE
INVARIANT
    BurnIsMeasured

CONSTANTS
    Devices = {d1}
    SNs = {s1}
    Threads = {t1}
    NoDev = NoDev
    NoSN = NoSN
    BadMac = BadMac
    FixedMac = FixedMac
    NoThread = NoThread
    MesLogins = {TRUE, FALSE}
    RouteCheck = TRUE
    SkipSpkMic = FALSE
    MaxQueue = 1
SPECIFICATION FairSpec
CHECK_DEADLOCK FALSE
PROPERTIES
    StopReturns

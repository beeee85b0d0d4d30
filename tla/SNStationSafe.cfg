CONSTANTS
    Devices = {d1, d2}
    SNs = {s1}
    Threads = {t1, t2}
    NoDev = NoDev
    NoSN = NoSN
    BadMac = BadMac
    FixedMac = FixedMac
    NoThread = NoThread
    MesLogins = {TRUE}
    RouteCheck = FALSE
    SkipSpkMic = FALSE
    MaxQueue = 1
SYMMETRY Symmetry
SPECIFICATION Spec
CHECK_DEADLOCK FALSE
INVARIANTS
    TypeOK
    OneTest
    RoundKeepsDevice
    ReportIsMeasured
    ReportAgrees
    DoneIsSettled
    ScanWaitsForDevice
PROPERTIES
    CancelStays
    RoundsAsPromised

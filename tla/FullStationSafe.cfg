CONSTANTS
    Addrs = {a1, a2}
    NoAddr = NoAddr
    SNs = {s1, s2}
    NoSN = NoSN
    FixedMac = FixedMac
    Checks = {"led", "wifi", "sn"}
    MesLogins = {TRUE, FALSE}
    MaxQueue = 1
SPECIFICATION Spec
SYMMETRY Symmetry
CHECK_DEADLOCK FALSE
INVARIANTS
    TypeOK
    ResultsHaveDevice
PROPERTIES
    UploadedOncePerScan
    AgedIsTested

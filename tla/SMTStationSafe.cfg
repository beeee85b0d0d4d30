CONSTANTS
    Addrs = {a1, a2}
    NoAddr = NoAddr
    Devices = {d1, d2}
    NoDevice = NoDevice
    Threads = {t1, t2}
    NoThread = NoThread
    Order <- Sensors
    Manual = {"led"}
    Announced = {"wifi"}
    Tries = 2
    MaxQueue = 2
SPECIFICATION Spec
SYMMETRY Symmetry
CHECK_DEADLOCK FALSE
INVARIANTS
    TypeOK
    OneRound
    PassIsOwn
    TextHasColor
    RestIsTested

CONSTANTS
    Kinds = {"burn", "mic", "check", "done"}
    Fields = {"rtSN", "rtMic"}
    SNs = {s1, s2}
    NoSN = NoSN
    SlowTries = 2
    MaxCalls = 3
    MaxConns = 2
    MaxReboots = 1
SPECIFICATION FairSpec
CHECK_DEADLOCK FALSE
INVARIANTS
    TypeOK
    ConfirmedIsOnDevice
    FinishedSurvives
PROPERTIES
    InStepUntilGivenUp
    ConnectionIsServed

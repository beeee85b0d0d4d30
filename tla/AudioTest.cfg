SPECIFICATION FairSpec
INVARIANTS
    TypeOK
    VerdictIsOnTone
PROPERTIES
    WaitsEnd

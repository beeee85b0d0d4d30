CONSTANT
    MaxFds = 5
SPECIFICATION Spec
INVARIANTS
    TypeOK
    FilesAreHeld
    KeyIsSeen
    ButtonHasIR

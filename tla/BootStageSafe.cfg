CONSTANT
    Cards = {"none", "plain", "force", "smt"}
SPECIFICATION Spec
INVARIANTS
    TypeOK
    OriginalKept
    InstallCompletes
    RemovalIsSafe

SPECIFICATION Spec
CONSTANTS
    Files <- MCFiles
    Environments <- MCEnvironments
INVARIANTS
    TypeOK
    Precedence
CHECK_DEADLOCK FALSE

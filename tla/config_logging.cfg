SPECIFICATION Spec
CONSTANTS
    Files <- MCFiles
    Environments <- MCEnvironments
INVARIANTS
    LoggingLevelIsObeyed
CHECK_DEADLOCK FALSE

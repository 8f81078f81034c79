SPECIFICATION Spec
CONSTANTS
    BridgeWorkflows = TRUE
    NumFiles = 2
    MaxWrites = 2
    Retries = 2
    GitFails = TRUE
INVARIANTS
    TypeOK
    SeenIsPublished
    HandedOverOnce
PROPERTIES
    ImplementsMirror
    EveryChangeAnswered

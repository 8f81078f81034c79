SPECIFICATION Spec
CONSTANTS
    BridgeWorkflows = FALSE
    NumFiles = 1
    MaxWrites = 2
    Retries = 3
    GitFails = FALSE
PROPERTIES
    ChangeIsUploaded

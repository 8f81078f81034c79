SPECIFICATION Spec
CONSTANTS
    Named = TRUE
    NotReadyGrace = 2
    BackoffInitial = 2
    BackoffMax = 60
INVARIANTS
    NoOrphan

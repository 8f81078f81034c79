SPECIFICATION Spec
CONSTANTS
    Named = TRUE
    NotReadyGrace = 2
    BackoffInitial = 2
    BackoffMax = 3
INVARIANTS
    TypeOK
    ExitStillToCome
PROPERTIES
    LiveProcessGivenUpOnlyAfterGrace
    CrashIsNoticed
    NotReadySpellEnds
    ImplementsService

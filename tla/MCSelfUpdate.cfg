SPECIFICATION Spec
CONSTANTS
    p1 = p1
    p2 = p2
    p3 = p3
    Procs <- MCProcs
    Installed = installed
    None = none
SYMMETRY Symmetry
INVARIANTS
    TypeOK
    NamesStayWhole
    FailedUpdateLeavesNothing
    StaleServiceExplained
    OutageExplained
PROPERTIES
    ImplementsRelease

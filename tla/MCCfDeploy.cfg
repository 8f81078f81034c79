SPECIFICATION Spec
CONSTANTS
    r1 = r1  r2 = r2  r3 = r3
    Run <- MCRun
    Config <- MCConfig
    None = none
SYMMETRY Symmetry
CONSTRAINT TwoMachines
VIEW Relevant
INVARIANTS TypeOK WebhookIsLive TokenMatchesRoute
PROPERTIES ImplementsHosting
CHECK_DEADLOCK FALSE

SPECIFICATION FairSpec
CONSTANTS
    r1 = r1  r2 = r2  r3 = r3
    Run = {r1, r2}
    Config <- MCConfig
    None = none
PROPERTIES NeverBlocksStartup
CHECK_DEADLOCK FALSE

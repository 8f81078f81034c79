SPECIFICATION FairSpec
CONSTANTS
    l1 = l1  l2 = l2   frp = frp   none = none
    Launch <- MCLaunch
    None <- MCNone
    Legacy <- MCLegacy
INVARIANTS TypeOK LoneExportStands AnswersAgree
PROPERTIES ImplementsPublication EveryHostnameExported
CHECK_DEADLOCK FALSE

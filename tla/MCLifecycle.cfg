SPECIFICATION FairSpec
CONSTANTS
    CIMode = TRUE
    livenessFailureThreshold = 2
    Identity = {id1, id2, id3}
    Given = {id1}
    None = None
    Unusable = Unusable
    QuickHost = "quick.trycloudflare.com"
    Environment <- MCEnvironment
INVARIANTS TypeOK NoneLeftBehind XrayUpFollowsProbes LinksWork
PROPERTIES EventsAnswered

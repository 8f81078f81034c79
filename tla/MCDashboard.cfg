SPECIFICATION FairSpec
CONSTANTS
    k1 = k1  k2 = k2
    Request <- MCRequest
    Capacity = 2
    MaxSeq = 3
    MaxEpoch = 2
INVARIANTS TypeOK EachLineOnce
PROPERTIES ImplementsLogView CatchesUp StaleSessionNoticed

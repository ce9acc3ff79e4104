SPECIFICATION FairSpec
CONSTANTS
    k1 = k1
    k2 = k2
    k3 = k3
    i1 = i1
    i2 = i2
    q1 = q1
    q2 = q2
    q3 = q3
    NoRow = NoRow
    Keys <- MCKeys
    Near <- MCNear
    Items <- MCItems
    Times <- MCTimes
    Feeds <- MCFeeds
    Ingests <- MCIngests
INVARIANTS
    TypeOK
    EveryFeedIsCovered
    TwinsComeFromOverlap
PROPERTIES
    LoneIngestIsExact
    EveryIngestEnds

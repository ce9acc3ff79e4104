SPECIFICATION FairSpec
CONSTANTS
    r1 = r1
    r2 = r2
    r3 = r3
    k1 = k1
    k2 = k2
    b1 = b1
    b2 = b2
    NoRow = NoRow
    Requests <- MCRequests
    Keys <- MCKeys
    Bodies <- MCBodies
    Sent <- MCSent
    Limit = 2
    Window = 2
    MaxAttempts = 2
    MaxClock = 2
INVARIANTS
    TypeOK
    OneIsCarriedOut
PROPERTIES
    EveryRequestIsAnswered
    LimitIsKept

SPECIFICATION Spec
CONSTANTS
    r1 = r1
    r2 = r2
    q1 = q1
    q2 = q2
    q3 = q3
    NoRec = NoRec
    Recs <- MCRecs
    Requests <- MCRequests
    TopN = 2
    AllowBeforeApproval = FALSE
PROPERTY
    OnlyPendingDecided

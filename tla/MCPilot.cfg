SPECIFICATION Spec
CONSTANTS
    Tenants = {"t1", "t2"}
    Keys = {"discovery", "external_mutations"}
    Default <- MCDefault
    Onboardings = {"o1", "o2"}
    Setters = {"s1", "s2"}
    Histories <- MCHistories
    Boards = {"b1"}
    Jobs = {"j1", "j2", "j3"}
    Recs = {"r1", "r2"}
    Owner <- MCOwner
    Costs = {2}
    Ratings = {1, 5}
    MaxCommits = 4
    NoRow = NoRow
INVARIANT
    TypeOK
PROPERTIES
    FlagsAreAsAsked
    DashboardErrsByOverlap

SPECIFICATION ScoringSpec
CONSTANTS
    Candidates = {1, 2, 3, 4}
    Name <- MCName
    Home = {1, 2, 3}
    Supplied = {1, 2, 4}
    Versions = {"v1", "v2"}
    Config <- MCConfig
    Unreadable = Unreadable
    Evidence <- MCEvidence
    TopN = 2
    MaxCandidates = 3
    MaxRuns = 2
    NoRow = NoRow
    Steps = 3
    Grain = 2
    Points <- MCPoints
    Weights <- DefaultWeights
    Limits <- MCLimits
    Parts = 2
    Quanta = 1000
    Amounts <- MCAmounts
    Price = 97
    Starts <- MCStarts
    MaxGains = 3
INVARIANTS
    TypeOK
    BestAreRecommended
    RowsMatchTheOutput
PROPERTIES
    PastScoresStay
    BetterIsNeverWorse

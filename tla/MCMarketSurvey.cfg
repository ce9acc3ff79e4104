SPECIFICATION Surveying
CONSTANTS
    Texts <- MCTexts
    Stripped <- MCStripped
    Canonical <- MCCanonical
    Near <- MCNear
    Order <- MCOrder
    Containing <- MCContaining
    BlankTerms = {""}
    Requests <- MCRequests
    Offers <- MCOffers
    Shapes <- MCShapes
    MockTitles = {"lamp"}
    MockTime = 1
    BatchSize = 1
    MaxResults = 3
    TopKeywords = 2
    AdLimit = 3
    CandidateLimit = 2
    ObservationLimit = 3
    MaxCommits = 2
    MaxMonths = 1
INVARIANTS
    SurveyTypeOK
    OverviewIsRanked
PROPERTIES
    SurveyReachesTheOverview
    SurveysAreWhole

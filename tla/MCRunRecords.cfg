SPECIFICATION RecordsSpec
CONSTANTS
    a = a
    b = b
    c = c
    s1 = s1
    s2 = s2
    a1 = a1
    a2 = a2
    NoJob = NoJob
    NoRow = NoRow
    Runs <- MCRuns
    Sources <- MCSources
    Agents <- MCAgents
    Costs <- MCCosts
    Maximum = 3
    MaxRepairs = 2
INVARIANTS
    TypeOK
    SummaryIsOfTheRun
    ProblemsAreReported
    AgentTypeOK
    OverspendsByOneCall
    CommittedRunsAreOver
PROPERTIES
    JobKeepsItsIdentity
    EveryRunEnds

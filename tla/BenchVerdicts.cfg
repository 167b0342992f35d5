\* The code's threshold of 3 and clamp of 0.01..5.0; tensors and histories of four rows.
SPECIFICATION QuestionSpec
CONSTANTS
    c1 = c1
    c2 = c2
    c3 = c3
    c4 = c4
    c5 = c5
    r = r
    s = s
    Cards = {c1, c2, c3, c4, c5}
    Legendary = {c1, c2, c3, c4}
    Threshold = 3
    Databases <- MCDatabases
    DataSets <- MCDataSets
    Grid <- MCGrid
    ClampMin = 4
    ClampMax = 2000
    GemCandidates = {c1, c2, c3, c4}
    GemRules = {r, s}
    Contributions <- MCContributions
    OurTop = {c1, c2, c3}
    EdhrecTop = {c1}
    MaxTensorRows = 4
    TrendRows <- MCTrendRows
    Window = 3
    MaxHistoryRows = 4
    Families <- MCFamilies
    MaxPorts = 2
    Contexts <- MCContexts
    Vocab <- MCVocab
    GraphCards <- MCGraphCards
    MaxGraphCards = 4
    Leaves <- MCLeaves
    MaxLeaves = 3
    MaxConnectives = 2
    QueryRows <- MCQueryRows
    CommanderSets <- MCCommanderSets
    RuleIds = {"m", "n"}
    Bodies <- MCBodies
INVARIANTS
    CoverageOnlyHelps
    SelfTestTells
    GemsBeatHalf
    BoundariesSplitGroups
    DeltasTelescope
    MirrorsAgree
    RowOrderIrrelevant
    NarrowedScansAreWhole
    GraphMetricsAgree
    CompilersAgree
    RoutedRulesRun
CHECK_DEADLOCK FALSE

\* The weights the repository ships.
SPECIFICATION Spec
CONSTANTS
    c1 = c1
    c2 = c2
    c3 = c3
    c4 = c4
    c5 = c5
    r = r
    s = s
    Cards = {c1, c2, c3, c4, c5}
    Legendary = {c1, c2, c3, c4}
    Threshold = 3
    Databases <- MCDatabases
    DataSets <- MCShipped
    Grid <- MCGrid
    ClampMin = 4
    ClampMax = 2000
    GemCandidates = {c1, c2, c3, c4}
    GemRules = {r, s}
    Contributions <- MCContributions
    OurTop = {c1, c2, c3}
    EdhrecTop = {c1}
    MaxTensorRows = 4
    TrendRows <- MCTrendRows
    Window = 3
    MaxHistoryRows = 4
INVARIANTS
    GridUndoesPlant
CHECK_DEADLOCK FALSE

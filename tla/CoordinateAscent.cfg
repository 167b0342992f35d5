\* eps_step and eps_cumulative are equal, as in OptimizerConfig.  Both surfaces range over 27 shapes; three sweeps are enough to converge.
SPECIFICATION Spec
CONSTANTS
    a = a
    b = b
    NoGem = NoGem
    RuleKeys <- MCRuleKeys
    Baseline <- MCBaseline
    Grid <- MCGrid
    ClampMin = 1
    ClampMax = 4
    Objectives <- MCObjectives
    EpsStep = 2
    EpsCumulative = 2
    MaxSweeps = 3
INVARIANTS
    TypeOK
    HeldWithinDrift
    MetricsOfWeights
    CountersMatchHistory
    HistoryExplainsWeights
    AcceptedStepsClimb
    ConvergedIsLocalOptimum
PROPERTIES
    ImplementsGuardedClimb
CHECK_DEADLOCK FALSE

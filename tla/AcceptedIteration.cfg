\* One surface on which a rule's weight leaves a value and comes back to it.
SPECIFICATION Spec
CONSTANTS
    a = a
    b = b
    NoGem = NoGem
    RuleKeys <- MCRuleKeys
    Baseline <- MCOnes
    Grid <- MCGrid
    ClampMin = 1
    ClampMax = 4
    Objectives <- MCReturning
    EpsStep = 1
    EpsCumulative = 2
    MaxSweeps = 5
INVARIANTS
    IterationProducedValue
CHECK_DEADLOCK FALSE

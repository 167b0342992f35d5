SPECIFICATION FairSpec
CONSTANTS
    g1 = g1
    g2 = g2
    g3 = g3
    g4 = g4
    ruleA = ruleA
    ruleB = ruleB
    ruleC = ruleC
    tmplX = tmplX
    tmplY = tmplY
    NoGap = NoGap
    Partial = Partial
    Queue <- MCQueue
    RuleOf <- MCRuleOf
    TemplateOf <- MCTemplateOf
    Closing <- MCClosing
    Severity <- MCSeverity
    Declarative <- MCDeclarative
    MaxWalk = 3
    MaxSessions = 1
    MaxCrashes = 0
PROPERTIES
    SkippedGapIsPassedOver
CHECK_DEADLOCK FALSE

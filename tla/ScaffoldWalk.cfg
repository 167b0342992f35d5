\* Two processes, one of which may be killed, in a file write too.
SPECIFICATION FairSpec
CONSTANTS
    g1 = g1
    g2 = g2
    g3 = g3
    g4 = g4
    ruleA = ruleA
    ruleB = ruleB
    ruleC = ruleC
    tmplX = tmplX
    tmplY = tmplY
    NoGap = NoGap
    Partial = Partial
    Queue <- MCQueue
    RuleOf <- MCRuleOf
    TemplateOf <- MCTemplateOf
    Closing <- MCClosing
    Severity <- MCSeverity
    Declarative <- MCDeclarative
    MaxWalk = 2
    MaxSessions = 2
    MaxCrashes = 1
INVARIANTS
    TypeOK
    ImportableOutsideWrites
    RevertRestoresTree
    RegisteredRulesAreLogged
    NoUnforcedRetry
    SummaryMatchesLog
PROPERTIES
    AttemptShrinksQueue
    ProcessEnds
CHECK_DEADLOCK FALSE

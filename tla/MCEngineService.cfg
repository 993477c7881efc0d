SPECIFICATION Spec
CONSTANTS
    p1 = p1
    p2 = p2
    fraud = fraud
    credit = credit
    r1 = r1
    r2 = r2
    amount = amount
    score = score
    broken = broken
    Blank = Blank
    Procs <- MCProcs
    Codes <- MCCodes
    RuleCodes <- MCRuleCodes
    Exprs <- MCExprs
    Compilable <- MCCompilable
    Definitions <- MCDefinitions
    MaxVersion = 2
    MaxPublishes = 3
INVARIANTS TypeOK LatestIsGreatest EvaluatesRecentRules
PROPERTIES CallsReturn ImplementsRegistry
CHECK_DEADLOCK FALSE

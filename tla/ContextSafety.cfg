CONSTANTS
    Visitor = visitor
    Known = known
    Nobody = nobody
    i1 = i1
    i2 = i2
    Interactions = {i1, i2}
    Never = never
    MaxWords = 3
    i3 = i3
    f1 = f1
    f2 = f2
    Fields = {f1, f2}
    BuiltIn <- MCBuiltIn
    Definitions <- MCDefinitions
    NoDefinition = NoDefinition
    Calls <- MCCalls
    NoCall = NoCall
    Absent = Absent
    Bad = bad
    w1 = w1
    ApiKeys = {k1}
    Days = {3, 4}
    Life = 2
    LastHour = 2
    Expiries = {2, 4}
    Signals = {s1, s2}
    LabelOf <- MCLabels
    DecisionNames = {d1, d2}
    OutcomeNames = {o1}
    Variants = {v1}
    NotSent = 0
    MaxRetrievals = 1
    MaxDecisions = 2
    LateBy = 1
    UseRetained = 1
    LastDayOfUse = 3
SPECIFICATION ContextSpec
SYMMETRY MCSymmetry
VIEW SideView
INVARIANTS
    ContextTypeOK
    RefusalsHold
    
    ContractKept
PROPERTIES
    UseIsPermitted
CHECK_DEADLOCK FALSE

SPECIFICATION Spec
CONSTANTS
    Languages <- OneLanguage
    Asks <- AskAll
    p = p
    q = q
    r = r
    Pages <- TwoPages
    Kept <- TwoPages
    NumArticles = 2
    NumQueries = 1
    Order <- MCOrder
    Tools <- AllTools
    MaxRuns <- Once
    Interruptible <- AllTools
    All = "all"
    Nothing = Nothing
    Absent = Absent
    Torn = Torn
SYMMETRY Alike2
CHECK_DEADLOCK FALSE
INVARIANT AllDocumentsLoaded

SPECIFICATION Spec
CONSTANTS
    Languages <- OneLanguage
    Asks <- AskAll
    p = p
    q = q
    r = r
    Pages <- MCPages
    Kept <- MCPages
    NumArticles = 3
    NumQueries = 1
    Order <- MCOrder
    Tools <- AllTools
    MaxRuns <- Seeding
    Interruptible = {}
    All = "all"
    Nothing = Nothing
    Absent = Absent
    Torn = Torn
SYMMETRY Alike
CHECK_DEADLOCK FALSE
INVARIANTS SeededInFull MismatchOnlyAcrossRuns PositionsMeanDocuments

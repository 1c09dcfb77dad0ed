SPECIFICATION CorpusSpec
CONSTANTS
    Languages <- MCLanguages
    Asks <- Everything
    p = p
    q = q
    short = short
    Pages <- MCPages
    Kept <- MCKept
    NumArticles = 2
    NumQueries = 1
    Order <- MCOrder
    Tools <- CorpusTools
    MaxRuns <- Twice
    Interruptible <- CorpusTools
    All = "all"
    Nothing = Nothing
    Absent = Absent
    Torn = Torn
CHECK_DEADLOCK FALSE
INVARIANTS CorpusTypeOK CompletedCollectionsAgree CompletedRunsAgree SplitIsClean
SYMMETRY Alike

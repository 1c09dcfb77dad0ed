\* Every pair of ranked lists of up to three of four documents; up to three documents in
\* each of two languages, with scores from 0 to 2; k up to one more than the documents;
\* up to three cards, some twice, and citations from 0 to 4.
SPECIFICATION Spec
CONSTANTS
    Docs = {d1, d2, d3, d4}
    MaxLen = 3
    SmoothingConstants = {1, 60}
    MaxDocs = 3
    MaxScore = 2
    MaxK = 4
    MaxCards = 3
INVARIANTS PoolIsTheBest AgreementWins MergingLosesNothing PaddingIsHarmless CitationsAreTheCards
CHECK_DEADLOCK FALSE

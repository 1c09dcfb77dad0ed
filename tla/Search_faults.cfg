\* Two concurrent searches over two seed runs of different corpora, with a crash
\* and a lost connection.
SPECIFICATION Spec
CONSTANTS
    d1 = d1  d2 = d2  d3 = d3
    AI = AI  ai = ai
    Docs <- MCDocs
    Texts = {ai}
    Normal <- MCNormal
    TopKs = {1}
    Reqs = {r1, r2}
    Corpora <- NestedCorpora
    Reachable <- ExactRecall
    Distance <- MCDistance
    Lexical <- MCLexical
    CrossScore <- MCCrossScore
    RRF_K = 60
    RetrievalFloor = 1  RetrievalFactor = 1
    RerankFloor = 1     RerankFactor = 2
    BatchSize = 2
    WarmTopK = 1
    WarmLimit = 0
    NoEntry = NoEntry
    NoRow = NoRow
    RedisStates = {"up"}
    MaxSeeds = 2
    MaxCrashes = 1
    MaxDrops = 1
SYMMETRY Slots
INVARIANTS LogIsAtomic StaleOnlyFromCache SeedComplete
PROPERTIES KeyErrorOnlyIfIndexStale

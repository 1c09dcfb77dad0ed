\* A search and the warming task, with two texts of one normal form, over two seed
\* runs, with a lost connection.
SPECIFICATION Spec
CONSTANTS
    d1 = d1  d2 = d2  d3 = d3
    AI = AI  ai = ai
    Docs <- MCDocs
    Texts = {AI, ai}
    Normal <- MCNormal
    TopKs = {2}
    Reqs = {r1}
    Corpora <- MCCorpora
    Reachable <- ExactRecall
    Distance <- MCDistance
    Lexical <- MCLexical
    CrossScore <- MCCrossScore
    RRF_K = 60
    RetrievalFloor = 1  RetrievalFactor = 1
    RerankFloor = 1     RerankFactor = 2
    BatchSize = 2
    WarmTopK = 2
    WarmLimit = 2
    NoEntry = NoEntry
    NoRow = NoRow
    RedisStates = {"up", "down"}
    MaxSeeds = 2
    MaxCrashes = 0
    MaxDrops = 1
INVARIANTS TypeOK CacheEntryFitsKey LiveResultsExist
PROPERTIES FreshWrites

\* Liveness: searches without end and the warming task beside two seed runs, over an
\* approximate index, with Redis answering, refusing and stalling.
SPECIFICATION FairSpec
CONSTANTS
    d1 = d1  d2 = d2  d3 = d3
    AI = AI  ai = ai
    Docs <- MCDocs
    Texts = {ai}
    Normal <- MCNormal
    TopKs = {1}
    Reqs = {r1}
    Corpora <- NestedCorpora
    Reachable <- MissesOne
    Distance <- MCDistance
    Lexical <- MCLexical
    CrossScore <- MCCrossScore
    RRF_K = 60
    RetrievalFloor = 1  RetrievalFactor = 1
    RerankFloor = 1     RerankFactor = 2
    BatchSize = 1
    WarmTopK = 1
    WarmLimit = 1
    NoEntry = NoEntry
    NoRow = NoRow
    RedisStates = {"up", "down", "stalled"}
    MaxSeeds = 2
    MaxCrashes = 0
    MaxDrops = 0
PROPERTIES AnsweredUnlessRedisHangs CacheConverges SeedEnds

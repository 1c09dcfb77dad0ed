SPECIFICATION Spec
CONSTANTS
    Requests = {r1, r2}
    Seeder = Seeder
    PoolSizes = {1, 2}
    Concurrency = 1
INVARIANTS TypeOK StuckOnlyThroughTruncate OnlyCorpusReadsDie
PROPERTIES EveryRequestEnds TruncateEnds

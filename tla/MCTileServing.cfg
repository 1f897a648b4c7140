SPECIFICATION MCSpec
CONSTANTS
    c1 = c1  c2 = c2
    Callers = {c1, c2}
    Archives = {a1, a2}
    Chunks <- MCChunks
    NoArchive = NoArchive
    MaxU64 = 100
    MaxFetchChunks = 3
    MaxChunkGap = 1
    MaxConcurrent = 2
    GroupPermits = 2
    FetchPermits = 1
    Scenarios <- MCScenarios
    TileScenarios <- MCTileScenarios
    Requests = {1, 2}
    Concurrency = 1
    MaxInflight = 2
    NegativeTtl = 1
    MaxGeneration = 2
    MaxFaults = 1
    MaxCancels = 1
    Horizon = 1
CHECK_DEADLOCK FALSE
INVARIANTS
    FetchesSound
    GenerationPinned
    CpuBounded
    DegradedLabelled
PROPERTIES
    TilesAnswered

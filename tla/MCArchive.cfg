SPECIFICATION MCSpec
CONSTANTS
    MaxU64 = 16
    ChunkSizes <- MCChunkSizes
    ArchiveLens <- MCArchiveLens
    MaxStart = 9
    MaxLength = 8
    MaxFetchChunks = 3
    MaxChunkGap = 1
    MaxLookups = 2
    WideU64 = 31
    MaxU32 = 15
    MaxTileId = 9
    HeaderSize = 1
    BootstrapBytes = 4
    MaxRangeBytes = 5
    MaxDepth = 2
    a = a  b = b  a1 = a1  b1 = b1
    Nodes = {a, b}
    Tasks = {a1, b1}
    TileGens = {1, 3}
    Interval = 1
    Cooldown = 1
    NoTask = NoTask
CHECK_DEADLOCK FALSE
INVARIANTS
    ReadSound
    LookupExact
    ReadsInside
    OneGeneration
PROPERTIES
    DueReobserved
    RequestsReturn

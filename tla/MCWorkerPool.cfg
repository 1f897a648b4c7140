\* Two tasks in a pool of two slots, of a dying slot, and of a retiring slot.
CONSTANTS
    w1 = w1  w2 = w2
    t1 = t1  t2 = t2
    p1 = p1  p2 = p2
    x1 = x1
    None = None
    Workers = {w1, w2}
    Tasks = {t1, t2}
    Profiles = {p1, p2}
    Sources = {x1}
    Cacheable = {x1}
    ProfileOf <- MCProfileOf
    PartitionOf <- MCPartitionOf
    ShapeOf <- MCShapeOf
    SourceOf <- MCSourceOf
    HintOf <- MCHintOf
    BLCapacity = 1
    QueueLimit = 2
    RenderPermits = 2
    NativePermits = 1
    SourceCacheCapacity = 1
    Scenarios <- MCScenarios
SPECIFICATION Spec
CHECK_DEADLOCK FALSE
INVARIANTS
    AccountingExact
    NativeOnce
    SetupsSound
PROPERTIES
    TasksSettle

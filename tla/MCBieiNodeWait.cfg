SPECIFICATION MCSpec
CONSTANTS
    c1 = c1  c2 = c2  c3 = c3
    k1 = k1  s1 = s1  l1 = l1  l2 = l2
    n1 = n1  n2 = n2  n3 = n3
    t1 = t1  t2 = t2
    \* three callers contend for one key across an invalidation
    Callers = {c1, c2, c3}
    Keys <- HotKeys
    Styles <- HotStyles
    StyleOf <- HotStyleOf
    Namespaces = {l1, l2}
    Grant <- HotGrant
    MaxEpoch = 1
    \* three nodes, two tasks
    None = None
    Nodes = {n1, n2, n3}
    Tasks = {t1, t2}
    BLCapacity = 1
    QueueCapacity = 2
    DrainMaxQueue = 2
CHECK_DEADLOCK FALSE
INVARIANTS
    NoWaitCycle

SPECIFICATION MCSpec
CONSTANTS
    c1 = c1  c2 = c2  c3 = c3
    k1 = k1  k2 = k2  b1 = b1  b2 = b2  e1 = e1
    Calls = {c1, c2, c3}
    Keys = {k1, k2}
    Bodies = {b1, b2}
    KeyOf <- MCKeyOf
    BodyOf <- MCBodyOf
    Earlier = Earlier
    NoRef = NoRef
    Versioned = TRUE
    Scenarios <- MCScenarios
    Registries <- MCRegistries
    Requests = {1, 2}
    Interval = 2
    Cooldown = 1
    Timeout = 1
    Horizon = 6
INVARIANTS
    AppliedOnce
    RecordsTrue
PROPERTIES
    Reconciled
    RevisionForward
    StaleVisible
    RequestsAnswered

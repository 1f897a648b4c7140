SPECIFICATION Spec
CONSTANTS
    r1 = r1  r2 = r2  f1 = f1  f2 = f2  k1 = k1
    Keys = {k1}
    Requests = {r1, r2}
    Refreshers = {f1, f2}
    KeyOf <- MCKeyOf
    Absent = {1}
    NoWorker = NoWorker
    MaxVersion = 2
    Scenarios <- MCScenarios
CHECK_DEADLOCK FALSE
SYMMETRY Alike
INVARIANTS
    FreshAfterHint
    RevalidatesStale
    FlightsSound

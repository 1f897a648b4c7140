SPECIFICATION MCSpec
CONSTANTS
  Workers = {w1}
  Actors = {1, 2, 3}
  MaxDeaths = 1
  MaxSpawnFails = 1
  MaxSlots = 2
  Parts = 2
  Capacity = 2
  Loads = {1, 2}
  Lane = 1
  BodyPermits = 1
  MaxAttempts = 2
  MaxDeferral = 1
  NegativeTtl = 1
  CooldownTtl = 1
  FallbackTtl = 1
  Horizon = 4
  Requests = {r1, r2}
  Scenarios <- MCScenarios
  r1 = r1
  r2 = r2
  PublicLimit = 1
  ForwardLimit = 1
  ProcessBudget = 21
  DrainGrace = 10
  Reserve = 2
  PublishTimeout = 1
  HttpGrace = 12
  Callers = {1, 2}
  Ttl = 2
  MaxEpoch = 2
CHECK_DEADLOCK FALSE
INVARIANTS
    ShutdownInBudget
    ViewCurrent
    OrphansExact
    
    AnswersFit
PROPERTIES
    GateSafe
    SlotsRecover
    NothingHangs

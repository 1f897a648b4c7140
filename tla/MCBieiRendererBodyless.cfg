SPECIFICATION Spec
CONSTANTS
  Workers = {w1}
  Actors = {1, 2, 3}
  MaxDeaths = 1
  MaxSpawnFails = 1
  MaxSlots = 2
  Parts = 2
  Capacity = 2
  Loads = {1, 2}
  Lane = 1
  BodyPermits = 1
  MaxAttempts = 2
  MaxDeferral = 1
  NegativeTtl = 1
  CooldownTtl = 1
  FallbackTtl = 1
  Horizon = 4
CHECK_DEADLOCK FALSE
INVARIANTS
  BodylessOnlyIfDelivered

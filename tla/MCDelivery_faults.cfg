\* Publisher runs end within the visibility timeout; in the queue deliveries are
\* slow, records late, and promotions lost.
CONSTANTS
  Events = {1, 2}
  Runs = {r1, r2}
  Claims = {1, 2, 3, 4}
  NoClaim = 0
  MaxAttempts = 2
  BatchSize = 2
  Visibility = 2
  BaseDelay = 3
  MaxDelay = 2
  MaxRun = 1
  ReplyLoss = FALSE
  MaxRequeues = 1
  j1 = j1
  j2 = j2
  Jobs = {j1, j2}
  Effects = {"post"}
  EffectOf <- SharedEffect
  Keyed = {"post"}
  Slots = {r1, r2}
  Promoters = {"promoter"}
  JobMaxAttempts = 2
  Slow = TRUE
  LateRecord = TRUE
  PromoterDies = TRUE
  MaxDrops = 1
  MaxEntries = 2
SYMMETRY DeliverySymmetry
CHECK_DEADLOCK FALSE
SPECIFICATION DeliverySpec
INVARIANTS TypeOK OneOwner AttemptsBounded KeyedEffectOnce
PROPERTY LifecycleSpec

\* Deliveries end within the visibility timeout, a push writes its record
\* before a Worker claims the entry, promoters break off at most after the XADD.
CONSTANTS
  j1 = j1
  j2 = j2
  send = send
  post = post
  Jobs = {j1, j2}
  Effects = {post, send}
  EffectOf <- OwnEffects
  Keyed = {post}
  Slots = {d1, d2}
  Promoters = {p1}
  JobMaxAttempts = 2
  Slow = FALSE
  LateRecord = FALSE
  PromoterDies = FALSE
  MaxDrops = 1
  MaxEntries = 6
SPECIFICATION JobsFairSpec
INVARIANT JobsTypeOK
PROPERTIES DeliveryIsOwed EventuallyFinished
CHECK_DEADLOCK FALSE

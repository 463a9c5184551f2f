\* A Worker dies once, and nothing else goes wrong.
CONSTANTS
  j1 = j1
  j2 = j2
  send = send
  post = post
  Jobs = {j1}
  Effects = {post}
  EffectOf <- OneEffect
  Keyed = {post}
  Slots = {d1, d2}
  Promoters = {p1}
  JobMaxAttempts = 2
  Slow = FALSE
  LateRecord = FALSE
  PromoterDies = FALSE
  MaxDrops = 1
  MaxEntries = 3
SPECIFICATION JobsSpec
INVARIANT CompletedMeansApplied
CHECK_DEADLOCK FALSE

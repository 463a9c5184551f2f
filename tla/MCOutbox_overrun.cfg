\* Runs overlap and outlast the visibility timeout, and a commit may lose its reply.
CONSTANTS
  Events = {1}
  Runs = {r1, r2}
  Claims = {1, 2, 3}
  NoClaim = 0
  MaxAttempts = 2
  BatchSize = 1
  Visibility = 1
  BaseDelay = 1
  MaxDelay = 1
  MaxRun = 1
  ReplyLoss = TRUE
  MaxRequeues = 1
SPECIFICATION LowestFairSpec
INVARIANTS NothingBeforeCommit NothingLost
PROPERTY EventuallySettled

\* A run that outlasts the visibility timeout, and nothing else goes wrong.
CONSTANTS
  Events = {1}
  Runs = {r1, r2}
  Claims = {c1, c2, c3}
  NoClaim = NoClaim
  MaxAttempts = 2
  BatchSize = 1
  Visibility = 1
  BaseDelay = 1
  MaxDelay = 1
  MaxRun = 1
  ReplyLoss = FALSE
  MaxRequeues = 0
SPECIFICATION Spec
PROPERTY PublishedIsTerminal

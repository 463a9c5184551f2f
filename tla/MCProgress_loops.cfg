\* Any two requests overlap, over two years.
CONSTANTS
  p1 = p1
  p2 = p2
  q1 = q1
  y1 = y1
  y2 = y2
  Years = {y1, y2}
  Periods = {p1, q1}
  YearOf <- YearEach
  FirstOf <- OnlyPeriod
  NoPeriod = NoPeriod
  Txs = {t1, t2}
  NoTx = NoTx
  MaxRevision = 2
  MaxPostings = 1
  Workers = {t1, t2}
  Concurrency = 2
  Work = 4
  MaxBreaks = 2
  Schedulers = {t1, t2}
  Interval <- TwoIntervals
  Broken = {1}
  Pause = 1
  Backoff = 1
  MaxLag = 1
  MaxFailures = 2
SPECIFICATION ProgressSpec
INVARIANTS TypeOK TransitionsMatchEvents FrameHasActivePeriod BatchesAreDrained
PROPERTIES ClosedPeriodsAreFrozen RegisterSpec EveryRequestEnds SchedulersGoOn ShutdownEnds JobsKeepTheirDistance
CHECK_DEADLOCK FALSE

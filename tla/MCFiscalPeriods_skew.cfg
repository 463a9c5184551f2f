\* A year of two periods: one is closed while the other request selects it.
CONSTANTS
  p1 = p1
  p2 = p2
  q1 = q1
  y1 = y1
  y2 = y2
  Years = {y1}
  Periods = {p1, p2}
  YearOf <- OneYear
  FirstOf <- FirstPeriod
  NoPeriod = NoPeriod
  Txs = {t1, t2}
  NoTx = NoTx
  MaxRevision = 2
  MaxPostings = 0
SYMMETRY Symmetry
SPECIFICATION Spec
INVARIANT ActivePeriodIsOpen

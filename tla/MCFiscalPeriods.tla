-------------------------- MODULE MCFiscalPeriods --------------------------
EXTENDS FiscalPeriods, TLC

CONSTANTS p1, p2, q1, y1, y2

\* A year of two periods.
OneYear == p1 :> y1 @@ p2 :> y1
FirstPeriod == y1 :> p1

\* Two years of one period.
YearEach == p1 :> y1 @@ q1 :> y2
OnlyPeriod == y1 :> p1 @@ y2 :> q1

\* Transactions are interchangeable.  Used by safety runs only.
Symmetry == Permutations(Txs)

=============================================================================

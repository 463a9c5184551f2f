----------------------------- MODULE MCProgress -----------------------------
(***************************************************************************)
(* What must come to its end, explored by one run: the requests of         *)
(* accounting that wait for each other's locks, the loops of two Workers   *)
(* and those of two Schedulers.  A behaviour exercises one part and the    *)
(* others stay as they began.                                              *)
(***************************************************************************)
EXTENDS MCFiscalPeriods, WorkerLoop, SchedulerLoop

VARIABLE part

\* Transactions, Workers and Schedulers have the same names, so that one
\* condition of fairness stands for one of each.
ASSUME SameNames == Workers = Txs /\ Schedulers = Txs

\* Two schedules; the payload of the first always throws.
TwoIntervals == <<3, 2>>

progressVars == <<part, vars, workerVars, schedulerVars>>

ProgressInit ==
  /\ part \in {"periods", "workers", "scheduler"}
  /\ Init /\ WorkerInit /\ SchedulerInit

OfPeriods(A) ==
  part = "periods" /\ A /\ UNCHANGED <<part, workerVars, schedulerVars>>
OfWorkers(A) ==
  part = "workers" /\ A /\ UNCHANGED <<part, vars, schedulerVars>>
OfScheduler(A) ==
  part = "scheduler" /\ A /\ UNCHANGED <<part, vars, workerVars>>

ProgressNext ==
  OfPeriods(Next) \/ OfWorkers(WorkerNext) \/ OfScheduler(SchedulerNext)

\* The fairness of each part.  A behaviour stays in its part, so a condition
\* on a disjunction is the condition of that part.
ProgressFairness ==
  /\ WF_progressVars(OfScheduler(Tick))
  /\ \A t \in Txs :
       /\ SF_progressVars(OfPeriods(TxStep(t)))
       /\ WF_progressVars(OfWorkers(WorkerStep(t)) \/ OfScheduler(Turn(t)))
       /\ WF_progressVars(OfWorkers(SettleOne(t)))

ProgressSpec ==
  ProgressInit /\ [][ProgressNext]_progressVars /\ ProgressFairness

\* Schedules go on whatever Schedulers and payloads fail.
SchedulersGoOn == part = "scheduler" => SchedulesGoOn

=============================================================================

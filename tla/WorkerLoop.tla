----------------------------- MODULE WorkerLoop -----------------------------
(***************************************************************************)
(* WorkerRunnerService: the loop of each Worker.  It promotes what is due, *)
(* takes over what other Workers left pending, settles it, claims what is  *)
(* new and settles that.  The jobs of a batch run together, and the loop   *)
(* waits for all of them.  What one delivery does is in JobQueue.          *)
(***************************************************************************)
EXTENDS Naturals

CONSTANTS
  Workers,
  Concurrency,   \* jobs.concurrency
  Work,          \* jobs to be done
  MaxBreaks    \* bound: commands that fail, Workers that die

\* readPositiveInteger('WORKER_CONCURRENCY'), and a finite number of jobs.
ASSUME WorkerConstants == Concurrency \in Nat \ {0} /\ Work \in Nat

VARIABLES
  running,    \* WorkerRunnerService.running
  place,         \* where each loop stands
  inFlight,   \* how many dispatches a Worker has started and not ended
  fresh,      \* entries nobody has claimed
  pending,    \* entries that are idle in the pending list
  breaks

workerVars == <<running, place, inFlight, fresh, pending, breaks>>

-----------------------------------------------------------------------------

Batch(entries) == IF entries <= Concurrency THEN entries ELSE Concurrency
GotoPlace(w, where) == place' = [place EXCEPT ![w] = where]

WorkerInit ==
  /\ running = [w \in Workers |-> TRUE]
  /\ place = [w \in Workers |-> "loop"]
  /\ inFlight = [w \in Workers |-> 0]
  /\ fresh = Work
  /\ pending = 0
  /\ breaks = 0

\* Mutant of TurnLoop: the loop does not look at its flag.
TurnLoopAlways(w) ==
  /\ place[w] = "loop"
  /\ GotoPlace(w, "reclaim")
  /\ UNCHANGED <<running, inFlight, fresh, pending, breaks>>

\* The condition of the loop, and promoteDue.
TurnLoop(w) ==
  /\ place[w] = "loop"
  /\ GotoPlace(w, IF running[w] THEN "reclaim" ELSE "stopped")
  /\ UNCHANGED <<running, inFlight, fresh, pending, breaks>>

\* reclaimStale: the idle entries, as many as the Worker runs at a time.
Reclaim(w) ==
  /\ place[w] = "reclaim"
  /\ LET n == Batch(pending) IN
       /\ pending' = pending - n
       /\ inFlight' = [inFlight EXCEPT ![w] = @ + n]
       /\ GotoPlace(w, IF n = 0 THEN "claim" ELSE "settleStale")
  /\ UNCHANGED <<running, fresh, breaks>>

\* claim: XREADGROUP, blocking for EMPTY_QUEUE_BLOCK_MS at most.
Claim(w) ==
  /\ place[w] = "claim"
  /\ LET n == Batch(fresh) IN
       /\ fresh' = fresh - n
       /\ inFlight' = [inFlight EXCEPT ![w] = @ + n]
       /\ GotoPlace(w, IF n = 0 THEN "loop" ELSE "settle")
  /\ UNCHANGED <<running, pending, breaks>>

\* settleOne: a dispatch ends, or throws and leaves its entry pending.
SettleOne(w) ==
  /\ inFlight[w] > 0
  /\ inFlight' = [inFlight EXCEPT ![w] = @ - 1]
  /\ \/ UNCHANGED <<pending, breaks>>
     \/ /\ breaks < MaxBreaks
        /\ breaks' = breaks + 1
        /\ pending' = pending + 1
  /\ UNCHANGED <<running, place, fresh>>

\* Mutant of Settled: settle is not awaited.
SettledAtOnce(w) ==
  /\ place[w] \in {"settleStale", "settle"}
  /\ GotoPlace(w, IF place[w] = "settleStale" THEN "claim" ELSE "loop")
  /\ UNCHANGED <<running, inFlight, fresh, pending, breaks>>

\* Promise.all over the batch.
Settled(w) ==
  /\ place[w] \in {"settleStale", "settle"} /\ inFlight[w] = 0
  /\ GotoPlace(w, IF place[w] = "settleStale" THEN "claim" ELSE "loop")
  /\ UNCHANGED <<running, inFlight, fresh, pending, breaks>>

\* A command throws: the loop backs off and begins again.  What a claim has
\* delivered before its reply was lost is pending.
LoopError(w) ==
  /\ place[w] \in {"reclaim", "claim"} /\ breaks < MaxBreaks
  /\ breaks' = breaks + 1
  /\ GotoPlace(w, "loop")
  /\ \/ UNCHANGED <<fresh, pending>>
     \/ /\ place[w] = "claim"
        /\ fresh' = fresh - Batch(fresh)
        /\ pending' = pending + Batch(fresh)
  /\ UNCHANGED <<running, inFlight>>

\* onApplicationShutdown: the loop is told, and awaited.
Shutdown(w) ==
  /\ running[w]
  /\ running' = [running EXCEPT ![w] = FALSE]
  /\ UNCHANGED <<place, inFlight, fresh, pending, breaks>>

\* The process is killed: its deliveries stay pending; another one starts.
Die(w) ==
  /\ place[w] # "stopped" /\ breaks < MaxBreaks
  /\ breaks' = breaks + 1
  /\ running' = [running EXCEPT ![w] = TRUE]
  /\ GotoPlace(w, "loop")
  /\ inFlight' = [inFlight EXCEPT ![w] = 0]
  /\ pending' = pending + inFlight[w]
  /\ UNCHANGED fresh

WorkerStep(w) == TurnLoop(w) \/ Reclaim(w) \/ Claim(w) \/ Settled(w)

WorkerNext ==
  \E w \in Workers : WorkerStep(w) \/ SettleOne(w) \/ LoopError(w) \/ Shutdown(w) \/ Die(w)

WorkerSpec == WorkerInit /\ [][WorkerNext]_workerVars

\* A loop goes on, and no execution lasts for ever.
WorkerFairness ==
  \A w \in Workers : WF_workerVars(WorkerStep(w)) /\ WF_workerVars(SettleOne(w))

-----------------------------------------------------------------------------
(* Properties.                                                             *)

\* worker-runner.service.ts: a Worker never has more jobs in flight than its
\* concurrency, and a Worker that has stopped has none: a job is not cut off by
\* a shutdown.
BatchesAreDrained ==
  \A w \in Workers :
    inFlight[w] <= Concurrency /\ (place[w] = "stopped" => inFlight[w] = 0)

\* A Worker that is told to stop, stops, unless it dies first.
ShutdownEnds ==
  \A w \in Workers : ~ running[w] ~> place[w] = "stopped" \/ running[w]

=============================================================================

----------------------------- MODULE LoopsProofs -----------------------------
(***************************************************************************)
(* Proofs about the loops of the two background processes: what a Worker   *)
(* has in flight, and how far apart a Scheduler's jobs are.                *)
(***************************************************************************)
EXTENDS WorkerLoop, SchedulerLoop, SequenceTheorems, TLAPS

-----------------------------------------------------------------------------
(* WorkerLoop, for any number of Workers, any concurrency and any amount   *)
(* of work.  The bound holds because a loop claims only with nothing in    *)
(* flight, which is what it has waited for: a batch is in flight only      *)
(* while the loop settles it.                                              *)

WorkerTypeOK ==
  /\ running \in [Workers -> BOOLEAN]
  /\ place \in [Workers -> {"loop", "reclaim", "settleStale", "claim", "settle", "stopped"}]
  /\ inFlight \in [Workers -> Nat]
  /\ {fresh, pending, breaks} \subseteq Nat

Settling(w) == place[w] \in {"settleStale", "settle"}

OneBatchAtATime ==
  \A w \in Workers : inFlight[w] <= Concurrency /\ (~ Settling(w) => inFlight[w] = 0)

Draining == WorkerTypeOK /\ OneBatchAtATime

\* A batch is what there is, and no more than the concurrency.
LEMMA BatchFits ==
  ASSUME NEW entries \in Nat
  PROVE  /\ Batch(entries) \in Nat /\ entries - Batch(entries) \in Nat
         /\ Batch(entries) <= Concurrency
BY WorkerConstants DEF Batch

\* A step of one loop leaves the places of the others alone.
LEMMA GotoOnly ==
  ASSUME WorkerTypeOK, NEW w \in Workers, NEW where, GotoPlace(w, where)
  PROVE  place'[w] = where /\ \A v \in Workers \ {w} : place'[v] = place[v]
BY DEF WorkerTypeOK, GotoPlace

LEMMA InitDraining == WorkerInit => Draining
BY WorkerConstants DEF WorkerInit, Draining, WorkerTypeOK, OneBatchAtATime, Settling

\* A Worker takes a batch with nothing in flight.
LEMMA TakeKeeps ==
  ASSUME Draining, NEW w \in Workers, Reclaim(w) \/ Claim(w)
  PROVE  Draining'
<1>1. {fresh, pending, breaks} \subseteq Nat /\ inFlight[w] = 0
  BY DEF Draining, WorkerTypeOK, OneBatchAtATime, Reclaim, Claim, Settling
<1>2. PICK n \in Nat : /\ n <= Concurrency
                       /\ inFlight' = [inFlight EXCEPT ![w] = @ + n]
                       /\ n # 0 => place'[w] \in {"settleStale", "settle"}
                       /\ {fresh', pending', breaks'} \subseteq Nat
                       /\ running' = running
                       /\ GotoPlace(w, place'[w])
                       /\ place'[w] \in {"claim", "loop", "settleStale", "settle"}
  <2>1. CASE Reclaim(w)
    BY <1>1, <2>1, BatchFits DEF Reclaim, Draining, WorkerTypeOK, GotoPlace
  <2>2. CASE Claim(w)
    BY <1>1, <2>2, BatchFits DEF Claim, Draining, WorkerTypeOK, GotoPlace
  <2> QED
    BY <2>1, <2>2
<1>3. inFlight'[w] = n /\ \A v \in Workers \ {w} : inFlight'[v] = inFlight[v]
  BY <1>1, <1>2 DEF Draining, WorkerTypeOK
<1>4. WorkerTypeOK'
  BY <1>2, <1>3 DEF Draining, WorkerTypeOK, GotoPlace
<1>5. \A v \in Workers \ {w} : place'[v] = place[v]
  BY <1>2, GotoOnly DEF Draining
<1>6. OneBatchAtATime'
  BY <1>2, <1>3, <1>5 DEF Draining, OneBatchAtATime, Settling
<1> QED
  BY <1>4, <1>6 DEF Draining

\* A step that only moves a loop that has nothing in flight.
LEMMA MoveKeeps ==
  ASSUME Draining, NEW w \in Workers, inFlight[w] = 0,
         TurnLoop(w) \/ Settled(w) \/ LoopError(w)
  PROVE  Draining'
<1>1. /\ inFlight' = inFlight /\ running' = running
      /\ GotoPlace(w, place'[w])
      /\ place'[w] \in {"loop", "reclaim", "claim", "stopped"}
  BY DEF Draining, WorkerTypeOK, TurnLoop, Settled, LoopError, GotoPlace
<1>2. {fresh', pending', breaks'} \subseteq Nat
  <2>1. CASE UNCHANGED <<fresh, pending>>
    BY <2>1 DEF Draining, WorkerTypeOK, TurnLoop, Settled, LoopError
  <2>2. CASE LoopError(w) /\ fresh' = fresh - Batch(fresh) /\ pending' = pending + Batch(fresh)
    <3>1. fresh \in Nat /\ pending \in Nat /\ breaks \in Nat
      BY DEF Draining, WorkerTypeOK
    <3>2. Batch(fresh) \in Nat /\ fresh - Batch(fresh) \in Nat
      BY <3>1, BatchFits
    <3>3. breaks' = breaks + 1
      BY <2>2 DEF LoopError
    <3> QED
      BY <2>2, <3>1, <3>2, <3>3
  <2> QED
    BY <2>1, <2>2 DEF TurnLoop, Settled, LoopError
<1>3. WorkerTypeOK'
  BY <1>1, <1>2 DEF Draining, WorkerTypeOK, GotoPlace
<1>4. \A v \in Workers \ {w} : place'[v] = place[v]
  BY <1>1, GotoOnly DEF Draining
<1>5. OneBatchAtATime'
  BY <1>1, <1>4 DEF Draining, OneBatchAtATime, Settling
<1> QED
  BY <1>3, <1>5 DEF Draining

\* A dispatch that ends, and a Worker that is told to stop or dies.
LEMMA OthersKeep ==
  ASSUME Draining, NEW w \in Workers, SettleOne(w) \/ Shutdown(w) \/ Die(w)
  PROVE  Draining'
<1>1. CASE SettleOne(w)
  <2>1. /\ inFlight' \in [Workers -> Nat]
        /\ \A v \in Workers : inFlight'[v] <= inFlight[v]
    BY <1>1 DEF SettleOne, Draining, WorkerTypeOK
  <2>2. WorkerTypeOK' /\ place' = place
    BY <1>1, <2>1 DEF SettleOne, Draining, WorkerTypeOK
  <2>3. OneBatchAtATime'
    BY <2>1, <2>2, WorkerConstants DEF Draining, WorkerTypeOK, OneBatchAtATime, Settling
  <2> QED
    BY <2>2, <2>3 DEF Draining
<1>2. CASE Shutdown(w)
  BY <1>2 DEF Shutdown, Draining, WorkerTypeOK, OneBatchAtATime, Settling
<1>3. CASE Die(w)
  <2>1. WorkerTypeOK'
    BY <1>3 DEF Die, GotoPlace, Draining, WorkerTypeOK
  <2>2. \A v \in Workers \ {w} : place'[v] = place[v] /\ inFlight'[v] = inFlight[v]
    BY <1>3 DEF Die, GotoPlace, Draining, WorkerTypeOK
  <2>3. inFlight'[w] = 0
    BY <1>3 DEF Die, Draining, WorkerTypeOK
  <2>4. OneBatchAtATime'
    BY <2>2, <2>3, WorkerConstants DEF Draining, OneBatchAtATime, Settling
  <2> QED
    BY <2>1, <2>4 DEF Draining
<1> QED
  BY <1>1, <1>2, <1>3

LEMMA StepDraining == Draining /\ [WorkerNext]_workerVars => Draining'
<1> SUFFICES ASSUME Draining, [WorkerNext]_workerVars PROVE Draining'
  OBVIOUS
<1>1. CASE UNCHANGED workerVars
  BY <1>1 DEF workerVars, Draining, WorkerTypeOK, OneBatchAtATime, Settling
<1>2. ASSUME NEW w \in Workers, WorkerStep(w) \/ LoopError(w) PROVE Draining'
  <2>1. CASE Reclaim(w) \/ Claim(w)
    BY <2>1, TakeKeeps
  <2>2. CASE TurnLoop(w) \/ Settled(w) \/ LoopError(w)
    <3>1. inFlight[w] = 0
      BY <2>2 DEF TurnLoop, Settled, LoopError, Draining, OneBatchAtATime, Settling
    <3> QED
      BY <2>2, <3>1, MoveKeeps
  <2> QED
    BY <1>2, <2>1, <2>2 DEF WorkerStep
<1>3. ASSUME NEW w \in Workers, SettleOne(w) \/ Shutdown(w) \/ Die(w) PROVE Draining'
  BY <1>3, OthersKeep
<1> QED
  BY <1>1, <1>2, <1>3 DEF WorkerNext

\* worker-runner.service.ts: the concurrency bounds what a Worker has in flight,
\* and nothing is cut off by a shutdown.
THEOREM BatchesDrain == WorkerSpec => []BatchesAreDrained
<1>1. Draining => BatchesAreDrained
  BY DEF Draining, OneBatchAtATime, Settling, BatchesAreDrained
<1> QED
  BY InitDraining, StepDraining, <1>1, PTL DEF WorkerSpec

-----------------------------------------------------------------------------
(* SchedulerLoop, for any number of Schedulers and any list of schedules.  *)
(* A slot outlasts the turn of the Scheduler that took it, so as long as a *)
(* turn is shorter than the interval nobody else is about to enqueue the   *)
(* same job; and what is left of a slot, with what has passed since the    *)
(* last job, makes up the interval, but for the time that turn has taken.  *)

Place ==
  [at : {"pause"}, wait : Nat, lag : 0..MaxLag]
    \cup [at : {"claim", "enqueue"}, schedule : Schedules, lag : 0..MaxLag]

SchedulerTypeOK ==
  /\ slot \in [Schedules -> Nat]
  /\ ago \in [Schedules -> Nat] /\ \A s \in Schedules : ago[s] <= Interval[s]
  /\ loop \in [Schedulers -> Place]
  /\ failures \in Nat

Enqueues(p, s) == At(p, "enqueue") /\ ScheduleOf(p) = s

\* A slot taken during this turn has lost no more than the turn has lasted.
SlotOutlastsTurn ==
  \A p \in Schedulers, s \in Schedules :
    Enqueues(p, s) => slot[s] >= Interval[s] - loop[p].lag

\* The last job of a schedule is long enough ago for the next.
LongAgo(s) == ago[s] >= Interval[s] - MaxLag

\* Who is about to enqueue a job is alone, and may.
OneEnqueuesAtATime ==
  \A p \in Schedulers, s \in Schedules :
    Enqueues(p, s) =>
      /\ LongAgo(s)
      /\ \A q \in Schedulers : q # p /\ Enqueues(q, s) => Interval[s] <= MaxLag

SlotMakesUpInterval ==
  \A s \in Schedules : ago[s] + slot[s] >= Interval[s] - MaxLag

Spaced ==
  SchedulerTypeOK /\ SlotOutlastsTurn /\ OneEnqueuesAtATime /\ SlotMakesUpInterval

LEMMA IntervalsAreTimes ==
  /\ Interval \in [Schedules -> Nat \ {0}]
  /\ 1 \in Schedules
  /\ MaxLag \in Nat /\ Pause \in Nat /\ Backoff \in Nat
<1>1. Len(Interval) \in Nat /\ Len(Interval) # 0 /\ DOMAIN Interval = 1..Len(Interval)
  BY SchedulerConstants, EmptySeq, LenProperties
<1> QED
  BY <1>1, SchedulerConstants DEF Schedules

LEMMA AsleepIsPlace ==
  ASSUME NEW wait \in Nat PROVE Asleep(wait) \in Place /\ Asleep(wait).at = "pause"
BY IntervalsAreTimes DEF Asleep, Place

\* What a turn is at, for a Scheduler that is in one.
LEMMA InTurn ==
  ASSUME SchedulerTypeOK, NEW p \in Schedulers, ~ At(p, "pause")
  PROVE  /\ ScheduleOf(p) \in Schedules /\ loop[p].lag \in 0..MaxLag
         /\ loop[p].at \in {"claim", "enqueue"}
BY DEF SchedulerTypeOK, At, ScheduleOf, Place

LEMMA LagIsBounded ==
  ASSUME SchedulerTypeOK, NEW p \in Schedulers
  PROVE  loop[p] \in Place /\ loop[p].lag \in Nat /\ loop[p].lag <= MaxLag
BY IntervalsAreTimes DEF SchedulerTypeOK, Place

LEMMA TurningIsPlace ==
  ASSUME SchedulerTypeOK, NEW p \in Schedulers, NEW where \in {"claim", "enqueue"},
         NEW s \in Schedules
  PROVE  /\ Turning(p, where, s) \in Place
         /\ Turning(p, where, s).at = where /\ Turning(p, where, s).schedule = s
         /\ Turning(p, where, s).lag = loop[p].lag
<1>1. loop[p].lag \in 0..MaxLag
  BY DEF SchedulerTypeOK, Place
<1> QED
  BY <1>1 DEF Turning, Place

LEMMA FollowingIsPlace ==
  ASSUME SchedulerTypeOK, NEW p \in Schedulers
  PROVE  Following(p) \in Place /\ Following(p).at # "enqueue"
BY TurningIsPlace, AsleepIsPlace, IntervalsAreTimes DEF Following

\* One Scheduler goes to a place, the others stay.
LEMMA ResumeOne ==
  ASSUME SchedulerTypeOK, NEW p \in Schedulers, NEW to \in Place, Resume(p, to)
  PROVE  /\ loop' \in [Schedulers -> Place]
         /\ loop'[p] = to /\ \A q \in Schedulers \ {p} : loop'[q] = loop[q]
BY DEF SchedulerTypeOK, Resume

\* A Scheduler goes to a place where it is not about to enqueue, and slots are
\* only renewed.
LEMMA MoveSpaced ==
  ASSUME Spaced, NEW p \in Schedulers, NEW to \in Place,
         Resume(p, to), to.at # "enqueue", ago' = ago, failures' \in Nat,
         slot' \in [Schedules -> Nat], \A s \in Schedules : slot'[s] >= slot[s]
  PROVE  Spaced'
<1>1. SchedulerTypeOK'
  BY ResumeOne DEF Spaced, SchedulerTypeOK
<1>2. \A q \in Schedulers, s \in Schedules :
        Enqueues(q, s)' => q # p /\ Enqueues(q, s) /\ loop'[q] = loop[q]
  BY ResumeOne DEF Spaced, Enqueues, At, ScheduleOf
<1>3. SlotOutlastsTurn'
  <2> SUFFICES ASSUME NEW q \in Schedulers, NEW s \in Schedules, Enqueues(q, s)'
               PROVE  slot'[s] >= Interval[s] - loop'[q].lag
    BY DEF SlotOutlastsTurn, Schedules
  <2>1. slot[s] >= Interval[s] - loop[q].lag /\ loop'[q] = loop[q]
    BY <1>2 DEF Spaced, SlotOutlastsTurn
  <2> QED
    BY <2>1, IntervalsAreTimes, LagIsBounded DEF Spaced, SchedulerTypeOK
<1>4. OneEnqueuesAtATime'
  BY <1>2 DEF Spaced, OneEnqueuesAtATime, LongAgo
<1>5. SlotMakesUpInterval'
  BY IntervalsAreTimes DEF Spaced, SchedulerTypeOK, SlotMakesUpInterval
<1> QED
  BY <1>1, <1>3, <1>4, <1>5 DEF Spaced

\* The slot is free, so nobody who took it in this turn is still to enqueue.
LEMMA TakeSpaced ==
  ASSUME Spaced, NEW p \in Schedulers, At(p, "claim"), slot[ScheduleOf(p)] = 0,
         slot' = [slot EXCEPT ![ScheduleOf(p)] = Interval[ScheduleOf(p)]],
         Resume(p, Turning(p, "enqueue", ScheduleOf(p))), UNCHANGED <<ago, failures>>
  PROVE  Spaced'
<1> DEFINE mine == ScheduleOf(p)
<1>1. mine \in Schedules
  BY InTurn DEF Spaced, At
<1>2. Interval[mine] \in Nat /\ MaxLag \in Nat
  BY <1>1, IntervalsAreTimes
<1>3. /\ slot' \in [Schedules -> Nat] /\ slot'[mine] = Interval[mine]
      /\ \A s \in Schedules \ {mine} : slot'[s] = slot[s]
  BY <1>1, <1>2 DEF Spaced, SchedulerTypeOK
<1>4. /\ loop' \in [Schedulers -> Place]
      /\ loop'[p].schedule = mine /\ loop'[p].lag = loop[p].lag
      /\ \A q \in Schedulers \ {p} : loop'[q] = loop[q]
  BY <1>1, TurningIsPlace, ResumeOne DEF Spaced
<1>5. \A q \in Schedulers, s \in Schedules :
        Enqueues(q, s)' => IF q = p THEN s = mine ELSE Enqueues(q, s)
  BY <1>4 DEF Enqueues, At, ScheduleOf
<1>6. SchedulerTypeOK'
  BY <1>3, <1>4 DEF Spaced, SchedulerTypeOK
<1>7. SlotOutlastsTurn'
  <2> SUFFICES ASSUME NEW q \in Schedulers, NEW s \in Schedules, Enqueues(q, s)'
               PROVE  slot'[s] >= Interval[s] - loop'[q].lag
    BY DEF SlotOutlastsTurn, Schedules
  <2>1. Interval[s] \in Nat /\ slot[s] \in Nat /\ slot'[s] \in Nat
    BY <1>3, IntervalsAreTimes DEF Spaced, SchedulerTypeOK
  <2>2. loop'[q].lag = loop[q].lag /\ loop[q].lag \in Nat
    BY <1>4, LagIsBounded DEF Spaced
  <2>3. CASE s = mine
    BY <1>3, <2>1, <2>2, <2>3
  <2>4. CASE s # mine
    BY <1>3, <1>5, <2>1, <2>2, <2>4 DEF Spaced, SlotOutlastsTurn
  <2> QED
    BY <2>3, <2>4
<1>8. \A q \in Schedulers : Enqueues(q, mine) => Interval[mine] <= MaxLag
  <2> TAKE q \in Schedulers
  <2> HAVE Enqueues(q, mine)
  <2>1. 0 >= Interval[mine] - loop[q].lag
    BY <1>1 DEF Spaced, SlotOutlastsTurn
  <2> QED
    BY <1>2, <2>1, LagIsBounded DEF Spaced
<1>9. OneEnqueuesAtATime'
  <2> SUFFICES ASSUME NEW q \in Schedulers, NEW s \in Schedules, Enqueues(q, s)'
               PROVE  /\ ago[s] >= Interval[s] - MaxLag
                      /\ \A u \in Schedulers :
                           u # q /\ Enqueues(u, s)' => Interval[s] <= MaxLag
    BY DEF OneEnqueuesAtATime, LongAgo, Schedules
  <2>1. CASE s = mine
    <3>1. ago[mine] + slot[mine] >= Interval[mine] - MaxLag /\ ago[mine] \in Nat
      BY <1>1 DEF Spaced, SlotMakesUpInterval, SchedulerTypeOK
    <3> QED
      BY <1>2, <1>5, <1>8, <2>1, <3>1
  <2>2. CASE s # mine
    BY <1>5, <2>2 DEF Spaced, OneEnqueuesAtATime, LongAgo
  <2> QED
    BY <2>1, <2>2
<1>10. SlotMakesUpInterval'
  <2> SUFFICES ASSUME NEW s \in Schedules
               PROVE  ago[s] + slot'[s] >= Interval[s] - MaxLag
    BY DEF SlotMakesUpInterval, Schedules
  <2>1. /\ Interval[s] \in Nat /\ slot[s] \in Nat /\ slot'[s] \in Nat /\ ago[s] \in Nat
        /\ ago[s] + slot[s] >= Interval[s] - MaxLag
    BY <1>3, IntervalsAreTimes DEF Spaced, SchedulerTypeOK, SlotMakesUpInterval
  <2> QED
    BY <1>2, <1>3, <2>1
<1> QED
  BY <1>6, <1>7, <1>9, <1>10 DEF Spaced

\* The job is enqueued, and what is left of the slot makes up the interval.
LEMMA EnqueueSpaced ==
  ASSUME Spaced, NEW p \in Schedulers, At(p, "enqueue"),
         NEW to \in Place, to.at # "enqueue", Resume(p, to),
         ago' = [ago EXCEPT ![ScheduleOf(p)] = 0], slot' = slot, failures' \in Nat
  PROVE  Spaced'
<1> DEFINE mine == ScheduleOf(p)
<1>1. mine \in Schedules /\ Enqueues(p, mine)
  BY InTurn DEF Spaced, At, Enqueues
<1>2. /\ ago' \in [Schedules -> Nat] /\ ago'[mine] = 0
      /\ \A s \in Schedules \ {mine} : ago'[s] = ago[s]
      /\ \A s \in Schedules : ago'[s] <= Interval[s]
  <2>1. /\ ago' \in [Schedules -> Nat] /\ ago'[mine] = 0
        /\ \A s \in Schedules \ {mine} : ago'[s] = ago[s]
    BY <1>1 DEF Spaced, SchedulerTypeOK
  <2>2. \A s \in Schedules : ago[s] <= Interval[s] /\ Interval[s] \in Nat
    BY IntervalsAreTimes DEF Spaced, SchedulerTypeOK
  <2> QED
    BY <2>1, <2>2
<1>3. SchedulerTypeOK'
  BY <1>2, ResumeOne DEF Spaced, SchedulerTypeOK
<1>4. \A q \in Schedulers, s \in Schedules :
        Enqueues(q, s)' => q # p /\ Enqueues(q, s) /\ loop'[q] = loop[q]
  BY ResumeOne DEF Spaced, Enqueues, At, ScheduleOf
<1>5. SlotOutlastsTurn'
  <2> SUFFICES ASSUME NEW q \in Schedulers, NEW s \in Schedules, Enqueues(q, s)'
               PROVE  slot[s] >= Interval[s] - loop'[q].lag
    BY DEF SlotOutlastsTurn, Schedules
  <2> QED
    BY <1>4 DEF Spaced, SlotOutlastsTurn
<1>6. OneEnqueuesAtATime'
  <2> SUFFICES ASSUME NEW q \in Schedulers, NEW s \in Schedules, Enqueues(q, s)'
               PROVE  /\ ago'[s] >= Interval[s] - MaxLag
                      /\ \A u \in Schedulers :
                           u # q /\ Enqueues(u, s)' => Interval[s] <= MaxLag
    BY DEF OneEnqueuesAtATime, LongAgo, Schedules
  <2>1. /\ q # p /\ Enqueues(q, s)
        /\ ago[s] >= Interval[s] - MaxLag
        /\ \A u \in Schedulers : u # q /\ Enqueues(u, s) => Interval[s] <= MaxLag
    BY <1>4 DEF Spaced, OneEnqueuesAtATime, LongAgo
  <2>2. ago'[s] >= Interval[s] - MaxLag
    <3>1. CASE s = mine
      BY <1>1, <1>2, <2>1, <3>1, IntervalsAreTimes
    <3>2. CASE s # mine
      BY <1>2, <2>1, <3>2
    <3> QED
      BY <3>1, <3>2
  <2> QED
    BY <1>4, <2>1, <2>2
<1>7. SlotMakesUpInterval'
  <2> SUFFICES ASSUME NEW s \in Schedules
               PROVE  ago'[s] + slot[s] >= Interval[s] - MaxLag
    BY DEF SlotMakesUpInterval, Schedules
  <2>1. Interval[s] \in Nat /\ slot[s] \in Nat /\ MaxLag \in Nat
    BY IntervalsAreTimes DEF Spaced, SchedulerTypeOK
  <2>2. CASE s = mine
    <3>1. slot[s] >= Interval[s] - loop[p].lag /\ loop[p].lag \in Nat /\ loop[p].lag <= MaxLag
      BY <1>1, <2>2, LagIsBounded DEF Spaced, SlotOutlastsTurn
    <3> QED
      BY <1>2, <2>1, <2>2, <3>1
  <2>3. CASE s # mine
    BY <1>2, <2>3 DEF Spaced, SlotMakesUpInterval
  <2> QED
    BY <2>2, <2>3
<1> QED
  BY <1>3, <1>5, <1>6, <1>7 DEF Spaced

\* Slots run down as fast as the turns grow long and jobs grow old.
LEMMA TickSpaced == ASSUME Spaced, Tick PROVE Spaced'
<1>1. \A p \in Schedulers : /\ loop'[p] = Later(p) /\ loop'[p] \in Place
                            /\ Due(p) => loop'[p] = [loop[p] EXCEPT !.lag = @ + 1]
  <2> TAKE p \in Schedulers
  <2>1. loop[p] \in Place /\ loop[p].lag \in Nat /\ MaxLag \in Nat
    BY LagIsBounded, IntervalsAreTimes DEF Spaced
  <2>2. loop'[p] = Later(p)
    BY DEF Tick
  <2>3. CASE Due(p)
    <3>1. loop[p].lag < MaxLag
      BY <2>3 DEF Tick
    <3>2. loop[p].lag + 1 \in 0..MaxLag
      BY <2>1, <3>1
    <3>3. [loop[p] EXCEPT !.lag = @ + 1] \in Place
      BY <2>1, <3>2 DEF Place
    <3> QED
      BY <2>2, <2>3, <3>3 DEF Later
  <2>4. CASE ~ Due(p)
    <3>1. loop[p].at = "pause" /\ loop[p].wait # 0
      BY <2>4 DEF Due, At
    <3>2. loop[p] \in [at : {"pause"}, wait : Nat, lag : 0..MaxLag]
      BY <2>1, <3>1 DEF Place
    <3>3. [loop[p] EXCEPT !.wait = @ - 1] \in Place
      BY <3>1, <3>2 DEF Place
    <3> QED
      BY <2>2, <2>4, <3>3 DEF Later
  <2> QED
    BY <2>3, <2>4
<1>2. \A p \in Schedulers, s \in Schedules :
        Enqueues(p, s)' => Enqueues(p, s) /\ loop'[p].lag = loop[p].lag + 1
  <2> TAKE p \in Schedulers, s \in Schedules
  <2> HAVE Enqueues(p, s)'
  <2>1. loop'[p].at = "enqueue" /\ loop'[p].schedule = s /\ loop[p] \in Place
    BY LagIsBounded DEF Enqueues, At, ScheduleOf, Spaced
  <2>2. CASE Due(p)
    BY <1>1, <2>1, <2>2 DEF Enqueues, At, ScheduleOf, Place
  <2>3. CASE ~ Due(p)
    BY <1>1, <2>1, <2>3 DEF Later, Due, At, Place
  <2> QED
    BY <2>2, <2>3
<1>3. \A s \in Schedules :
        /\ slot[s] \in Nat /\ ago[s] \in Nat /\ ago[s] <= Interval[s]
        /\ slot'[s] = IF slot[s] = 0 THEN 0 ELSE slot[s] - 1
        /\ ago'[s] = IF ago[s] = Interval[s] THEN ago[s] ELSE ago[s] + 1
  BY DEF Tick, Spaced, SchedulerTypeOK
<1>4. SchedulerTypeOK'
  <2>1. loop' \in [Schedulers -> Place]
    BY <1>1 DEF Tick
  <2>2. slot' \in [Schedules -> Nat]
    BY <1>3 DEF Tick
  <2>3. ago' \in [Schedules -> Nat] /\ \A s \in Schedules : ago'[s] <= Interval[s]
    BY <1>3, IntervalsAreTimes DEF Tick
  <2> QED
    BY <2>1, <2>2, <2>3 DEF SchedulerTypeOK, Spaced, Tick, Schedules
<1>5. SlotOutlastsTurn'
  <2> SUFFICES ASSUME NEW p \in Schedulers, NEW s \in Schedules, Enqueues(p, s)'
               PROVE  slot'[s] >= Interval[s] - loop'[p].lag
    BY DEF SlotOutlastsTurn, Schedules
  <2>1. slot[s] >= Interval[s] - loop[p].lag /\ loop'[p].lag = loop[p].lag + 1
    BY <1>2 DEF Spaced, SlotOutlastsTurn
  <2>2. loop[p].lag \in Nat /\ Interval[s] \in Nat
    BY LagIsBounded, IntervalsAreTimes DEF Spaced
  <2> QED
    BY <1>3, <2>1, <2>2
<1>6. OneEnqueuesAtATime'
  <2> SUFFICES ASSUME NEW p \in Schedulers, NEW s \in Schedules, Enqueues(p, s)'
               PROVE  /\ ago'[s] >= Interval[s] - MaxLag
                      /\ \A q \in Schedulers :
                           q # p /\ Enqueues(q, s)' => Interval[s] <= MaxLag
    BY DEF OneEnqueuesAtATime, LongAgo, Schedules
  <2>1. /\ ago[s] >= Interval[s] - MaxLag
        /\ \A q \in Schedulers : q # p /\ Enqueues(q, s) => Interval[s] <= MaxLag
    BY <1>2 DEF Spaced, OneEnqueuesAtATime, LongAgo
  <2> QED
    BY <1>2, <1>3, <2>1, IntervalsAreTimes
<1>7. SlotMakesUpInterval'
  <2> SUFFICES ASSUME NEW s \in Schedules
               PROVE  ago'[s] + slot'[s] >= Interval[s] - MaxLag
    BY DEF SlotMakesUpInterval, Schedules
  <2> QED
    BY <1>3, IntervalsAreTimes DEF Spaced, SlotMakesUpInterval
<1> QED
  BY <1>4, <1>5, <1>6, <1>7 DEF Spaced

LEMMA InitSpaced == SchedulerInit => Spaced
<1> SUFFICES ASSUME SchedulerInit PROVE Spaced
  OBVIOUS
<1>1. \A p \in Schedulers, s \in Schedules : ~ Enqueues(p, s)
  BY DEF SchedulerInit, Enqueues, At, Asleep
<1>2. SchedulerTypeOK
  BY IntervalsAreTimes, AsleepIsPlace DEF SchedulerInit, SchedulerTypeOK
<1>3. SlotMakesUpInterval
  BY IntervalsAreTimes DEF SchedulerInit, SlotMakesUpInterval
<1> QED
  BY <1>1, <1>2, <1>3 DEF Spaced, SlotOutlastsTurn, OneEnqueuesAtATime

LEMMA FailSpaced == ASSUME Spaced, NEW p \in Schedulers, Fail(p) PROVE Spaced'
<1>1. /\ Asleep(Backoff) \in Place /\ Asleep(Backoff).at # "enqueue"
      /\ Resume(p, Asleep(Backoff)) /\ failures' \in Nat
  <2>1. Asleep(Backoff) \in Place /\ Asleep(Backoff).at # "enqueue"
    BY AsleepIsPlace, IntervalsAreTimes
  <2> QED
    BY <2>1 DEF Fail, Spaced, SchedulerTypeOK
<1>2. slot \in [Schedules -> Nat] /\ ScheduleOf(p) \in Schedules
  BY InTurn DEF Fail, Spaced, SchedulerTypeOK
<1>3. CASE UNCHANGED <<slot, ago>>
  BY <1>1, <1>2, <1>3, MoveSpaced
<1>4. CASE /\ slot[ScheduleOf(p)] = 0 /\ ago' = ago
           /\ slot' = [slot EXCEPT ![ScheduleOf(p)] = Interval[ScheduleOf(p)]]
  <2>1. slot' \in [Schedules -> Nat] /\ \A s \in Schedules : slot'[s] >= slot[s]
    <3>1. Interval[ScheduleOf(p)] \in Nat
      BY <1>2, IntervalsAreTimes
    <3>2. \A s \in Schedules :
            slot'[s] = IF s = ScheduleOf(p) THEN Interval[s] ELSE slot[s]
      BY <1>2, <1>4
    <3>3. slot' \in [Schedules -> Nat]
      BY <1>2, <1>4, <3>1
    <3> QED
      BY <1>2, <1>4, <3>1, <3>2, <3>3
  <2> QED
    BY <1>1, <1>4, <2>1, MoveSpaced
<1>5. CASE /\ At(p, "enqueue") /\ slot' = slot
           /\ ago' = [ago EXCEPT ![ScheduleOf(p)] = 0]
  BY <1>1, <1>5, EnqueueSpaced
<1> QED
  BY <1>3, <1>4, <1>5 DEF Fail

LEMMA TurnSpaced == ASSUME Spaced, NEW p \in Schedulers, Turn(p) PROVE Spaced'
<1>1. slot \in [Schedules -> Nat] /\ failures \in Nat /\ SchedulerTypeOK
  BY DEF Spaced, SchedulerTypeOK
<1>2. \A s \in Schedules : slot[s] >= slot[s]
  BY <1>1
<1>3. CASE Wake(p)
  <2>1. Turning(p, "claim", 1) \in Place /\ Turning(p, "claim", 1).at # "enqueue"
    BY <1>1, TurningIsPlace, IntervalsAreTimes
  <2> QED
    BY <1>1, <1>2, <1>3, <2>1, MoveSpaced DEF Wake
<1>4. CASE ClaimSlot(p)
  <2>1. CASE slot[ScheduleOf(p)] = 0
    BY <1>4, <2>1, TakeSpaced DEF ClaimSlot
  <2>2. CASE slot[ScheduleOf(p)] # 0
    BY <1>1, <1>2, <1>4, <2>2, FollowingIsPlace, MoveSpaced DEF ClaimSlot
  <2> QED
    BY <2>1, <2>2
<1>5. CASE Enqueue(p)
  BY <1>1, <1>5, FollowingIsPlace, EnqueueSpaced DEF Enqueue
<1>6. CASE PayloadThrows(p)
  <2>1. Asleep(Backoff) \in Place /\ Asleep(Backoff).at # "enqueue"
    BY AsleepIsPlace, IntervalsAreTimes
  <2> QED
    BY <1>1, <1>2, <1>6, <2>1, MoveSpaced DEF PayloadThrows
<1> QED
  BY <1>3, <1>4, <1>5, <1>6 DEF Turn

LEMMA StepSpaced == Spaced /\ [SchedulerNext]_schedulerVars => Spaced'
<1> SUFFICES ASSUME Spaced, [SchedulerNext]_schedulerVars PROVE Spaced'
  OBVIOUS
<1>1. CASE UNCHANGED schedulerVars
  <2>1. slot' = slot /\ ago' = ago /\ loop' = loop /\ failures' = failures
    BY <1>1 DEF schedulerVars
  <2> QED
    BY <2>1 DEF Spaced, SchedulerTypeOK, SlotOutlastsTurn, OneEnqueuesAtATime,
                SlotMakesUpInterval, LongAgo, Enqueues, At, ScheduleOf
<1> QED
  BY <1>1, TickSpaced, TurnSpaced, FailSpaced DEF SchedulerNext

\* scheduled-job.service.ts: whoever enqueues a job does so an interval after the
\* last one, less the time a turn may take, however many Schedulers go round.
THEOREM JobsStayApart == SchedulerSpec => JobsKeepTheirDistance
<1>1. Spaced =>
        \A p \in Schedulers : At(p, "enqueue") /\ Enqueue(p) =>
          ago[ScheduleOf(p)] >= Interval[ScheduleOf(p)] - MaxLag
  BY InTurn DEF Spaced, OneEnqueuesAtATime, LongAgo, Enqueues, At
<1> QED
  BY InitSpaced, StepSpaced, <1>1, PTL DEF SchedulerSpec, JobsKeepTheirDistance

=============================================================================

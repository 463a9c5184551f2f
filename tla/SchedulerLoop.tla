--------------------------- MODULE SchedulerLoop ---------------------------
(***************************************************************************)
(* SchedulerRunnerService and ScheduledJobService: any number of           *)
(* Schedulers go round the same list of schedules.  For each one a         *)
(* Scheduler takes the slot of the current interval, a key in Redis that   *)
(* expires after it, and whoever got the slot enqueues the job.  Between   *)
(* the two commands others run, a command fails, or the Scheduler dies.    *)
(*                                                                         *)
(* Time is relative: what is kept is how long a slot or a pause still      *)
(* lasts, and how long ago a job was enqueued.                             *)
(***************************************************************************)
EXTENDS Integers, Sequences

CONSTANTS
  Schedulers,
  Interval,      \* intervalMs of each schedule, in the order of the list
  Broken,        \* the schedules whose payload always throws
  Pause,         \* scheduler.intervalMs
  Backoff,       \* LOOP_ERROR_BACKOFF_MS
  MaxLag,        \* bound: ticks a turn of the loop is late or lasts
  MaxFailures    \* bound: failures that are not those of a payload

\* The intervals of a list that is not empty, and of the loop.
ASSUME SchedulerConstants ==
  /\ Interval \in Seq(Nat \ {0}) /\ Interval # <<>>
  /\ Pause \in Nat /\ Backoff \in Nat /\ MaxLag \in Nat

VARIABLES
  slot,      \* how long the slot of each schedule is still taken
  ago,       \* how long ago its last job was enqueued, up to its interval
  loop,      \* where each Scheduler stands
  failures

schedulerVars == <<slot, ago, loop, failures>>

-----------------------------------------------------------------------------

Schedules == DOMAIN Interval
Asleep(wait) == [at |-> "pause", wait |-> wait, lag |-> 0]
At(p, where) == loop[p].at = where
Due(p) == ~ At(p, "pause") \/ loop[p].wait = 0
ScheduleOf(p) == loop[p].schedule

SchedulerInit ==
  /\ slot = [s \in Schedules |-> 0]
  /\ ago = Interval
  /\ loop = [p \in Schedulers |-> Asleep(0)]
  /\ failures = 0

Resume(p, place) == loop' = [loop EXCEPT ![p] = place]
Turning(p, where, schedule) ==
  [at |-> where, schedule |-> schedule, lag |-> loop[p].lag]

\* The next turn of the loop: promoteDue (see JobQueue), then the first
\* schedule.
Wake(p) ==
  /\ At(p, "pause") /\ Due(p)
  /\ Resume(p, Turning(p, "claim", 1))
  /\ UNCHANGED <<slot, ago, failures>>

Following(p) ==
  IF ScheduleOf(p) + 1 \in Schedules
    THEN Turning(p, "claim", ScheduleOf(p) + 1) ELSE Asleep(Pause)

\* Mutant of ClaimSlot: the slot expires with the pause of the loop.
ClaimSlotBriefly(p) ==
  /\ At(p, "claim")
  /\ IF slot[ScheduleOf(p)] = 0
       THEN /\ slot' = [slot EXCEPT ![ScheduleOf(p)] = Pause]
            /\ Resume(p, Turning(p, "enqueue", ScheduleOf(p)))
       ELSE Resume(p, Following(p)) /\ UNCHANGED slot
  /\ UNCHANGED <<ago, failures>>

\* claimSlot: SET NX PX.  A slot that is taken sends the Scheduler on.
ClaimSlot(p) ==
  /\ At(p, "claim")
  /\ IF slot[ScheduleOf(p)] = 0
       THEN /\ slot' = [slot EXCEPT ![ScheduleOf(p)] = Interval[ScheduleOf(p)]]
            /\ Resume(p, Turning(p, "enqueue", ScheduleOf(p)))
       ELSE Resume(p, Following(p)) /\ UNCHANGED slot
  /\ UNCHANGED <<ago, failures>>

\* JobEnqueuer.enqueue with the payload of this instant.
Enqueue(p) ==
  /\ At(p, "enqueue") /\ ScheduleOf(p) \notin Broken
  /\ ago' = [ago EXCEPT ![ScheduleOf(p)] = 0]
  /\ Resume(p, Following(p))
  /\ UNCHANGED <<slot, failures>>

\* The payload throws: the rest of the list waits for the next turn.
PayloadThrows(p) ==
  /\ At(p, "enqueue") /\ ScheduleOf(p) \in Broken
  /\ Resume(p, Asleep(Backoff))
  /\ UNCHANGED <<slot, ago, failures>>

\* A command fails, with or without its effect, or the Scheduler dies and is
\* started again.  Nobody gives a slot back.
Fail(p) ==
  /\ failures < MaxFailures
  /\ failures' = failures + 1
  /\ ~ At(p, "pause")
  /\ Resume(p, Asleep(Backoff))
  /\ \/ UNCHANGED <<slot, ago>>
     \/ /\ At(p, "claim") /\ slot[ScheduleOf(p)] = 0
        /\ slot' = [slot EXCEPT ![ScheduleOf(p)] = Interval[ScheduleOf(p)]]
        /\ UNCHANGED ago
     \/ /\ At(p, "enqueue") /\ ScheduleOf(p) \notin Broken
        /\ ago' = [ago EXCEPT ![ScheduleOf(p)] = 0]
        /\ UNCHANGED slot

Later(p) ==
  IF Due(p) THEN [loop[p] EXCEPT !.lag = @ + 1] ELSE [loop[p] EXCEPT !.wait = @ - 1]

\* Mutant of Tick: slots never expire, SET without PX.
TickKeepingSlots ==
  /\ \A p \in Schedulers : Due(p) => loop[p].lag < MaxLag
  /\ ago' = [s \in Schedules |-> IF ago[s] = Interval[s] THEN ago[s] ELSE ago[s] + 1]
  /\ loop' = [p \in Schedulers |-> Later(p)]
  /\ UNCHANGED <<slot, failures>>

\* Time passes, and slots expire.
Tick ==
  /\ \A p \in Schedulers : Due(p) => loop[p].lag < MaxLag
  /\ slot' = [s \in Schedules |-> IF slot[s] = 0 THEN 0 ELSE slot[s] - 1]
  /\ ago' = [s \in Schedules |-> IF ago[s] = Interval[s] THEN ago[s] ELSE ago[s] + 1]
  /\ loop' = [p \in Schedulers |-> Later(p)]
  /\ UNCHANGED failures

Turn(p) == Wake(p) \/ ClaimSlot(p) \/ Enqueue(p) \/ PayloadThrows(p)

SchedulerNext == Tick \/ \E p \in Schedulers : Turn(p) \/ Fail(p)

SchedulerSpec == SchedulerInit /\ [][SchedulerNext]_schedulerVars

\* Time passes, and a Scheduler that runs goes on.
SchedulerFairness ==
  WF_schedulerVars(Tick) /\ \A p \in Schedulers : WF_schedulerVars(Turn(p))

-----------------------------------------------------------------------------
(* Properties.                                                             *)

\* scheduled-job.service.ts: one job per interval, however many Schedulers go
\* round: two jobs of a schedule are an interval apart, less the time a
\* turn may take.
JobsKeepTheirDistance ==
  [][\A p \in Schedulers :
       At(p, "enqueue") /\ Enqueue(p) => ago[ScheduleOf(p)] >= Interval[ScheduleOf(p)] - MaxLag
    ]_schedulerVars

\* A Scheduler that dies with a slot costs one tick, and a schedule whose
\* payload throws does not keep the ones behind it from their turn, as long as
\* its interval is longer than the back-off and a turn: jobs are enqueued again and again.
SchedulesGoOn == \A s \in Schedules \ Broken : []<>(ago[s] = 0)

=============================================================================

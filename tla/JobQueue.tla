------------------------------ MODULE JobQueue ------------------------------
(***************************************************************************)
(* The background job queue on Redis: RedisJobQueue (a stream with one     *)
(* consumer group, a lifecycle record per job, a sorted set of delayed     *)
(* retries), JobDispatcher and RedisIdempotencyGuard.                      *)
(*                                                                         *)
(* One action is one Redis command, or one execution of a job's own code:  *)
(* the processes await between them.  The commands go to one Redis and     *)
(* take effect in one order; a command that throws has taken effect or     *)
(* not.  A delivery slot stands for one of the dispatches a Worker has in  *)
(* flight; a promoter for one promoteDue loop, of a Worker or of the       *)
(* Scheduler.  Time is not counted: an entry may turn out to be idle for   *)
(* longer than JOB_VISIBILITY_TIMEOUT_MS, and a retry to be due, whenever  *)
(* the assumptions (constants) below leave it possible.                    *)
(***************************************************************************)
EXTENDS Integers, Sequences

CONSTANTS
  Jobs,
  Effects,       \* what executing a job brings about
  EffectOf,      \* the effect of each job; a key derives it from the payload
  Keyed,         \* the effects whose job type declares an idempotency key
  Slots,         \* deliveries in flight, over all Workers
  Promoters,     \* loops that run promoteDue
  JobMaxAttempts,   \* jobs.maxAttempts
  Slow,          \* may a live delivery outlast the visibility timeout?
  LateRecord,    \* may an entry be claimed before push wrote its record?
  PromoterDies,  \* may a promoter break off before it has added the attempt?
  MaxDrops,      \* bound: how many deliveries or promotions break off
  MaxEntries     \* bound: entries ever added to the stream

ASSUME JobQueueConstants ==
  /\ EffectOf \in [Jobs -> Effects]
  /\ Keyed \subseteq Effects
  /\ {JobMaxAttempts, MaxEntries} \subseteq Nat \ {0}
  /\ MaxDrops \in Nat
  /\ {Slow, LateRecord, PromoterDies} \subseteq BOOLEAN

VARIABLES
  stream,    \* the entries ever added: job and attempt number
  cursor,    \* the group's last-delivered entry
  pel,       \* the group's pending entries: delivered, not acknowledged
  record,    \* the lifecycle record of each job
  delayed,   \* the sorted set of jobs waiting for their next attempt
  keys,      \* the idempotency keys that are set
  applied,   \* how often each effect was brought about, counted up to 2
  finished,  \* the jobs some dispatch recorded as completed or failed
  producer,  \* where the push of each new job stands
  entry,     \* the stream entry a slot is dispatching
  at,        \* where that dispatch stands
  hand,      \* what a promoter holds, and where it stands
  drops

queueVars == <<stream, cursor, pel, producer>>
slotVars == <<entry, at>>
jobVars == <<queueVars, record, delayed, keys, applied, finished, slotVars, hand,
          drops>>

-----------------------------------------------------------------------------

Attempts == 1 .. JobMaxAttempts
Entries == [job : Jobs, attempt : Attempts]
Statuses == {"none", "queued", "running", "completed", "retrying", "failed"}
JobRecord(status, attempt) == [status |-> status, attempt |-> attempt]

Undelivered == cursor + 1 .. Len(stream)
Unacknowledged == pel \cup Undelivered

JobOf(d) == stream[entry[d]].job
AttemptOf(d) == stream[entry[d]].attempt
EffectIn(d) == EffectOf[JobOf(d)]

Empty(p) == hand[p].at = "idle"

JobsInit ==
  /\ stream = <<>>
  /\ cursor = 0
  /\ pel = {}
  /\ record = [j \in Jobs |-> JobRecord("none", 1)]
  /\ delayed = {}
  /\ keys = {}
  /\ applied = [f \in Effects |-> 0]
  /\ finished = {}
  /\ producer = [j \in Jobs |-> "idle"]
  /\ entry = [d \in Slots |-> 0]
  /\ at = [d \in Slots |-> "idle"]
  /\ hand = [p \in Promoters |-> [at |-> "idle"]]
  /\ drops = 0

-----------------------------------------------------------------------------
(* push, for a new job: XADD first, then the record.                       *)

Add(j, attempt) ==
  /\ Len(stream) < MaxEntries
  /\ stream' = Append(stream, [job |-> j, attempt |-> attempt])

SaveState(j, status, attempt) ==
  record' = [record EXCEPT ![j] = JobRecord(status, attempt)]

\* JobEnqueuer.enqueue reaches the stream.
Enqueue(j) ==
  /\ producer[j] = "idle"
  /\ Add(j, 1)
  /\ producer' = [producer EXCEPT ![j] = "added"]
  /\ UNCHANGED <<cursor, pel, record, delayed, keys, applied, finished,
                 slotVars, hand, drops>>

\* ... and the record.  A producer that died in between never gets here.
EnqueueSaved(j) ==
  /\ producer[j] = "added"
  /\ SaveState(j, "queued", 1)
  /\ producer' = [producer EXCEPT ![j] = "done"]
  /\ UNCHANGED <<stream, cursor, pel, delayed, keys, applied, finished,
                 slotVars, hand, drops>>

-----------------------------------------------------------------------------
(* promoteDue: one member of the delayed set at a time.                    *)

\* ZREM: only the promoter that removes the member goes on with it.
TakeDue(p, j) ==
  /\ Empty(p)
  /\ j \in delayed
  /\ delayed' = delayed \ {j}
  /\ hand' = [hand EXCEPT ![p] = [at |-> "load", job |-> j]]
  /\ UNCHANGED <<queueVars, record, keys, applied, finished, slotVars, drops>>

\* loadState: a job that is not waiting for a retry any more is dropped.
LoadState(p) ==
  /\ hand[p].at = "load"
  /\ LET j == hand[p].job IN
       hand' = [hand EXCEPT ![p] =
         IF record[j].status = "retrying"
           THEN [at |-> "add", job |-> j, attempt |-> record[j].attempt + 1]
           ELSE [at |-> "idle"]]
  /\ UNCHANGED <<queueVars, record, delayed, keys, applied, finished, slotVars,
                 drops>>

\* push, the next attempt: XADD.
Promote(p) ==
  /\ hand[p].at = "add"
  /\ Add(hand[p].job, hand[p].attempt)
  /\ hand' = [hand EXCEPT ![p].at = "save"]
  /\ UNCHANGED <<cursor, pel, producer, record, delayed, keys, applied,
                 finished, slotVars, drops>>

\* push, the next attempt: the record.
PromoteSaved(p) ==
  /\ hand[p].at = "save"
  /\ SaveState(hand[p].job, "queued", hand[p].attempt)
  /\ hand' = [hand EXCEPT ![p] = [at |-> "idle"]]
  /\ UNCHANGED <<queueVars, delayed, keys, applied, finished, slotVars, drops>>

\* The process dies, or Redis answers with an error that ends the loop.  After
\* the XADD only the record is left behind.
PromoterDrops(p) ==
  /\ drops < MaxDrops
  /\ hand[p].at = "save" \/ (PromoterDies /\ ~Empty(p))
  /\ hand' = [hand EXCEPT ![p] = [at |-> "idle"]]
  /\ drops' = drops + 1
  /\ UNCHANGED <<queueVars, record, delayed, keys, applied, finished, slotVars>>

-----------------------------------------------------------------------------
(* A delivery.                                                             *)

GotoSlot(d, where) == at' = [at EXCEPT ![d] = where]

EndDispatch(d) ==
  /\ GotoSlot(d, "idle")
  /\ entry' = [entry EXCEPT ![d] = 0]

\* Some push has added the entry and not yet written its record.
RecordIsLate(i) ==
  \/ stream[i].attempt = 1 /\ producer[stream[i].job] = "added"
  \/ \E p \in Promoters :
       /\ hand[p].at = "save"
       /\ stream[i] = [job |-> hand[p].job, attempt |-> hand[p].attempt]

\* XREADGROUP: the next entry the group has not delivered.
Claim(d) ==
  /\ at[d] = "idle"
  /\ cursor < Len(stream)
  /\ LateRecord \/ ~RecordIsLate(cursor + 1)
  /\ cursor' = cursor + 1
  /\ pel' = pel \cup {cursor + 1}
  /\ entry' = [entry EXCEPT ![d] = cursor + 1]
  /\ GotoSlot(d, "start")
  /\ UNCHANGED <<stream, producer, record, delayed, keys, applied, finished,
                 hand, drops>>

\* Mutant of Reclaim: the scan starts at the group's cursor, not at 0.
ReclaimLatest(d, i) ==
  /\ at[d] = "idle"
  /\ i \in pel /\ i = cursor
  /\ Slow \/ \A o \in Slots : entry[o] # i
  /\ entry' = [entry EXCEPT ![d] = i]
  /\ GotoSlot(d, "start")
  /\ UNCHANGED <<queueVars, record, delayed, keys, applied, finished, hand,
                 drops>>

\* XAUTOCLAIM: a pending entry idle for longer than the visibility timeout.
Reclaim(d, i) ==
  /\ at[d] = "idle"
  /\ i \in pel
  /\ Slow \/ \A o \in Slots : entry[o] # i
  /\ entry' = [entry EXCEPT ![d] = i]
  /\ GotoSlot(d, "start")
  /\ UNCHANGED <<queueVars, record, delayed, keys, applied, finished, hand,
                 drops>>

\* dispatch: the record says running.
Start(d) ==
  /\ at[d] = "start"
  /\ SaveState(JobOf(d), "running", AttemptOf(d))
  /\ GotoSlot(d, "prepare")
  /\ UNCHANGED <<queueVars, delayed, keys, applied, finished, entry, hand,
                 drops>>

\* Mutant of Prepare: the answer of the claim is not looked at.
PrepareAnyway(d) ==
  /\ at[d] = "prepare"
  /\ keys' = keys \cup (Keyed \cap {EffectIn(d)})
  /\ GotoSlot(d, "execute")
  /\ UNCHANGED <<queueVars, record, delayed, applied, finished, entry, hand,
                 drops>>

\* dispatch and execute, up to the job's own code: an unknown type, a missing
\* or contradicted tenant fails; a key that is taken skips; SET NX takes it.
Prepare(d) ==
  /\ at[d] = "prepare"
  /\ \/ EffectIn(d) \notin Keyed /\ GotoSlot(d, "execute") /\ UNCHANGED keys
     \/ EffectIn(d) \in Keyed \cap keys /\ GotoSlot(d, "complete") /\ UNCHANGED keys
     \/ /\ EffectIn(d) \in Keyed \ keys
        /\ keys' = keys \cup {EffectIn(d)}
        /\ at' \in {[at EXCEPT ![d] = "execute"],
                    [at EXCEPT ![d] = "fail"]}  \* the reply was lost
     \/ GotoSlot(d, "fail") /\ UNCHANGED keys
  /\ UNCHANGED <<queueVars, record, delayed, applied, finished, entry, hand,
                 drops>>

\* Mutant of AttemptsRemain: <= for <.
AttemptsRemainOrNone(d) == AttemptOf(d) <= JobMaxAttempts

\* hasAttemptsRemaining
AttemptsRemain(d) == AttemptOf(d) < JobMaxAttempts

\* The catch clause of dispatch, for a failure of that category.
Failed(d, category) ==
  GotoSlot(d, IF category = "retryable" /\ AttemptsRemain(d) THEN "retry" ELSE "fail")

\* definition.execute: the effect, or an error of either category.  A failed
\* execution of a keyed job releases the key first.
Execute(d) ==
  /\ at[d] = "execute"
  /\ LET f == EffectIn(d) IN
       \/ /\ applied' = [applied EXCEPT ![f] = IF @ < 2 THEN @ + 1 ELSE 2]
          /\ GotoSlot(d, "complete")
       \/ /\ \E category \in {"retryable", "unknown"} :
               IF f \in Keyed
                 THEN GotoSlot(d, IF category = "retryable" THEN "releaseRetryable"
                                                        ELSE "releaseUnknown")
                 ELSE Failed(d, category)
          /\ UNCHANGED applied
  /\ UNCHANGED <<queueVars, record, delayed, keys, finished, entry, hand, drops>>

\* DEL of the key.  An error of the DEL itself replaces the job's error.
ReleaseKey(d) ==
  /\ at[d] \in {"releaseRetryable", "releaseUnknown"}
  /\ \/ /\ keys' = keys \ {EffectIn(d)}
        /\ Failed(d, IF at[d] = "releaseRetryable" THEN "retryable" ELSE "unknown")
     \/ /\ keys' \in {keys, keys \ {EffectIn(d)}}
        /\ Failed(d, "unknown")
  /\ UNCHANGED <<queueVars, record, delayed, applied, finished, entry, hand,
                 drops>>

\* The record says completed; an error here takes the failure path.
Complete(d) ==
  /\ at[d] = "complete"
  /\ \/ /\ SaveState(JobOf(d), "completed", AttemptOf(d))
        /\ finished' = finished \cup {JobOf(d)}
        /\ at' \in {[at EXCEPT ![d] = "acknowledge"], [at EXCEPT ![d] = "fail"]}
     \/ GotoSlot(d, "fail") /\ UNCHANGED <<record, finished>>
  /\ UNCHANGED <<queueVars, delayed, keys, applied, entry, hand, drops>>

\* Mutant of SaveRetrying: the entry is acknowledged before the retry is in
\* the delayed set.
SaveRetryingAndAcknowledge(d) ==
  /\ at[d] = "retry"
  /\ SaveState(JobOf(d), "retrying", AttemptOf(d))
  /\ pel' = pel \ {entry[d]}
  /\ GotoSlot(d, "delay")
  /\ UNCHANGED <<stream, cursor, producer, delayed, keys, applied, finished,
                 entry, hand, drops>>

\* scheduleRetry: the record, ...
SaveRetrying(d) ==
  /\ at[d] = "retry"
  /\ SaveState(JobOf(d), "retrying", AttemptOf(d))
  /\ GotoSlot(d, "delay")
  /\ UNCHANGED <<queueVars, delayed, keys, applied, finished, entry, hand,
                 drops>>

\* ... then ZADD.
Delay(d) ==
  /\ at[d] = "delay"
  /\ delayed' = delayed \cup {JobOf(d)}
  /\ GotoSlot(d, "settled")
  /\ UNCHANGED <<queueVars, record, keys, applied, finished, entry, hand, drops>>

\* failTerminally: the record says failed.
FailTerminally(d) ==
  /\ at[d] = "fail"
  /\ SaveState(JobOf(d), "failed", AttemptOf(d))
  /\ finished' = finished \cup {JobOf(d)}
  /\ GotoSlot(d, "settled")
  /\ UNCHANGED <<queueVars, delayed, keys, applied, entry, hand, drops>>

\* XACK.  After a completed execution an error takes the failure path.
Acknowledge(d) ==
  \/ /\ at[d] \in {"acknowledge", "settled"}
     /\ pel' = pel \ {entry[d]}
     /\ EndDispatch(d)
     /\ UNCHANGED <<stream, cursor, producer, record, delayed, keys, applied,
                    finished, hand, drops>>
  \/ /\ at[d] = "acknowledge"
     /\ pel' \in {pel, pel \ {entry[d]}}
     /\ GotoSlot(d, "fail")
     /\ UNCHANGED <<stream, cursor, producer, record, delayed, keys, applied,
                    finished, entry, hand, drops>>

\* The process dies, or a command outside the try of dispatch throws: the
\* entry stays as it is in the group.
Drop(d) ==
  /\ drops < MaxDrops
  /\ at[d] # "idle"
  /\ EndDispatch(d)
  /\ drops' = drops + 1
  /\ UNCHANGED <<queueVars, record, delayed, keys, applied, finished, hand>>

-----------------------------------------------------------------------------

DispatchStep(d) ==
  \/ Start(d) \/ Prepare(d) \/ Execute(d) \/ ReleaseKey(d) \/ Complete(d)
  \/ SaveRetrying(d) \/ Delay(d) \/ FailTerminally(d) \/ Acknowledge(d)

PromoterStep(p) == LoadState(p) \/ Promote(p) \/ PromoteSaved(p)

JobsNext ==
  \/ \E j \in Jobs : Enqueue(j) \/ EnqueueSaved(j)
  \/ \E p \in Promoters :
       \/ \E j \in Jobs : TakeDue(p, j)
       \/ PromoterStep(p) \/ PromoterDrops(p)
  \/ \E d \in Slots :
       \/ Claim(d)
       \/ \E i \in pel : Reclaim(d, i)
       \/ DispatchStep(d) \/ Drop(d)

JobsSpec == JobsInit /\ [][JobsNext]_jobVars

\* The loops go on: a push that is under way ends, somebody claims, reclaims
\* and promotes, and a live dispatch or promotion takes its next step.
JobsFairness ==
  /\ \A j \in Jobs : WF_jobVars(EnqueueSaved(j))
  /\ WF_jobVars(\E d \in Slots : Claim(d))
  /\ WF_jobVars(\E d \in Slots : \E i \in pel : Reclaim(d, i))
  /\ \A j \in Jobs : WF_jobVars(\E p \in Promoters : TakeDue(p, j))
  /\ \A p \in Promoters : WF_jobVars(PromoterStep(p))
  /\ \A d \in Slots : WF_jobVars(DispatchStep(d))

JobsFairSpec == JobsSpec /\ JobsFairness

-----------------------------------------------------------------------------
(* Properties.                                                             *)

Positions == {"idle", "start", "prepare", "execute", "releaseRetryable",
              "releaseUnknown", "complete", "acknowledge", "retry", "delay",
              "fail", "settled"}
Hands == [at : {"idle"}]
           \cup [at : {"load"}, job : Jobs]
           \cup [at : {"add", "save"}, job : Jobs, attempt : Attempts]

\* Every variable keeps its type; in particular no envelope, record or
\* promotion ever carries an attempt beyond the budget (retry.policy.ts: "the
\* attempt budget is bounded by configuration").
JobsTypeOK ==
  /\ stream \in Seq(Entries)
  /\ cursor \in 0 .. Len(stream)
  /\ pel \subseteq 1 .. cursor
  /\ record \in [Jobs -> [status : Statuses, attempt : Attempts]]
  /\ delayed \subseteq Jobs
  /\ keys \subseteq Keyed
  /\ applied \in [Effects -> 0 .. 2]
  /\ finished \subseteq Jobs
  /\ producer \in [Jobs -> {"idle", "added", "done"}]
  /\ entry \in [Slots -> 0 .. cursor]
  /\ at \in [Slots -> Positions]
  /\ hand \in [Promoters -> Hands]
  /\ drops \in 0 .. MaxDrops

\* redis-idempotency.guard.ts: "exactly one caller wins a key".  However the
\* deliveries of the jobs that share a key overlap, break off and repeat, no
\* two of them are executing, and the effect comes about at most once.
KeyedEffectOnce ==
  \A f \in Keyed :
    /\ applied[f] <= 1
    /\ \A d, o \in Slots :
         /\ {at[d], at[o]} \subseteq {"execute"}
         /\ EffectIn(d) = f /\ EffectIn(o) = f
         => d = o

\* job-dispatcher.ts: "every transition is written before the stream entry is
\* acknowledged, so a crash never hides work".  A job that was added and not
\* finished is in the group, in the delayed set or in a promoter's hand.
WorkIsNeverHidden ==
  \A j \in Jobs :
    producer[j] # "idle" =>
      \/ j \in finished \cup delayed
      \/ \E i \in Unacknowledged : stream[i].job = j
      \/ \E p \in Promoters : ~Empty(p) /\ hand[p].job = j

\* job-dispatcher.ts: a job is skipped "when a completed execution already
\* claimed" its key.  A record says completed only of a job whose effect
\* came about.
CompletedMeansApplied ==
  \A j \in Jobs :
    record[j].status = "completed" => applied[EffectOf[j]] > 0

\* The attempts of a job that are owed: those of the entries nobody has acknowledged,
\* those a promoter is about to add, and the one its record asks for while the job
\* is delayed or being loaded.
Entered(j, n) == \E i \in Unacknowledged : stream[i] = [job |-> j, attempt |-> n]
Promoting(j, n) ==
  \E p \in Promoters : hand[p].at = "add" /\ hand[p].job = j /\ hand[p].attempt = n
Loading(j) == \E p \in Promoters : hand[p].at = "load" /\ hand[p].job = j
Asked(j, n) ==
  /\ record[j].status = "retrying" /\ record[j].attempt + 1 = n
  /\ j \in delayed \/ Loading(j)
Owed(j) == {n \in Attempts : Entered(j, n) \/ Promoting(j, n) \/ Asked(j, n)}

\* job-queue.port.ts: "so a crash does not lose work".  Whatever dies, the queue is one
\* that owes attempts of a job until it is finished, each following from the one
\* before, and that brings about nothing on behalf of an attempt it does not owe.
Delivery == INSTANCE AtLeastOnce WITH owed <- [j \in Jobs |-> Owed(j)]
DeliveryIsOwed == Delivery!Spec

\* Jobs that were added are recorded as completed or failed in the end, and none is
\* added that is not: what is added or finished stays so, and there are finitely many.
EventuallyFinished == <>[](\A j \in Jobs : producer[j] # "idle" => j \in finished)

=============================================================================

------------------------------- MODULE Outbox -------------------------------
(***************************************************************************)
(* The transactional outbox: rows written inside a use case's transaction  *)
(* (OutboxRecorder.record, DrizzleOutboxStore.add) and published by runs   *)
(* of OutboxPublisher.publishBatch that any number of Workers execute at   *)
(* the same time.  One action is one SQL statement or one call of the      *)
(* transport: publishBatch awaits between them, so other runs interleave   *)
(* there, and a run may die there.                                         *)
(*                                                                         *)
(* Time is relative.  Instants are integers counted from the present       *)
(* instant, 0; Tick moves every stored instant one step into the past.     *)
(* Instants older than Horizon compare alike with everything the code      *)
(* compares them with, so they are not told apart; a null next_attempt_at  *)
(* ("due now") and a null last_attempt_at are such instants too.           *)
(***************************************************************************)
EXTENDS Integers, FiniteSets

CONSTANTS
  Events,        \* the outbox rows, numbered in (created_at, id) order
  Runs,          \* executions of publishBatch that may overlap
  Claims,        \* the fresh UUIDs a run draws its claim id from
  NoClaim,       \* SQL NULL in claim_id
  MaxAttempts,   \* OUTBOX_MAX_ATTEMPTS
  BatchSize,     \* OUTBOX_BATCH_SIZE
  Visibility,    \* PUBLISHING_VISIBILITY_MS, in ticks
  BaseDelay,     \* OUTBOX_RETRY_BASE_DELAY_MS, in ticks
  MaxDelay,      \* OUTBOX_RETRY_MAX_DELAY_MS, in ticks
  MaxRun,        \* bound: the ticks one run lasts before it settles or dies
  ReplyLoss,     \* may markPublished take effect and still throw?
  MaxRequeues    \* bound: how often an operator requeues

ASSUME OutboxConstants ==
  /\ Events \subseteq Nat
  /\ NoClaim \notin Claims
  /\ {MaxAttempts, BatchSize, Visibility} \subseteq Nat \ {0}
  /\ {BaseDelay, MaxDelay, MaxRun, MaxRequeues} \subseteq Nat
  /\ ReplyLoss \in BOOLEAN

VARIABLES
  tx,         \* the transaction that records the event
  state,      \* outbox_events.state
  attempts,   \* outbox_events.attempt_count
  last,       \* outbox_events.last_attempt_at
  next,       \* outbox_events.next_attempt_at
  claimId,    \* outbox_events.claim_id
  delivered,  \* the events the stream holds, once or more often
  pc,         \* where a run stands
  now,        \* the `now` a run was started with
  claim,      \* the claim id a run drew
  batch,      \* attempt_count of each claimed record a run still has to
              \* settle, as the run read it; 0 for the other records
  requeues

rowVars == <<state, attempts, last, next, claimId>>
runVars == <<pc, now, claim, batch>>
vars == <<tx, rowVars, delivered, runVars, requeues>>

-----------------------------------------------------------------------------

TxStates == {"none", "open", "committed", "rolledback"}
RowStates == {"pending", "publishing", "published", "retrying", "failed"}
RunStates == {"idle", "expire", "recover", "claim", "select",
              "publish", "mark", "transient", "permanent"}

Horizon == MaxRun + Visibility
LongAgo == -Horizon

\* Mutant of Rows: `add` writes on a connection of its own, outside the
\* caller's transaction.
RowsOfAnyTransaction == {e \in Events : tx[e] \in {"open", "committed"}}

Rows == {e \in Events : tx[e] = "committed"}  \* what other connections see
Todo(r) == {e \in Events : batch[r][e] > 0}
Oldest(S) == CHOOSE e \in S : \A f \in S : e <= f

\* Mutant of BackoffDelays: the cap is forgotten.
UncappedDelays(attempt) ==
  LET exponential == BaseDelay * 2 ^ (attempt - 1)
  IN  (exponential + 1) \div 2 .. exponential

\* computeBackoffDelayMs: the exponential term is capped, then jittered to
\* between half of it and all of it, and rounded.
BackoffDelays(attempt) ==
  LET exponential == BaseDelay * 2 ^ (attempt - 1)
      capped == IF exponential < MaxDelay THEN exponential ELSE MaxDelay
  IN  {d \in 0 .. MaxDelay : (capped + 1) \div 2 <= d /\ d <= capped}

Init ==
  /\ tx = [e \in Events |-> "none"]
  /\ state = [e \in Events |-> "pending"]
  /\ attempts = [e \in Events |-> 0]
  /\ last = [e \in Events |-> LongAgo]
  /\ next = [e \in Events |-> LongAgo]
  /\ claimId = [e \in Events |-> NoClaim]
  /\ delivered = {}
  /\ pc = [r \in Runs |-> "idle"]
  /\ now = [r \in Runs |-> 0]
  /\ claim = [r \in Runs |-> NoClaim]
  /\ batch = [r \in Runs |-> [e \in Events |-> 0]]
  /\ requeues = 0

-----------------------------------------------------------------------------
(* The writers: API requests that record an event beside a state change.   *)

\* OutboxRecorder.record inside an open boundary: a pending row, invisible.
Record(e) ==
  /\ tx[e] = "none"
  /\ tx' = [tx EXCEPT ![e] = "open"]
  /\ UNCHANGED <<rowVars, delivered, runVars, requeues>>

\* The boundary commits or rolls back the row with the state change.
Finish(e) ==
  /\ tx[e] = "open"
  /\ \E outcome \in {"committed", "rolledback"} :
        tx' = [tx EXCEPT ![e] = outcome]
  /\ UNCHANGED <<rowVars, delivered, runVars, requeues>>

-----------------------------------------------------------------------------
(* A publisher run.                                                        *)

Goto(r, at) == pc' = [pc EXCEPT ![r] = at]

\* The run returns, or throws: what it held in memory is gone.
EndRun(r) ==
  /\ Goto(r, "idle")
  /\ now' = [now EXCEPT ![r] = 0]
  /\ claim' = [claim EXCEPT ![r] = NoClaim]
  /\ batch' = [batch EXCEPT ![r] = [e \in Events |-> 0]]

Begin(r) ==
  /\ pc[r] = "idle"
  /\ Goto(r, "expire")
  /\ UNCHANGED <<tx, rowVars, delivered, now, claim, batch, requeues>>

\* Mutant of Stale: the age is not compared.
StaleAtAnyAge(r) == {e \in Rows : state[e] = "publishing"}

\* The rows releaseStale takes for left behind by a crashed run.
Stale(r) ==
  {e \in Rows : state[e] = "publishing" /\ last[e] <= now[r] - Visibility}

Release(S, to) ==
  /\ state' = [e \in Events |-> IF e \in S THEN to ELSE state[e]]
  /\ claimId' = [e \in Events |-> IF e \in S THEN NoClaim ELSE claimId[e]]
  /\ next' = [e \in Events |-> IF e \in S THEN LongAgo ELSE next[e]]
  /\ UNCHANGED <<attempts, last>>

\* Mutant of ReleaseExhausted: > for >=, so neither UPDATE takes a row whose
\* last attempt crashed.
ReleaseOverspent(r) ==
  /\ pc[r] = "expire"
  /\ Release({e \in Stale(r) : attempts[e] > MaxAttempts}, "failed")
  /\ Goto(r, "recover")
  /\ UNCHANGED <<tx, delivered, now, claim, batch, requeues>>

\* releaseStale, first UPDATE: the stale rows with no attempt left.
ReleaseExhausted(r) ==
  /\ pc[r] = "expire"
  /\ Release({e \in Stale(r) : attempts[e] >= MaxAttempts}, "failed")
  /\ Goto(r, "recover")
  /\ UNCHANGED <<tx, delivered, now, claim, batch, requeues>>

\* releaseStale, second UPDATE: the stale rows with attempts left.
ReleaseRecoverable(r) ==
  /\ pc[r] = "recover"
  /\ Release({e \in Stale(r) : attempts[e] < MaxAttempts}, "retrying")
  /\ Goto(r, "claim")
  /\ UNCHANGED <<tx, delivered, now, claim, batch, requeues>>

\* Mutant of Due: a failed row is claimable too.
DueOrFailed(r) ==
  {e \in Rows : state[e] \in {"pending", "retrying", "failed"}
              /\ next[e] <= now[r]}

\* The rows claimDue may take: a claimable state, next_attempt_at elapsed.
Due(r) ==
  {e \in Rows : state[e] \in {"pending", "retrying"} /\ next[e] <= now[r]}

\* What an UPDATE ... ORDER BY created_at, id LIMIT BatchSize touches.
OldestOf(due) ==
  {e \in due : Cardinality({f \in due : f < e}) < BatchSize}

\* A fresh UUID: no row and no run has it.
Fresh(c) ==
  /\ \A e \in Events : claimId[e] # c
  /\ \A r \in Runs : claim[r] # c

\* claimDue, the UPDATE: claim, count the attempt, stamp it.
ClaimDue(r) ==
  /\ pc[r] = "claim"
  /\ \E c \in Claims :
       /\ Fresh(c)
       /\ claim' = [claim EXCEPT ![r] = c]
       /\ LET won == OldestOf(Due(r)) IN
            /\ state' = [e \in Events |->
                           IF e \in won THEN "publishing" ELSE state[e]]
            /\ claimId' = [e \in Events |->
                             IF e \in won THEN c ELSE claimId[e]]
            /\ attempts' = [e \in Events |->
                              IF e \in won THEN attempts[e] + 1 ELSE attempts[e]]
            /\ last' = [e \in Events |->
                          IF e \in won THEN now[r] ELSE last[e]]
  /\ Goto(r, "select")
  /\ UNCHANGED <<tx, next, delivered, now, batch, requeues>>

\* claimDue, the SELECT by claim id; a run that won nothing returns.
ReadClaimed(r) ==
  /\ pc[r] = "select"
  /\ LET won == {e \in Rows : claimId[e] = claim[r]} IN
       IF won = {}
         THEN EndRun(r)
         ELSE /\ batch' = [batch EXCEPT ![r] =
                     [e \in Events |-> IF e \in won THEN attempts[e] ELSE 0]]
              /\ Goto(r, "publish")
              /\ UNCHANGED <<now, claim>>
  /\ UNCHANGED <<tx, rowVars, delivered, requeues>>

\* Mutant of Publish: a publish that throws is not noticed.
PublishUnchecked(r) ==
  /\ pc[r] = "publish"
  /\ delivered' \in {delivered, delivered \cup {Oldest(Todo(r))}}
  /\ Goto(r, "mark")
  /\ UNCHANGED <<tx, rowVars, now, claim, batch, requeues>>

\* eventPublisher.publish of the oldest record not settled yet.  A publish
\* that throws may have reached the stream (the reply was lost) or not.
Publish(r) ==
  /\ pc[r] = "publish"
  /\ LET e == Oldest(Todo(r)) IN
       \/ /\ delivered' = delivered \cup {e}
          /\ Goto(r, "mark")
       \/ /\ delivered' \in {delivered, delivered \cup {e}}
          /\ Goto(r, "transient")
       \/ /\ delivered' = delivered
          /\ Goto(r, "permanent")
  /\ UNCHANGED <<tx, rowVars, now, claim, batch, requeues>>

\* The UPDATEs of markPublished, markRetrying and markFailed: WHERE id = ?.
Mark(e, to, due) ==
  /\ state' = [state EXCEPT ![e] = to]
  /\ next' = [next EXCEPT ![e] = due]
  /\ claimId' = [claimId EXCEPT ![e] = NoClaim]
  /\ UNCHANGED <<attempts, last>>

\* The loop goes on with the next record, or the run returns.
Settled(r, e) ==
  IF Todo(r) = {e}
    THEN EndRun(r)
    ELSE /\ batch' = [batch EXCEPT ![r][e] = 0]
         /\ Goto(r, "publish")
         /\ UNCHANGED <<now, claim>>

MarkPublished(r) ==
  /\ pc[r] = "mark"
  /\ LET e == Oldest(Todo(r)) IN
       /\ Mark(e, "published", LongAgo)
       /\ Settled(r, e)
  /\ UNCHANGED <<tx, delivered, requeues>>

\* markPublished throws: the record takes the failure path of the same loop.
MarkPublishedThrows(r) ==
  /\ pc[r] = "mark"
  /\ \/ UNCHANGED rowVars
     \/ ReplyLoss /\ Mark(Oldest(Todo(r)), "published", LongAgo)
  /\ Goto(r, "transient")
  /\ UNCHANGED <<tx, delivered, now, claim, batch, requeues>>

\* Mutant of Exhausted: > for >=.
Overspent(r, e) == batch[r][e] > MaxAttempts

\* The claim counted this attempt: attempt_count is the number spent.
Exhausted(r, e) == batch[r][e] >= MaxAttempts

\* The catch clause: park the record, or schedule its next attempt.
MarkFailure(r) ==
  /\ pc[r] \in {"transient", "permanent"}
  /\ LET e == Oldest(Todo(r)) IN
       /\ IF pc[r] = "permanent" \/ Exhausted(r, e)
            THEN Mark(e, "failed", LongAgo)
            ELSE \E d \in BackoffDelays(batch[r][e]) :
                   Mark(e, "retrying", now[r] + d)
       /\ Settled(r, e)
  /\ UNCHANGED <<tx, delivered, requeues>>

\* The process dies, or a statement outside the inner try throws.
Abort(r) ==
  /\ pc[r] # "idle"
  /\ EndRun(r)
  /\ UNCHANGED <<tx, rowVars, delivered, requeues>>

-----------------------------------------------------------------------------

\* OutboxStore.requeue, called by an operator.
Requeue(e) ==
  /\ requeues < MaxRequeues
  /\ e \in Rows /\ state[e] = "failed"
  /\ state' = [state EXCEPT ![e] = "pending"]
  /\ attempts' = [attempts EXCEPT ![e] = 0]
  /\ next' = [next EXCEPT ![e] = LongAgo]
  /\ claimId' = [claimId EXCEPT ![e] = NoClaim]
  /\ requeues' = requeues + 1
  /\ UNCHANGED <<tx, last, delivered, runVars>>

Older(t) == IF t > LongAgo THEN t - 1 ELSE LongAgo

\* One tick of the clock.  No run lasts longer than MaxRun.
Tick ==
  /\ \A r \in Runs : pc[r] # "idle" => now[r] > -MaxRun
  /\ now' = [r \in Runs |-> IF pc[r] = "idle" THEN 0 ELSE now[r] - 1]
  /\ last' = [e \in Events |-> Older(last[e])]
  /\ next' = [e \in Events |-> Older(next[e])]
  /\ UNCHANGED <<tx, state, attempts, claimId, delivered, pc, claim, batch,
                 requeues>>

-----------------------------------------------------------------------------

RunStep(r) ==
  \/ ReleaseExhausted(r) \/ ReleaseRecoverable(r)
  \/ ClaimDue(r) \/ ReadClaimed(r)
  \/ Publish(r) \/ MarkPublished(r) \/ MarkPublishedThrows(r) \/ MarkFailure(r)

Next ==
  \/ \E e \in Events : Record(e) \/ Finish(e) \/ Requeue(e)
  \/ \E r \in Runs : Begin(r) \/ RunStep(r) \/ Abort(r)
  \/ Tick

Spec == Init /\ [][Next]_vars

\* The Scheduler keeps starting runs, time passes, a run that is alive goes
\* on, and no run dies at the same one of its first three statements for ever.
Fairness ==
  /\ WF_vars(Tick)
  /\ \A r \in Runs :
       /\ WF_vars(Begin(r))
       /\ WF_vars(RunStep(r))
       /\ SF_vars(ReleaseExhausted(r))
       /\ SF_vars(ReleaseRecoverable(r))
       /\ SF_vars(ClaimDue(r))

FairSpec == Spec /\ Fairness

-----------------------------------------------------------------------------
(* Properties.                                                             *)

\* Every variable keeps its type: the columns hold what the schema allows.
TypeOK ==
  /\ tx \in [Events -> TxStates]
  /\ state \in [Events -> RowStates]
  /\ attempts \in [Events -> Nat]
  /\ last \in [Events -> LongAgo .. 0]
  /\ next \in [Events -> LongAgo .. MaxDelay]
  /\ claimId \in [Events -> Claims \cup {NoClaim}]
  /\ delivered \subseteq Events
  /\ pc \in [Runs -> RunStates]
  /\ now \in [Runs -> -MaxRun .. 0]
  /\ claim \in [Runs -> Claims \cup {NoClaim}]
  /\ batch \in [Runs -> [Events -> Nat]]
  /\ requeues \in 0 .. MaxRequeues

\* outbox.publisher.ts: "Nothing publishes before its transaction commits."
NothingBeforeCommit == \A e \in delivered : tx[e] = "committed"

\* outbox.publisher.ts: "Duplicates are expected, loss is not": a record the
\* store calls published is in the stream, however runs overlap and die.
NothingLost == \A e \in Rows : state[e] = "published" => e \in delivered

\* The lease assumption: a run ends within the visibility timeout, and a
\* statement that took effect is seen to have done so.
Timely == MaxRun < Visibility /\ ~ReplyLoss

\* outbox.publisher.ts: "One owner per record", from the claim to the record's
\* settlement: two runs never both hold a record they still have to settle.
OneOwner ==
  \A r, s \in Runs : r # s => Todo(r) \cap Todo(s) = {}

\* outbox.publisher.ts: "Bounded, backed-off retry": no record is attempted
\* more often than its budget allows.
AttemptsBounded == \A e \in Events : attempts[e] <= MaxAttempts

\* outbox.types.ts: "published - delivered to the publication boundary.
\* Terminal."
PublishedIsTerminal ==
  [][\A e \in Rows : state[e] = "published" => state'[e] = "published"]_vars

\* The runs implement the lifecycle diagram of outbox.types.ts.
Lifecycle == INSTANCE OutboxLifecycle WITH
  state <- [e \in Events |-> IF e \in Rows THEN state[e] ELSE "absent"]
LifecycleSpec == Lifecycle!Spec

\* Every recorded event is settled in the end, published or parked as failed:
\* "Duplicates are expected, loss is not", "never silently dropped".
EventuallySettled ==
  \A e \in Events :
    (tx[e] = "committed") ~> (state[e] \in {"published", "failed"})

=============================================================================

--------------------------- MODULE JobQueueProofs ---------------------------
(***************************************************************************)
(* Proofs about JobQueue: the attempt budget and the types of what the     *)
(* queue stores; that a keyed effect comes about at most once, for any     *)
(* number of jobs, keys, Workers and promoters, under any overlap; and,    *)
(* as long as the processes are careful, that no crash hides work and that *)
(* the queue implements one that owes every job its attempts (AtLeastOnce).*)
(***************************************************************************)
EXTENDS JobQueue, TLAPS

\* A slot that is not idle dispatches an entry the group has delivered; a
\* dispatch schedules a retry, and a record waits for one, only while
\* attempts remain.
SlotsHoldEntries ==
  \A d \in Slots : at[d] # "idle" => entry[d] \in 1 .. cursor
RetriesRemain ==
  /\ \A d \in Slots : at[d] = "retry" => AttemptsRemain(d)
  /\ \A j \in Jobs :
       record[j].status = "retrying" => record[j].attempt < JobMaxAttempts

TypeInv == JobsTypeOK /\ SlotsHoldEntries /\ RetriesRemain

-----------------------------------------------------------------------------
(* The stream.                                                             *)

\* Appending an entry leaves the entries before it alone.
LEMMA AppendKeeps ==
  ASSUME stream \in Seq(Entries), NEW x \in Entries,
         stream' = Append(stream, x)
  PROVE  /\ stream' \in Seq(Entries)
         /\ Len(stream') = Len(stream) + 1
         /\ \A i \in 1 .. Len(stream) : stream'[i] = stream[i]
  OBVIOUS

\* What a live slot dispatches is an entry.
LEMMA LiveSlot ==
  ASSUME TypeInv, NEW d \in Slots, at[d] # "idle"
  PROVE  /\ entry[d] \in 1 .. cursor
         /\ stream[entry[d]] \in Entries
         /\ JobOf(d) \in Jobs /\ AttemptOf(d) \in Attempts
         /\ EffectIn(d) \in Effects
<1>1. entry[d] \in 1 .. cursor /\ entry[d] \in 1 .. Len(stream)
  BY DEF TypeInv, JobsTypeOK, SlotsHoldEntries
<1>2. stream[entry[d]] \in Entries
  BY <1>1 DEF TypeInv, JobsTypeOK
<1>3. JobOf(d) \in Jobs /\ AttemptOf(d) \in Attempts
  BY <1>2 DEF JobOf, AttemptOf, Entries
<1> QED BY <1>1, <1>2, <1>3, JobQueueConstants DEF EffectIn

\* A push leaves every slot with the entry it had.
LEMMA PushKeepsSlots ==
  ASSUME TypeInv, NEW j \in Jobs, NEW n \in Attempts, Add(j, n),
         UNCHANGED <<cursor, entry, at>>
  PROVE  /\ stream' \in Seq(Entries)
         /\ cursor' \in 0 .. Len(stream')
         /\ SlotsHoldEntries'
         /\ \A d \in Slots : at[d] # "idle" =>
              /\ stream'[entry[d]] = stream[entry[d]]
              /\ AttemptsRemain(d)' = AttemptsRemain(d)
              /\ EffectIn(d)' = EffectIn(d)
<1>1. [job |-> j, attempt |-> n] \in Entries
  BY DEF Entries
<1>2. /\ stream' \in Seq(Entries)
      /\ Len(stream') = Len(stream) + 1
      /\ \A i \in 1 .. Len(stream) : stream'[i] = stream[i]
  BY <1>1, AppendKeeps DEF Add, TypeInv, JobsTypeOK
<1>3. \A d \in Slots : at[d] # "idle" => entry[d] \in 1 .. Len(stream)
  BY DEF TypeInv, JobsTypeOK, SlotsHoldEntries
<1>4. \A d \in Slots : at[d] # "idle" => stream'[entry[d]] = stream[entry[d]]
  BY <1>2, <1>3
<1>5. cursor' \in 0 .. Len(stream') /\ SlotsHoldEntries'
  BY <1>2 DEF TypeInv, JobsTypeOK, SlotsHoldEntries
<1> QED
  BY <1>2, <1>4, <1>5 DEF AttemptsRemain, AttemptOf, EffectIn, JobOf

-----------------------------------------------------------------------------
(* Types and the attempt budget.                                           *)

LEMMA TypeInvInit == JobsInit => TypeInv
<1> SUFFICES ASSUME JobsInit PROVE TypeInv
  OBVIOUS
<1> USE JobQueueConstants
<1>1. stream \in Seq(Entries) /\ Len(stream) = 0
  BY DEF JobsInit
<1>2. record \in [Jobs -> [status : Statuses, attempt : Attempts]]
  BY DEF JobsInit, JobRecord, Statuses, Attempts
<1>3. hand \in [Promoters -> Hands]
  BY DEF JobsInit, Hands
<1>4. at \in [Slots -> Positions]
  BY DEF JobsInit, Positions
<1>5. RetriesRemain
  BY DEF JobsInit, RetriesRemain, JobRecord
<1> QED
  BY <1>1, <1>2, <1>3, <1>4, <1>5
     DEF JobsInit, TypeInv, JobsTypeOK, SlotsHoldEntries

\* Saving a record that is not waiting for a retry.
LEMMA SaveStateTypes ==
  ASSUME TypeInv, NEW j \in Jobs, NEW s \in Statuses, NEW n \in Attempts,
         SaveState(j, s, n), s = "retrying" => n < JobMaxAttempts
  PROVE  /\ record' \in [Jobs -> [status : Statuses, attempt : Attempts]]
         /\ \A k \in Jobs :
              record'[k].status = "retrying" => record'[k].attempt < JobMaxAttempts
<1>1. JobRecord(s, n) \in [status : Statuses, attempt : Attempts]
  BY DEF JobRecord
<1>2. record' = [record EXCEPT ![j] = JobRecord(s, n)]
  BY DEF SaveState
<1>3. JobRecord(s, n).status = s /\ JobRecord(s, n).attempt = n
  BY DEF JobRecord
<1> HIDE DEF JobRecord
<1> QED BY <1>1, <1>2, <1>3 DEF TypeInv, JobsTypeOK, RetriesRemain

\* A live slot moves on within its dispatch.
LEMMA SlotMoves ==
  ASSUME TypeInv, NEW d \in Slots, at[d] # "idle",
         NEW w \in Positions, GotoSlot(d, w), w = "retry" => AttemptsRemain(d),
         UNCHANGED <<stream, cursor, entry>>
  PROVE  /\ at' \in [Slots -> Positions]
         /\ entry' \in [Slots -> 0 .. cursor']
         /\ SlotsHoldEntries'
         /\ \A o \in Slots : at'[o] = "retry" => AttemptsRemain(o)'
<1>1. at' \in [Slots -> Positions] /\ entry' \in [Slots -> 0 .. cursor']
  BY DEF GotoSlot, TypeInv, JobsTypeOK
<1>2. SlotsHoldEntries'
  BY DEF GotoSlot, TypeInv, JobsTypeOK, SlotsHoldEntries
<1>3. \A o \in Slots : at'[o] = "retry" => AttemptsRemain(o)
  BY DEF GotoSlot, TypeInv, JobsTypeOK, RetriesRemain
<1> QED BY <1>1, <1>2, <1>3 DEF AttemptsRemain, AttemptOf

\* A slot becomes idle.
LEMMA SlotEnds ==
  ASSUME TypeInv, NEW d \in Slots, EndDispatch(d), UNCHANGED <<stream, cursor>>
  PROVE  /\ at' \in [Slots -> Positions]
         /\ entry' \in [Slots -> 0 .. cursor']
         /\ SlotsHoldEntries'
         /\ \A o \in Slots : at'[o] = "retry" => AttemptsRemain(o)'
<1>1. at' \in [Slots -> Positions] /\ entry' \in [Slots -> 0 .. cursor']
  BY DEF EndDispatch, GotoSlot, TypeInv, JobsTypeOK, Positions
<1>2. SlotsHoldEntries'
  BY DEF EndDispatch, GotoSlot, TypeInv, JobsTypeOK, SlotsHoldEntries
<1>3. \A o \in Slots : at'[o] = "retry" => AttemptsRemain(o) /\ o # d
  BY DEF EndDispatch, GotoSlot, TypeInv, JobsTypeOK, RetriesRemain
<1>4. \A o \in Slots : o # d => entry'[o] = entry[o]
  BY DEF EndDispatch, TypeInv, JobsTypeOK
<1> QED BY <1>1, <1>2, <1>3, <1>4 DEF AttemptsRemain, AttemptOf

\* The failure of a live slot leads to a retry or to a terminal record.
LEMMA FailedMoves ==
  ASSUME NEW d \in Slots, NEW category \in {"retryable", "unknown"},
         Failed(d, category)
  PROVE  \E w \in Positions : GotoSlot(d, w) /\ (w = "retry" => AttemptsRemain(d))
BY DEF Failed, Positions

\* A dispatch that only moves, and leaves record alone or saves one.
LEMMA DispatchTypes ==
  ASSUME TypeInv, NEW d \in Slots, DispatchStep(d) \/ Drop(d)
  PROVE  /\ at' \in [Slots -> Positions]
         /\ entry' \in [Slots -> 0 .. cursor']
         /\ SlotsHoldEntries'
         /\ \A o \in Slots : at'[o] = "retry" => AttemptsRemain(o)'
<1> USE DEF queueVars, slotVars
<1>1. CASE \E w \in Positions :
             /\ at[d] # "idle" /\ GotoSlot(d, w)
             /\ w = "retry" => AttemptsRemain(d)
             /\ UNCHANGED <<stream, cursor, entry>>
  BY <1>1, SlotMoves
<1>2. CASE EndDispatch(d) /\ UNCHANGED <<stream, cursor>>
  BY <1>2, SlotEnds
<1>3. CASE Start(d)
  BY <1>3, <1>1 DEF Start, Positions
<1>4. CASE Prepare(d)
  <2>1. \E w \in {"execute", "complete", "fail"} : GotoSlot(d, w)
    BY <1>4 DEF Prepare, GotoSlot
  <2> QED BY <1>4, <1>1, <2>1 DEF Prepare, Positions
<1>5. CASE Execute(d)
  <2>1. \/ \E w \in {"complete", "releaseRetryable", "releaseUnknown"} : GotoSlot(d, w)
        \/ \E category \in {"retryable", "unknown"} : Failed(d, category)
    BY <1>5 DEF Execute
  <2>2. \E w \in Positions : GotoSlot(d, w) /\ (w = "retry" => AttemptsRemain(d))
    BY <2>1, FailedMoves DEF Positions
  <2> QED BY <1>5, <1>1, <2>2 DEF Execute
<1>6. CASE ReleaseKey(d)
  <2>1. \E category \in {"retryable", "unknown"} : Failed(d, category)
    BY <1>6 DEF ReleaseKey
  <2>2. \E w \in Positions : GotoSlot(d, w) /\ (w = "retry" => AttemptsRemain(d))
    BY <2>1, FailedMoves
  <2> QED BY <1>6, <1>1, <2>2 DEF ReleaseKey
<1>7. CASE Complete(d)
  <2>1. \E w \in {"acknowledge", "fail"} : GotoSlot(d, w)
    BY <1>7 DEF Complete, GotoSlot
  <2> QED BY <1>7, <1>1, <2>1 DEF Complete, Positions
<1>8. CASE SaveRetrying(d) \/ Delay(d) \/ FailTerminally(d)
  BY <1>8, <1>1 DEF SaveRetrying, Delay, FailTerminally, Positions
<1>9. CASE Acknowledge(d)
  BY <1>9, <1>1, <1>2 DEF Acknowledge, Positions
<1>10. CASE Drop(d)
  BY <1>10, <1>2 DEF Drop
<1> QED
  BY <1>3, <1>4, <1>5, <1>6, <1>7, <1>8, <1>9, <1>10 DEF DispatchStep

\* ... and what it writes.
LEMMA DispatchWrites ==
  ASSUME TypeInv, NEW d \in Slots, DispatchStep(d) \/ Drop(d)
  PROVE  /\ record' \in [Jobs -> [status : Statuses, attempt : Attempts]]
         /\ \A k \in Jobs :
              record'[k].status = "retrying" => record'[k].attempt < JobMaxAttempts
         /\ delayed' \subseteq Jobs /\ finished' \subseteq Jobs
         /\ keys' \subseteq Keyed
         /\ applied' \in [Effects -> 0 .. 2]
         /\ pel' \subseteq pel
         /\ UNCHANGED <<stream, cursor, producer, hand>>
         /\ drops' \in 0 .. MaxDrops
<1> USE DEF queueVars, slotVars
<1> USE JobQueueConstants
<1>0. /\ JobOf(d) \in Jobs /\ AttemptOf(d) \in Attempts /\ EffectIn(d) \in Effects
      /\ at[d] = "retry" => AttemptOf(d) < JobMaxAttempts
  <2>1. at[d] # "idle"
    BY DEF DispatchStep, Start, Prepare, Execute, ReleaseKey, Complete,
           SaveRetrying, Delay, FailTerminally, Acknowledge, Drop
  <2>2. /\ JobOf(d) \in Jobs /\ AttemptOf(d) \in Attempts
        /\ EffectIn(d) \in Effects
    BY <2>1, LiveSlot
  <2>3. at[d] = "retry" => AttemptOf(d) < JobMaxAttempts
    BY DEF TypeInv, RetriesRemain, AttemptsRemain
  <2> QED BY <2>2, <2>3
<1>1. \/ UNCHANGED record
      \/ \E s \in Statuses : /\ SaveState(JobOf(d), s, AttemptOf(d))
                             /\ s = "retrying" => AttemptOf(d) < JobMaxAttempts
  BY <1>0 DEF DispatchStep, Start, Prepare, Execute, ReleaseKey, Complete,
              SaveRetrying, Delay, FailTerminally, Acknowledge, Drop, Statuses
<1>2. /\ record' \in [Jobs -> [status : Statuses, attempt : Attempts]]
      /\ \A k \in Jobs :
           record'[k].status = "retrying" => record'[k].attempt < JobMaxAttempts
  <2>1. CASE UNCHANGED record
    BY <2>1 DEF TypeInv, JobsTypeOK, RetriesRemain
  <2>2. CASE \E s \in Statuses : /\ SaveState(JobOf(d), s, AttemptOf(d))
                                 /\ s = "retrying" => AttemptOf(d) < JobMaxAttempts
    BY <2>2, <1>0, SaveStateTypes
  <2> QED BY <1>1, <2>1, <2>2
<1>3. delayed' \subseteq Jobs /\ finished' \subseteq Jobs
  BY <1>0 DEF DispatchStep, Start, Prepare, Execute, ReleaseKey, Complete,
              SaveRetrying, Delay, FailTerminally, Acknowledge, Drop,
              TypeInv, JobsTypeOK
<1>4. keys' \subseteq Keyed
  BY <1>0 DEF DispatchStep, Start, Prepare, Execute, ReleaseKey, Complete,
              SaveRetrying, Delay, FailTerminally, Acknowledge, Drop,
              TypeInv, JobsTypeOK
<1>5. applied' \in [Effects -> 0 .. 2]
  <2>1. \/ UNCHANGED applied
        \/ applied' = [applied EXCEPT ![EffectIn(d)] = IF @ < 2 THEN @ + 1 ELSE 2]
    BY DEF DispatchStep, Start, Prepare, Execute, ReleaseKey, Complete,
           SaveRetrying, Delay, FailTerminally, Acknowledge, Drop
  <2>2. applied \in [Effects -> 0 .. 2]
    BY DEF TypeInv, JobsTypeOK
  <2>3. \A n \in 0 .. 2 : (IF n < 2 THEN n + 1 ELSE 2) \in 0 .. 2
    OBVIOUS
  <2> QED BY <1>0, <2>1, <2>2, <2>3
<1>6. pel' \subseteq pel /\ UNCHANGED <<stream, cursor, producer, hand>>
  BY DEF DispatchStep, Start, Prepare, Execute, ReleaseKey, Complete,
         SaveRetrying, Delay, FailTerminally, Acknowledge, Drop
<1>7. drops' \in 0 .. MaxDrops
  BY DEF DispatchStep, Start, Prepare, Execute, ReleaseKey, Complete,
         SaveRetrying, Delay, FailTerminally, Acknowledge, Drop,
         TypeInv, JobsTypeOK
<1> QED BY <1>2, <1>3, <1>4, <1>5, <1>6, <1>7

LEMMA TypeInvStep == TypeInv /\ [JobsNext]_jobVars => TypeInv'
<1> SUFFICES ASSUME TypeInv, [JobsNext]_jobVars PROVE TypeInv'
  OBVIOUS
<1> USE JobQueueConstants DEF queueVars, slotVars
<1>1. ASSUME NEW j \in Jobs, Enqueue(j) PROVE TypeInv'
  <2>1. 1 \in Attempts
    BY DEF Attempts
  <2>2. /\ stream' \in Seq(Entries) /\ cursor' \in 0 .. Len(stream')
        /\ SlotsHoldEntries'
        /\ \A d \in Slots : at[d] # "idle" =>
             AttemptsRemain(d)' = AttemptsRemain(d)
    BY <1>1, <2>1, PushKeepsSlots DEF Enqueue
  <2>3. RetriesRemain'
    BY <1>1, <2>2 DEF Enqueue, TypeInv, RetriesRemain
  <2> QED BY <1>1, <2>2, <2>3 DEF Enqueue, TypeInv, JobsTypeOK
<1>2. ASSUME NEW j \in Jobs, EnqueueSaved(j) PROVE TypeInv'
  <2>1. 1 \in Attempts /\ "queued" \in Statuses
    BY DEF Attempts, Statuses
  <2>2. /\ record' \in [Jobs -> [status : Statuses, attempt : Attempts]]
        /\ \A k \in Jobs :
             record'[k].status = "retrying" => record'[k].attempt < JobMaxAttempts
    BY <1>2, <2>1, SaveStateTypes DEF EnqueueSaved
  <2> QED
    BY <1>2, <2>2 DEF EnqueueSaved, TypeInv, JobsTypeOK, SlotsHoldEntries,
                      RetriesRemain, AttemptsRemain, AttemptOf
<1>3. ASSUME NEW p \in Promoters, NEW j \in Jobs, TakeDue(p, j) PROVE TypeInv'
  <2>1. hand' \in [Promoters -> Hands]
    BY <1>3 DEF TakeDue, TypeInv, JobsTypeOK, Hands
  <2> QED
    BY <1>3, <2>1 DEF TakeDue, TypeInv, JobsTypeOK, SlotsHoldEntries,
                      RetriesRemain, AttemptsRemain, AttemptOf
<1>4. ASSUME NEW p \in Promoters, LoadState(p) PROVE TypeInv'
  <2>1. hand[p].job \in Jobs
    BY <1>4 DEF LoadState, TypeInv, JobsTypeOK, Hands
  <2>2. record[hand[p].job].status = "retrying" =>
          record[hand[p].job].attempt + 1 \in Attempts
    BY <2>1 DEF TypeInv, JobsTypeOK, RetriesRemain, Attempts
  <2>3. hand' \in [Promoters -> Hands]
    BY <1>4, <2>1, <2>2 DEF LoadState, TypeInv, JobsTypeOK, Hands
  <2> QED
    BY <1>4, <2>3 DEF LoadState, TypeInv, JobsTypeOK, SlotsHoldEntries,
                      RetriesRemain, AttemptsRemain, AttemptOf
<1>5. ASSUME NEW p \in Promoters, Promote(p) PROVE TypeInv'
  <2>1. /\ hand[p] \in [at : {"add", "save"}, job : Jobs, attempt : Attempts]
        /\ hand[p].job \in Jobs /\ hand[p].attempt \in Attempts
    BY <1>5 DEF Promote, TypeInv, JobsTypeOK, Hands
  <2>2. /\ stream' \in Seq(Entries) /\ cursor' \in 0 .. Len(stream')
        /\ SlotsHoldEntries'
        /\ \A d \in Slots : at[d] # "idle" =>
             AttemptsRemain(d)' = AttemptsRemain(d)
    BY <1>5, <2>1, PushKeepsSlots DEF Promote
  <2>3. hand' \in [Promoters -> Hands]
    BY <1>5, <2>1 DEF Promote, TypeInv, JobsTypeOK, Hands
  <2>4. RetriesRemain'
    BY <1>5, <2>2 DEF Promote, TypeInv, RetriesRemain
  <2> QED BY <1>5, <2>2, <2>3, <2>4 DEF Promote, TypeInv, JobsTypeOK
<1>6. ASSUME NEW p \in Promoters, PromoteSaved(p) PROVE TypeInv'
  <2>1. hand[p].job \in Jobs /\ hand[p].attempt \in Attempts
    BY <1>6 DEF PromoteSaved, TypeInv, JobsTypeOK, Hands
  <2>2. /\ record' \in [Jobs -> [status : Statuses, attempt : Attempts]]
        /\ \A k \in Jobs :
             record'[k].status = "retrying" => record'[k].attempt < JobMaxAttempts
    BY <1>6, <2>1, SaveStateTypes DEF PromoteSaved, Statuses
  <2>3. hand' \in [Promoters -> Hands]
    BY <1>6 DEF PromoteSaved, TypeInv, JobsTypeOK, Hands
  <2> QED
    BY <1>6, <2>2, <2>3 DEF PromoteSaved, TypeInv, JobsTypeOK, SlotsHoldEntries,
                            RetriesRemain, AttemptsRemain, AttemptOf
<1>7. ASSUME NEW p \in Promoters, PromoterDrops(p) PROVE TypeInv'
  <2>1. hand' \in [Promoters -> Hands]
    BY <1>7 DEF PromoterDrops, TypeInv, JobsTypeOK, Hands
  <2> QED
    BY <1>7, <2>1 DEF PromoterDrops, TypeInv, JobsTypeOK, SlotsHoldEntries,
                      RetriesRemain, AttemptsRemain, AttemptOf
<1>8. ASSUME NEW d \in Slots, Claim(d) PROVE TypeInv'
  <2>1. cursor + 1 \in 1 .. Len(stream)
    BY <1>8 DEF Claim, TypeInv, JobsTypeOK
  <2>2. RetriesRemain'
    BY <1>8 DEF Claim, GotoSlot, TypeInv, JobsTypeOK, RetriesRemain, AttemptsRemain,
                AttemptOf
  <2>3. SlotsHoldEntries'
    BY <1>8, <2>1 DEF Claim, GotoSlot, TypeInv, JobsTypeOK, SlotsHoldEntries
  <2>4. at' \in [Slots -> Positions]
    BY <1>8 DEF Claim, GotoSlot, TypeInv, JobsTypeOK, Positions
  <2>5. /\ entry' \in [Slots -> 0 .. cursor']
        /\ pel' \subseteq 1 .. cursor'
        /\ cursor' \in 0 .. Len(stream')
    BY <1>8, <2>1 DEF Claim, TypeInv, JobsTypeOK
  <2> QED BY <1>8, <2>2, <2>3, <2>4, <2>5 DEF Claim, TypeInv, JobsTypeOK
<1>9. ASSUME NEW d \in Slots, NEW i \in pel, Reclaim(d, i) PROVE TypeInv'
  <2>1. i \in 1 .. cursor
    BY DEF TypeInv, JobsTypeOK
  <2>2. RetriesRemain'
    BY <1>9 DEF Reclaim, GotoSlot, TypeInv, JobsTypeOK, RetriesRemain, AttemptsRemain,
                AttemptOf
  <2>3. SlotsHoldEntries'
    BY <1>9, <2>1 DEF Reclaim, GotoSlot, TypeInv, JobsTypeOK, SlotsHoldEntries
  <2>4. at' \in [Slots -> Positions]
    BY <1>9 DEF Reclaim, GotoSlot, TypeInv, JobsTypeOK, Positions
  <2>5. entry' \in [Slots -> 0 .. cursor']
    BY <1>9, <2>1 DEF Reclaim, TypeInv, JobsTypeOK
  <2> QED BY <1>9, <2>2, <2>3, <2>4, <2>5 DEF Reclaim, TypeInv, JobsTypeOK
<1>10. ASSUME NEW d \in Slots, DispatchStep(d) \/ Drop(d) PROVE TypeInv'
  BY <1>10, DispatchTypes, DispatchWrites
     DEF TypeInv, JobsTypeOK, RetriesRemain
<1>11. CASE UNCHANGED jobVars
  BY <1>11 DEF jobVars, TypeInv, JobsTypeOK, SlotsHoldEntries, RetriesRemain,
               AttemptsRemain, AttemptOf
<1> QED
  BY <1>1, <1>2, <1>3, <1>4, <1>5, <1>6, <1>7, <1>8, <1>9, <1>10, <1>11
     DEF JobsNext, PromoterStep

\* Every variable keeps its type: no envelope, record or promotion carries an
\* attempt beyond the budget, however deliveries overlap and break off.
THEOREM TypeCorrect == JobsSpec => []JobsTypeOK
<1>1. TypeInv => JobsTypeOK
  BY DEF TypeInv
<1> QED BY <1>1, TypeInvInit, TypeInvStep, PTL DEF JobsSpec

-----------------------------------------------------------------------------
(* The idempotency keys.                                                   *)

\* From the claim of its key to the key's release or the effect, a dispatch
\* of a keyed job has the key to itself, and the effect has not come about.
\* Once it has, nobody releases the key any more.
Holding == {"execute", "releaseRetryable", "releaseUnknown"}
Holds(d, f) == at[d] \in Holding /\ EffectIn(d) = f

HolderHasKey ==
  \A d \in Slots : \A f \in Keyed : Holds(d, f) => f \in keys /\ applied[f] = 0
OneHolder ==
  \A d, o \in Slots : \A f \in Keyed : Holds(d, f) /\ Holds(o, f) => d = o
AppliedHasKey ==
  \A f \in Keyed : applied[f] <= 1 /\ (applied[f] = 1 => f \in keys)

KeyInv == HolderHasKey /\ OneHolder /\ AppliedHasKey

LEMMA KeyInvInit == JobsInit => KeyInv
BY JobQueueConstants
   DEF JobsInit, KeyInv, HolderHasKey, OneHolder, AppliedHasKey, Holds, Holding

\* Steps that touch neither keys nor effects, and make nobody a holder.
LEMMA KeyFrame ==
  ASSUME KeyInv, UNCHANGED <<keys, applied>>,
         \A o \in Slots : at'[o] \in Holding =>
           at[o] \in Holding /\ EffectIn(o)' = EffectIn(o)
  PROVE  KeyInv'
<1>1. \A o \in Slots : \A f \in Keyed : Holds(o, f)' => Holds(o, f)
  BY DEF Holds
<1> QED BY <1>1 DEF KeyInv, HolderHasKey, OneHolder, AppliedHasKey

\* A dispatch that moves leaves what every slot is about alone.
LEMMA MoveKeepsEffects ==
  ASSUME TypeInv, NEW d \in Slots, NEW w, GotoSlot(d, w),
         UNCHANGED <<stream, entry>>
  PROVE  /\ \A o \in Slots : EffectIn(o)' = EffectIn(o)
         /\ at'[d] = w
         /\ \A o \in Slots \ {d} : at'[o] = at[o]
BY DEF TypeInv, JobsTypeOK, GotoSlot, EffectIn, JobOf

\* A slot that becomes idle holds nothing.
LEMMA EndKeepsEffects ==
  ASSUME TypeInv, NEW d \in Slots, EndDispatch(d), UNCHANGED stream
  PROVE  \A o \in Slots : at'[o] \in Holding =>
           at[o] \in Holding /\ EffectIn(o)' = EffectIn(o)
BY DEF TypeInv, JobsTypeOK, EndDispatch, GotoSlot, EffectIn, JobOf, Holding

\* A slot that takes an entry has not claimed its key.
LEMMA TakingKeepsEffects ==
  ASSUME TypeInv, NEW d \in Slots, NEW i, GotoSlot(d, "start"),
         entry' = [entry EXCEPT ![d] = i], UNCHANGED stream
  PROVE  \A o \in Slots : at'[o] \in Holding =>
           at[o] \in Holding /\ EffectIn(o)' = EffectIn(o)
BY DEF TypeInv, JobsTypeOK, GotoSlot, EffectIn, JobOf, Holding

\* The claim of the key.
LEMMA PrepareKeys ==
  ASSUME TypeInv, KeyInv, NEW d \in Slots, Prepare(d)
  PROVE  KeyInv'
<1> USE DEF queueVars
<1>0. PICK g : g = EffectIn(d)
  OBVIOUS
<1>1. PICK w : GotoSlot(d, w)
  BY DEF Prepare, GotoSlot
<1>2. /\ \A o \in Slots : EffectIn(o)' = EffectIn(o)
      /\ at'[d] = w
      /\ \A o \in Slots \ {d} : at'[o] = at[o]
  BY <1>1, MoveKeepsEffects DEF Prepare
<1>3. UNCHANGED applied /\ at[d] = "prepare"
  BY DEF Prepare
<1>4. CASE g \in Keyed /\ g \notin keys /\ keys' = keys \cup {g}
  <2>1. \A o \in Slots : ~Holds(o, g)
    BY <1>4 DEF KeyInv, HolderHasKey
  <2>2. applied[g] = 0
    BY <1>4, JobQueueConstants DEF KeyInv, AppliedHasKey, TypeInv, JobsTypeOK
  <2>3. \A o \in Slots : \A f \in Keyed : Holds(o, f)' => Holds(o, f) \/ (o = d /\ f = g)
    BY <1>0, <1>2 DEF Holds
  <2>4. HolderHasKey'
    BY <1>3, <1>4, <2>2, <2>3 DEF KeyInv, HolderHasKey
  <2>5. OneHolder'
    BY <2>1, <2>3 DEF KeyInv, OneHolder
  <2>6. AppliedHasKey'
    BY <1>3, <1>4 DEF KeyInv, AppliedHasKey
  <2> QED BY <2>4, <2>5, <2>6 DEF KeyInv
<1>5. CASE UNCHANGED keys /\ (g \in Keyed => w \notin Holding)
  <2>1. \A o \in Slots : \A f \in Keyed : Holds(o, f)' => Holds(o, f)
    BY <1>0, <1>2, <1>5 DEF Holds
  <2> QED
    BY <2>1, <1>3, <1>5 DEF KeyInv, HolderHasKey, OneHolder, AppliedHasKey
<1>6. \/ g \in Keyed /\ g \notin keys /\ keys' = keys \cup {g}
      \/ UNCHANGED keys /\ (g \in Keyed => at'[d] \in {"complete", "fail"})
  BY <1>0, <1>2 DEF Prepare, GotoSlot, TypeInv, JobsTypeOK
<1> QED BY <1>2, <1>4, <1>5, <1>6 DEF Holding

\* The execution: whoever brings the effect about holds the key and keeps it.
LEMMA ExecuteKeys ==
  ASSUME TypeInv, KeyInv, NEW d \in Slots, Execute(d)
  PROVE  KeyInv'
<1> USE DEF queueVars
<1>0. PICK g : g = EffectIn(d)
  OBVIOUS
<1>1. at[d] = "execute" /\ UNCHANGED <<keys, stream, entry>>
  BY DEF Execute
<1>2. g \in Effects
  BY <1>0, <1>1, LiveSlot
<1>3. PICK w : GotoSlot(d, w)
  BY DEF Execute, Failed
<1>4. /\ \A o \in Slots : EffectIn(o)' = EffectIn(o)
      /\ at'[d] = w
      /\ \A o \in Slots \ {d} : at'[o] = at[o]
  BY <1>1, <1>3, MoveKeepsEffects
<1>5. \A o \in Slots : \A f \in Keyed : Holds(o, f)' => Holds(o, f)
  BY <1>1, <1>4 DEF Holds, Holding
<1>6. CASE UNCHANGED applied
  BY <1>1, <1>5, <1>6 DEF KeyInv, HolderHasKey, OneHolder, AppliedHasKey
<1>7. CASE /\ applied' = [applied EXCEPT ![g] = IF @ < 2 THEN @ + 1 ELSE 2]
           /\ GotoSlot(d, "complete")
  <2>1. at'[d] = "complete"
    BY <1>7 DEF GotoSlot, TypeInv, JobsTypeOK
  <2>2. applied \in [Effects -> 0 .. 2]
    BY DEF TypeInv, JobsTypeOK
  <2>3. g \in Keyed => /\ g \in keys /\ applied[g] = 0 /\ applied'[g] = 1
                       /\ \A o \in Slots : ~Holds(o, g)'
    <3> SUFFICES ASSUME g \in Keyed
                 PROVE  /\ g \in keys /\ applied[g] = 0 /\ applied'[g] = 1
                        /\ \A o \in Slots : ~Holds(o, g)'
      OBVIOUS
    <3>1. Holds(d, g)
      BY <1>0, <1>1 DEF Holds, Holding
    <3>2. g \in keys /\ applied[g] = 0
      BY <3>1 DEF KeyInv, HolderHasKey
    <3>3. applied'[g] = 1
      BY <1>2, <1>7, <2>2, <3>2
    <3>4. \A o \in Slots : ~Holds(o, g)'
      <4>1. ~Holds(d, g)'
        BY <2>1 DEF Holds, Holding
      <4>2. \A o \in Slots : Holds(o, g) => o = d
        BY <3>1 DEF KeyInv, OneHolder
      <4> QED BY <1>5, <4>1, <4>2
    <3> QED BY <3>2, <3>3, <3>4
  <2>4. \A f \in Effects : f # g => applied'[f] = applied[f]
    BY <1>7, <2>2
  <2>5. HolderHasKey'
    BY <1>1, <1>5, <2>3, <2>4, JobQueueConstants DEF KeyInv, HolderHasKey
  <2>6. OneHolder'
    BY <1>5 DEF KeyInv, OneHolder
  <2>7. AppliedHasKey'
    <3> SUFFICES ASSUME NEW f \in Keyed
                 PROVE  applied'[f] <= 1 /\ (applied'[f] = 1 => f \in keys')
      BY DEF AppliedHasKey
    <3>1. CASE f = g
      BY <1>1, <2>3, <3>1
    <3>2. CASE f # g
      BY <1>1, <2>4, <3>2, JobQueueConstants DEF KeyInv, AppliedHasKey
    <3> QED BY <3>1, <3>2
  <2> QED BY <2>5, <2>6, <2>7 DEF KeyInv
<1> QED BY <1>0, <1>6, <1>7 DEF Execute

\* The release: only a holder releases, and the effect has not come about.
LEMMA ReleaseKeys ==
  ASSUME TypeInv, KeyInv, NEW d \in Slots, ReleaseKey(d)
  PROVE  KeyInv'
<1> USE DEF queueVars
<1>0. PICK g : g = EffectIn(d)
  OBVIOUS
<1>1. /\ at[d] \in {"releaseRetryable", "releaseUnknown"}
      /\ keys' \in {keys, keys \ {g}}
      /\ UNCHANGED <<applied, stream, entry>>
  BY <1>0 DEF ReleaseKey
<1>2. PICK w \in {"retry", "fail"} : GotoSlot(d, w)
  BY DEF ReleaseKey, Failed
<1>3. /\ \A o \in Slots : EffectIn(o)' = EffectIn(o)
      /\ at'[d] = w
      /\ \A o \in Slots \ {d} : at'[o] = at[o]
  BY <1>1, <1>2, MoveKeepsEffects
<1>4. \A o \in Slots : \A f \in Keyed : Holds(o, f)' => Holds(o, f) /\ o # d
  BY <1>2, <1>3 DEF Holds, Holding
<1>5. Holds(d, g)
  BY <1>0, <1>1 DEF Holds, Holding
<1>6. g \in Keyed => applied[g] = 0 /\ \A o \in Slots : ~Holds(o, g)'
  BY <1>4, <1>5 DEF KeyInv, HolderHasKey, OneHolder
<1>7. HolderHasKey'
  BY <1>1, <1>4, <1>6 DEF KeyInv, HolderHasKey
<1>8. OneHolder'
  BY <1>4 DEF KeyInv, OneHolder
<1>9. AppliedHasKey'
  BY <1>1, <1>6 DEF KeyInv, AppliedHasKey
<1> QED BY <1>7, <1>8, <1>9 DEF KeyInv

LEMMA KeyInvStep == TypeInv /\ KeyInv /\ [JobsNext]_jobVars => KeyInv'
<1> SUFFICES ASSUME TypeInv, KeyInv, [JobsNext]_jobVars PROVE KeyInv'
  OBVIOUS
<1> USE DEF queueVars, slotVars
<1>1. ASSUME UNCHANGED <<keys, applied, stream, entry, at>> PROVE KeyInv'
  BY <1>1, KeyFrame DEF EffectIn, JobOf
<1>2. ASSUME NEW j \in Jobs, Enqueue(j) \/ EnqueueSaved(j) PROVE KeyInv'
  <2>1. CASE Enqueue(j)
    <3>1. 1 \in Attempts
      BY JobQueueConstants DEF Attempts
    <3>2. \A o \in Slots : at[o] # "idle" => EffectIn(o)' = EffectIn(o)
      BY <2>1, <3>1, PushKeepsSlots DEF Enqueue
    <3> QED BY <2>1, <3>2, KeyFrame DEF Enqueue, Holding
  <2> QED BY <1>1, <1>2, <2>1 DEF EnqueueSaved
<1>3. ASSUME NEW p \in Promoters, Promote(p) PROVE KeyInv'
  <2>1. hand[p].job \in Jobs /\ hand[p].attempt \in Attempts
    BY <1>3 DEF Promote, TypeInv, JobsTypeOK, Hands
  <2>2. \A o \in Slots : at[o] # "idle" => EffectIn(o)' = EffectIn(o)
    BY <1>3, <2>1, PushKeepsSlots DEF Promote
  <2> QED BY <1>3, <2>2, KeyFrame DEF Promote, Holding
<1>4. ASSUME NEW p \in Promoters,
             \/ \E j \in Jobs : TakeDue(p, j)
             \/ LoadState(p) \/ PromoteSaved(p) \/ PromoterDrops(p)
      PROVE  KeyInv'
  BY <1>1, <1>4 DEF TakeDue, LoadState, PromoteSaved, PromoterDrops
<1>5. ASSUME NEW d \in Slots, Claim(d) \/ \E i \in pel : Reclaim(d, i)
      PROVE  KeyInv'
  BY <1>5, TakingKeepsEffects, KeyFrame DEF Claim, Reclaim
<1>6. ASSUME NEW d \in Slots,
             \/ Start(d) \/ Complete(d)
             \/ SaveRetrying(d) \/ Delay(d) \/ FailTerminally(d)
             \/ Acknowledge(d) /\ ~EndDispatch(d)
      PROVE  KeyInv'
  <2>1. \E w \in Positions \ Holding : GotoSlot(d, w)
    BY <1>6 DEF Start, Complete, SaveRetrying, Delay, FailTerminally,
                Acknowledge, GotoSlot, Positions, Holding
  <2>2. UNCHANGED <<keys, applied, stream, entry>>
    BY <1>6 DEF Start, Complete, SaveRetrying, Delay, FailTerminally, Acknowledge
  <2> QED BY <2>1, <2>2, MoveKeepsEffects, KeyFrame
<1>7. ASSUME NEW d \in Slots, Acknowledge(d) \/ Drop(d), EndDispatch(d)
      PROVE  KeyInv'
  BY <1>7, EndKeepsEffects, KeyFrame DEF Acknowledge, Drop
<1>8. ASSUME NEW d \in Slots, DispatchStep(d) \/ Drop(d) PROVE KeyInv'
  BY <1>6, <1>7, <1>8, PrepareKeys, ExecuteKeys, ReleaseKeys
     DEF DispatchStep, Drop
<1>9. CASE UNCHANGED jobVars
  BY <1>1, <1>9 DEF jobVars
<1> QED
  BY <1>2, <1>3, <1>4, <1>5, <1>8, <1>9 DEF JobsNext, PromoterStep

\* However the deliveries of the jobs that share a key overlap, break off and
\* repeat, no two of them are executing and the effect comes about once.
THEOREM OneCallerWinsAKey == JobsSpec => []KeyedEffectOnce
<1>1. JobsInit => TypeInv /\ KeyInv
  BY TypeInvInit, KeyInvInit
<1>2. TypeInv /\ KeyInv /\ [JobsNext]_jobVars => (TypeInv /\ KeyInv)'
  BY TypeInvStep, KeyInvStep
<1>3. KeyInv => KeyedEffectOnce
  <2> SUFFICES ASSUME KeyInv, NEW f \in Keyed
               PROVE  /\ applied[f] <= 1
                      /\ \A d, o \in Slots :
                           /\ {at[d], at[o]} \subseteq {"execute"}
                           /\ EffectIn(d) = f /\ EffectIn(o) = f
                           => d = o
    BY DEF KeyedEffectOnce
  <2>1. applied[f] <= 1
    BY DEF KeyInv, AppliedHasKey
  <2>2. \A d \in Slots : at[d] = "execute" /\ EffectIn(d) = f => Holds(d, f)
    BY DEF Holds, Holding
  <2> QED BY <2>1, <2>2 DEF KeyInv, OneHolder
<1> QED BY <1>1, <1>2, <1>3, PTL DEF JobsSpec

-----------------------------------------------------------------------------
(* Hidden work.                                                            *)

\* What the deliveries, the producers and the promoters are assumed to do.
Careful == ~ Slow /\ ~ LateRecord /\ ~ PromoterDies

\* A push that has not written its record yet has added an entry that nobody has
\* claimed.
Unclaimed(j, n) == \E i \in Undelivered : stream[i] = [job |-> j, attempt |-> n]
RecordsAreEarly ==
  /\ \A j \in Jobs : producer[j] = "added" => Unclaimed(j, 1)
  /\ \A p \in Promoters :
       hand[p].at = "save" => Unclaimed(hand[p].job, hand[p].attempt)

\* No two slots dispatch one entry.  It stays in the group as long as its job is
\* not finished, and is acknowledged as completed only when it is.
EntriesAreApart ==
  \A d, o \in Slots : entry[d] = entry[o] /\ entry[d] # 0 => d = o
DispatchesArePending ==
  \A d \in Slots :
    /\ at[d] # "idle" => entry[d] \in pel \/ JobOf(d) \in finished
    /\ at[d] = "acknowledge" => JobOf(d) \in finished

\* A job is kept by what will act on it whatever its record says ...
Waits(j) == \E i \in Undelivered : stream[i].job = j
Left(j) == \E i \in pel : stream[i].job = j /\ \A d \in Slots : entry[d] # i
Dispatched(j) ==
  \E d \in Slots : at[d] \notin {"idle", "delay", "settled"} /\ JobOf(d) = j
Promoted(j) == \E p \in Promoters : hand[p].at = "add" /\ hand[p].job = j
Kept(j) == j \in finished \/ Waits(j) \/ Left(j) \/ Dispatched(j) \/ Promoted(j)

\* ... or by a retry, which the record must still ask for.
Delaying(j) == \E d \in Slots : at[d] = "delay" /\ JobOf(d) = j
Retried(j) ==
  record[j].status = "retrying" /\ (j \in delayed \/ Delaying(j) \/ Loading(j))
JobsAreKept == \A j \in Jobs : producer[j] # "idle" => Kept(j) \/ Retried(j)

WorkInv == RecordsAreEarly /\ EntriesAreApart /\ DispatchesArePending /\ JobsAreKept

LEMMA WorkInvInit == JobsInit => WorkInv
BY DEF JobsInit, WorkInv, RecordsAreEarly, EntriesAreApart, DispatchesArePending,
       JobsAreKept

\* A push adds an entry nobody has claimed, and leaves the entries before it.
LEMMA PushKeepsEntries ==
  ASSUME TypeInv, NEW j \in Jobs, NEW n \in Attempts, Add(j, n), UNCHANGED cursor
  PROVE  /\ \A i \in Undelivered : i \in Undelivered' /\ stream'[i] = stream[i]
         /\ \A i \in 1 .. cursor : stream'[i] = stream[i]
         /\ \E i \in Undelivered' : stream'[i] = [job |-> j, attempt |-> n]
<1>1. [job |-> j, attempt |-> n] \in Entries
  BY DEF Entries
<1>2. /\ Len(stream') = Len(stream) + 1
      /\ \A i \in 1 .. Len(stream) : stream'[i] = stream[i]
  BY <1>1, AppendKeeps DEF Add, TypeInv, JobsTypeOK
<1>3. stream'[Len(stream) + 1] = [job |-> j, attempt |-> n]
  BY <1>1 DEF Add, TypeInv, JobsTypeOK
<1>4. cursor \in 0 .. Len(stream) /\ Len(stream) \in Nat
  BY DEF TypeInv, JobsTypeOK
<1> QED BY <1>2, <1>3, <1>4 DEF Undelivered

\* The entry a slot claims is not one whose record is late.
LEMMA ClaimIsEarly ==
  ASSUME TypeInv, Careful, NEW d \in Slots, Claim(d),
         NEW j \in Jobs, NEW n \in Attempts,
         \/ n = 1 /\ producer[j] = "added"
         \/ \E p \in Promoters :
              hand[p].at = "save" /\ hand[p].job = j /\ hand[p].attempt = n,
         Unclaimed(j, n)
  PROVE  Unclaimed(j, n)'
<1>1. PICK i \in Undelivered : stream[i] = [job |-> j, attempt |-> n]
  BY DEF Unclaimed
<1>2. ~ RecordIsLate(cursor + 1)
  BY DEF Careful, Claim
<1>3. i # cursor + 1
  BY <1>1, <1>2 DEF RecordIsLate
<1>4. i \in Undelivered' /\ stream'[i] = stream[i]
  BY <1>1, <1>3 DEF Claim, Undelivered, TypeInv, JobsTypeOK
<1> QED BY <1>1, <1>4 DEF Unclaimed

LEMMA RecordsStep ==
  ASSUME TypeInv, Careful, RecordsAreEarly, [JobsNext]_jobVars
  PROVE  RecordsAreEarly'
<1> USE DEF queueVars, slotVars
<1>1. ASSUME NEW j \in Jobs, NEW n \in Attempts, Add(j, n), UNCHANGED cursor
      PROVE  /\ Unclaimed(j, n)'
             /\ \A k, m : Unclaimed(k, m) => Unclaimed(k, m)'
  BY <1>1, PushKeepsEntries DEF Unclaimed
<1>2. ASSUME NEW j \in Jobs, Enqueue(j) PROVE RecordsAreEarly'
  <2>1. 1 \in Attempts
    BY JobQueueConstants DEF Attempts
  <2> QED BY <1>1, <1>2, <2>1 DEF Enqueue, RecordsAreEarly, TypeInv, JobsTypeOK
<1>3. ASSUME NEW p \in Promoters, Promote(p) PROVE RecordsAreEarly'
  <2>1. hand[p].job \in Jobs /\ hand[p].attempt \in Attempts
    BY <1>3 DEF Promote, TypeInv, JobsTypeOK, Hands
  <2>2. /\ hand'[p].job = hand[p].job /\ hand'[p].attempt = hand[p].attempt
        /\ \A o \in Promoters \ {p} : hand'[o] = hand[o]
    BY <1>3 DEF Promote, TypeInv, JobsTypeOK, Hands
  <2> QED BY <1>1, <1>3, <2>1, <2>2 DEF Promote, RecordsAreEarly
<1>4. ASSUME UNCHANGED <<stream, cursor>>,
             \A j \in Jobs : producer'[j] = "added" => producer[j] = "added",
             \A p \in Promoters : hand'[p].at = "save" => hand'[p] = hand[p]
      PROVE  RecordsAreEarly'
  BY <1>4 DEF RecordsAreEarly, Unclaimed, Undelivered
<1>5. ASSUME NEW j \in Jobs, EnqueueSaved(j) PROVE RecordsAreEarly'
  BY <1>4, <1>5 DEF EnqueueSaved, TypeInv, JobsTypeOK
<1>6. ASSUME NEW p \in Promoters,
             \/ \E j \in Jobs : TakeDue(p, j)
             \/ LoadState(p) \/ PromoteSaved(p) \/ PromoterDrops(p)
      PROVE  RecordsAreEarly'
  <2>1. UNCHANGED <<stream, cursor, producer>>
    BY <1>6 DEF TakeDue, LoadState, PromoteSaved, PromoterDrops
  <2>2. \A o \in Promoters : hand'[o].at = "save" => hand'[o] = hand[o]
    BY <1>6 DEF TakeDue, LoadState, PromoteSaved, PromoterDrops, TypeInv, JobsTypeOK
  <2> QED BY <1>4, <2>1, <2>2
<1>7. ASSUME NEW d \in Slots, Claim(d) PROVE RecordsAreEarly'
  <2>1. 1 \in Attempts
    BY JobQueueConstants DEF Attempts
  <2>2. \A j \in Jobs : producer[j] = "added" => Unclaimed(j, 1)'
    BY <1>7, <2>1, ClaimIsEarly DEF RecordsAreEarly
  <2>3. ASSUME NEW p \in Promoters, hand[p].at = "save"
        PROVE  Unclaimed(hand[p].job, hand[p].attempt)'
    <3>1. hand[p].job \in Jobs /\ hand[p].attempt \in Attempts
      BY <2>3 DEF TypeInv, JobsTypeOK, Hands
    <3>2. Unclaimed(hand[p].job, hand[p].attempt)
      BY <2>3 DEF RecordsAreEarly
    <3>3. PICK j \in Jobs, n \in Attempts : j = hand[p].job /\ n = hand[p].attempt
      BY <3>1
    <3>4. Unclaimed(j, n)'
      BY <1>7, <2>3, <3>2, <3>3, ClaimIsEarly
    <3>5. UNCHANGED hand
      BY <1>7 DEF Claim
    <3> QED BY <3>3, <3>4, <3>5 DEF Unclaimed
  <2>4. UNCHANGED <<producer, hand>>
    BY <1>7 DEF Claim
  <2> QED BY <2>2, <2>3, <2>4 DEF RecordsAreEarly, Unclaimed
<1>8. ASSUME NEW d \in Slots,
             \/ \E i \in pel : Reclaim(d, i)
             \/ DispatchStep(d) \/ Drop(d)
      PROVE  RecordsAreEarly'
  <2>1. UNCHANGED <<stream, cursor, producer, hand>>
    BY <1>8, DispatchWrites DEF Reclaim
  <2> QED BY <1>4, <2>1
<1>9. CASE UNCHANGED jobVars
  BY <1>4, <1>9 DEF jobVars
<1> QED
  BY <1>2, <1>3, <1>5, <1>6, <1>7, <1>8, <1>9 DEF JobsNext, PromoterStep

\* Every new entry of a slot is one that no slot dispatches.
LEMMA ApartStep ==
  ASSUME TypeInv, Careful, EntriesAreApart, [JobsNext]_jobVars
  PROVE  EntriesAreApart'
<1> USE DEF queueVars, slotVars
<1>1. CASE UNCHANGED entry
  BY <1>1 DEF EntriesAreApart
<1>2. ASSUME NEW d \in Slots, NEW i,
             i = 0 \/ \A o \in Slots : entry[o] # i,
             entry' = [entry EXCEPT ![d] = i]
      PROVE  EntriesAreApart'
  BY <1>2 DEF EntriesAreApart, TypeInv, JobsTypeOK
<1>3. ASSUME NEW d \in Slots, Claim(d) PROVE EntriesAreApart'
  <2>1. \A o \in Slots : entry[o] # cursor + 1
    BY DEF TypeInv, JobsTypeOK
  <2> QED BY <1>2, <1>3, <2>1 DEF Claim
<1>4. ASSUME NEW d \in Slots, NEW i \in pel, Reclaim(d, i)
      PROVE  EntriesAreApart'
  BY <1>2, <1>4 DEF Reclaim, Careful
<1>5. ASSUME NEW d \in Slots, DispatchStep(d) \/ Drop(d) PROVE EntriesAreApart'
  <2>1. UNCHANGED entry \/ EndDispatch(d)
    BY <1>5 DEF DispatchStep, Start, Prepare, Execute, ReleaseKey, Complete,
           SaveRetrying, Delay, FailTerminally, Acknowledge, Drop
  <2> QED BY <1>1, <1>2, <2>1 DEF EndDispatch
<1> QED
  BY <1>1, <1>3, <1>4, <1>5
     DEF JobsNext, jobVars, Enqueue, EnqueueSaved, TakeDue, PromoterStep, LoadState,
         Promote, PromoteSaved, PromoterDrops

\* A slot goes on with its entry, unless it has just taken one from the group.
LEMMA PendingFrame ==
  ASSUME DispatchesArePending, finished \subseteq finished',
         \A d \in Slots : at'[d] # "idle" =>
           \/ at'[d] = "start" /\ entry'[d] \in pel'
           \/ /\ at[d] # "idle" /\ entry'[d] = entry[d] /\ JobOf(d)' = JobOf(d)
              /\ entry[d] \in pel => entry[d] \in pel' \/ JobOf(d) \in finished'
              /\ at'[d] = "acknowledge" =>
                   at[d] = "acknowledge" \/ JobOf(d) \in finished'
  PROVE  DispatchesArePending'
BY DEF DispatchesArePending

LEMMA PendingStep ==
  ASSUME TypeInv, EntriesAreApart, DispatchesArePending, [JobsNext]_jobVars
  PROVE  DispatchesArePending'
<1> USE DEF queueVars, slotVars
<1>1. CASE UNCHANGED <<stream, pel, finished, entry, at>>
  BY <1>1, PendingFrame DEF JobOf
<1>2. ASSUME NEW j \in Jobs, NEW n \in Attempts, Add(j, n),
             UNCHANGED <<cursor, pel, finished, entry, at>>
      PROVE  DispatchesArePending'
  <2>1. \A d \in Slots : at[d] # "idle" => JobOf(d)' = JobOf(d)
    BY <1>2, PushKeepsSlots DEF JobOf
  <2> QED BY <1>2, <2>1, PendingFrame
<1>3. ASSUME NEW j \in Jobs, Enqueue(j) PROVE DispatchesArePending'
  <2>1. 1 \in Attempts
    BY JobQueueConstants DEF Attempts
  <2> QED BY <1>2, <1>3, <2>1 DEF Enqueue
<1>4. ASSUME NEW p \in Promoters, Promote(p) PROVE DispatchesArePending'
  <2>1. hand[p].job \in Jobs /\ hand[p].attempt \in Attempts
    BY <1>4 DEF Promote, TypeInv, JobsTypeOK, Hands
  <2> QED BY <1>2, <1>4, <2>1 DEF Promote
<1>5. ASSUME NEW d \in Slots, NEW i \in pel',
             UNCHANGED <<stream, finished>>, pel \subseteq pel',
             entry' = [entry EXCEPT ![d] = i], GotoSlot(d, "start")
      PROVE  DispatchesArePending'
  BY <1>5, PendingFrame DEF GotoSlot, JobOf, TypeInv, JobsTypeOK
<1>6. ASSUME NEW d \in Slots, Claim(d) \/ \E i \in pel : Reclaim(d, i)
      PROVE  DispatchesArePending'
  BY <1>5, <1>6 DEF Claim, Reclaim
<1>7. ASSUME NEW d \in Slots, DispatchStep(d) \/ Drop(d)
      PROVE  DispatchesArePending'
  <2>1. /\ at[d] # "idle" /\ UNCHANGED stream
        /\ finished \subseteq finished'
        /\ pel \ {entry[d]} \subseteq pel'
        /\ \A o \in Slots \ {d} : at'[o] = at[o] /\ entry'[o] = entry[o]
    BY <1>7 DEF DispatchStep, Start, Prepare, Execute, ReleaseKey, Complete,
           SaveRetrying, Delay, FailTerminally, Acknowledge, Drop, GotoSlot,
           EndDispatch, Failed, TypeInv, JobsTypeOK
  <2>2. \A o \in Slots \ {d} : at[o] # "idle" =>
          entry[o] # entry[d] /\ JobOf(o)' = JobOf(o)
    BY <2>1 DEF EntriesAreApart, TypeInv, SlotsHoldEntries, JobsTypeOK, JobOf
  <2>3. at'[d] # "idle" =>
          /\ entry'[d] = entry[d]
          /\ at[d] = "acknowledge" \/ UNCHANGED pel
          /\ at'[d] = "acknowledge" =>
               at[d] = "acknowledge" \/ JobOf(d) \in finished'
    BY <1>7 DEF DispatchStep, Start, Prepare, Execute, ReleaseKey, Complete,
           SaveRetrying, Delay, FailTerminally, Acknowledge, Drop, GotoSlot,
           EndDispatch, Failed, TypeInv, JobsTypeOK
  <2>4. at[d] = "acknowledge" => JobOf(d) \in finished
    BY DEF DispatchesArePending
  <2> QED BY <2>1, <2>2, <2>3, <2>4, PendingFrame DEF JobOf
<1> QED
  BY <1>1, <1>3, <1>4, <1>6, <1>7
     DEF JobsNext, jobVars, EnqueueSaved, TakeDue, PromoterStep, LoadState,
         PromoteSaved, PromoterDrops

\* What a push keeps: the entries and the dispatches of every job.
LEMMA PushKeepsJobs ==
  ASSUME TypeInv, JobsAreKept,
         NEW j \in Jobs, NEW n \in Attempts, Add(j, n),
         UNCHANGED <<cursor, pel, record, delayed, finished, entry, at>>,
         \A k \in Jobs : producer'[k] # "idle" => producer[k] # "idle" \/ k = j,
         \A p \in Promoters :
           hand'[p] = hand[p] \/ (hand[p].at = "add" /\ hand[p].job = j)
  PROVE  JobsAreKept'
<1> SUFFICES ASSUME NEW k \in Jobs, producer'[k] # "idle"
             PROVE  Kept(k)' \/ Retried(k)'
  BY DEF JobsAreKept
<1>1. Waits(j)'
  <2>1. PICK i \in Undelivered' : stream'[i] = [job |-> j, attempt |-> n]
    BY PushKeepsEntries
  <2>2. stream'[i].job = j
    BY <2>1
  <2> QED BY <2>2 DEF Waits
<1>2. ASSUME k # j PROVE Kept(k)' \/ Retried(k)'
  <2>1. Kept(k) \/ Retried(k)
    BY <1>2 DEF JobsAreKept
  <2>2. Waits(k) => Waits(k)'
    BY PushKeepsEntries DEF Waits
  <2>3. Left(k) => Left(k)'
    BY PushKeepsEntries DEF Left, TypeInv, JobsTypeOK
  <2>4. \A d \in Slots : at[d] # "idle" => JobOf(d)' = JobOf(d)
    BY PushKeepsSlots DEF JobOf
  <2>5. (Dispatched(k) => Dispatched(k)') /\ (Delaying(k) => Delaying(k)')
    BY <2>4 DEF Dispatched, Delaying
  <2>6. (Promoted(k) => Promoted(k)') /\ (Loading(k) => Loading(k)')
    BY <1>2 DEF Promoted, Loading
  <2> QED BY <2>1, <2>2, <2>3, <2>5, <2>6 DEF Kept, Retried
<1> QED BY <1>1, <1>2 DEF Kept

\* What the producers and the promoters keep besides: the group and the slots.
LEMMA GroupKeepsJob ==
  ASSUME NEW k \in Jobs, Kept(k), Promoted(k) => Promoted(k)',
         UNCHANGED <<stream, cursor, pel, finished, entry, at>>
  PROVE  Kept(k)'
BY DEF Kept, Waits, Left, Dispatched, Promoted, Undelivered, JobOf

\* A dispatch that goes on, ends or breaks off keeps the jobs of the others, and
\* its own as far as it does not depend on this dispatch.
LEMMA OthersAreKept ==
  ASSUME TypeInv, NEW d \in Slots, DispatchStep(d) \/ Drop(d), NEW k \in Jobs
  PROVE  /\ Kept(k) /\ (k = JobOf(d) => at[d] \in {"delay", "settled"}) => Kept(k)'
         /\ Retried(k) /\ (k = JobOf(d) => at[d] = "settled") => Retried(k)'
<1> USE DEF queueVars, slotVars
<1>1. /\ UNCHANGED <<stream, cursor, producer, hand>>
      /\ at[d] # "idle"
      /\ finished \subseteq finished' /\ delayed \subseteq delayed'
      /\ pel \ {entry[d]} \subseteq pel'
      /\ entry'[d] \in {entry[d], 0}
      /\ \A o \in Slots \ {d} : at'[o] = at[o] /\ entry'[o] = entry[o]
  BY DEF DispatchStep, Start, Prepare, Execute, ReleaseKey, Complete,
         SaveRetrying, Delay, FailTerminally, Acknowledge, Drop, GotoSlot,
         EndDispatch, Failed, TypeInv, JobsTypeOK
<1>2. k # JobOf(d) \/ at[d] = "settled" => record'[k] = record[k]
  <2>1. JobOf(d) \in Jobs
    BY <1>1, LiveSlot
  <2>2. \/ UNCHANGED record
        \/ at[d] # "settled" /\ \E s : SaveState(JobOf(d), s, AttemptOf(d))
    BY DEF DispatchStep, Start, Prepare, Execute, ReleaseKey, Complete,
           SaveRetrying, Delay, FailTerminally, Acknowledge, Drop
  <2> QED BY <2>1, <2>2 DEF SaveState, TypeInv, JobsTypeOK
<1>3. Waits(k) => Waits(k)'
  BY <1>1 DEF Waits, Undelivered
<1>4. Left(k) => Left(k)'
  <2> SUFFICES ASSUME NEW i \in pel, stream[i].job = k,
                      \A o \in Slots : entry[o] # i
               PROVE  Left(k)'
    BY DEF Left
  <2>1. i \in pel' /\ i # 0
    BY <1>1 DEF TypeInv, JobsTypeOK
  <2>2. \A o \in Slots : entry'[o] # i
    BY <1>1, <2>1
  <2> QED BY <1>1, <2>1, <2>2 DEF Left
<1>5. Dispatched(k) /\ (k = JobOf(d) => at[d] \in {"delay", "settled"})
        => Dispatched(k)'
  BY <1>1 DEF Dispatched, JobOf
<1>6. Delaying(k) /\ (k = JobOf(d) => at[d] = "settled") => Delaying(k)'
  BY <1>1 DEF Delaying, JobOf
<1>7. (Promoted(k) => Promoted(k)') /\ (Loading(k) => Loading(k)')
  BY <1>1 DEF Promoted, Loading
<1> QED
  BY <1>1, <1>2, <1>3, <1>4, <1>5, <1>6, <1>7 DEF Kept, Retried

\* A dispatch keeps its own job: it goes on, hands it to a retry, records its
\* end, or breaks off and leaves its entry in the group.
LEMMA OwnIsKept ==
  ASSUME TypeInv, EntriesAreApart, DispatchesArePending,
         NEW d \in Slots, DispatchStep(d) \/ Drop(d),
         NEW j \in Jobs, j = JobOf(d), Kept(j) \/ Retried(j)
  PROVE  Kept(j)' \/ Retried(j)'
<1> USE DEF queueVars, slotVars
<1>1. UNCHANGED stream /\ at[d] # "idle" /\ finished \subseteq finished'
  BY DEF DispatchStep, Start, Prepare, Execute, ReleaseKey, Complete,
         SaveRetrying, Delay, FailTerminally, Acknowledge, Drop
<1>2. /\ entry[d] \in pel \/ j \in finished
      /\ at[d] = "acknowledge" => j \in finished
  BY <1>1 DEF DispatchesArePending
<1>3. CASE \E w \in Positions \ {"idle", "delay", "settled"} :
             GotoSlot(d, w) /\ UNCHANGED entry
  BY <1>1, <1>3 DEF Kept, Dispatched, GotoSlot, JobOf, TypeInv, JobsTypeOK
<1>4. CASE j \in finished'
  BY <1>4 DEF Kept
<1>5. CASE Start(d) \/ Prepare(d) \/ Execute(d) \/ ReleaseKey(d) \/ Complete(d)
  <2>1. /\ UNCHANGED entry
        /\ \E w \in Positions \ {"idle", "delay", "settled"} : GotoSlot(d, w)
    BY <1>5 DEF Start, Prepare, Execute, ReleaseKey, Complete, GotoSlot, Failed,
                Positions
  <2> QED BY <1>3, <2>1
<1>6. CASE SaveRetrying(d)
  <2>1. record'[j].status = "retrying"
    BY <1>6 DEF SaveRetrying, SaveState, JobRecord, TypeInv, JobsTypeOK
  <2>2. Delaying(j)'
    BY <1>1, <1>6 DEF SaveRetrying, Delaying, GotoSlot, JobOf, TypeInv, JobsTypeOK
  <2> QED BY <2>1, <2>2 DEF Retried
<1>7. CASE Delay(d)
  <2>1. at[d] = "delay" /\ UNCHANGED record /\ j \in delayed'
    BY <1>7 DEF Delay
  <2>2. Retried(j) => Retried(j)'
    BY <2>1 DEF Retried
  <2>3. Kept(j) => Kept(j)'
    BY <2>1, OthersAreKept
  <2> QED BY <2>2, <2>3
<1>8. CASE FailTerminally(d)
  BY <1>4, <1>8 DEF FailTerminally
<1>9. CASE Acknowledge(d)
  <2>1. CASE at[d] = "acknowledge"
    BY <1>1, <1>2, <1>4, <2>1
  <2>2. CASE at[d] = "settled"
    BY <2>2, OthersAreKept
  <2> QED BY <1>9, <2>1, <2>2 DEF Acknowledge
<1>10. CASE Drop(d)
  <2>1. CASE j \in finished
    BY <1>1, <1>4, <2>1
  <2>2. CASE entry[d] \in pel
    <3>1. /\ UNCHANGED pel /\ entry[d] # 0 /\ entry'[d] = 0
          /\ \A o \in Slots \ {d} : entry'[o] = entry[o]
      BY <1>10, <2>2 DEF Drop, EndDispatch, TypeInv, JobsTypeOK
    <3>2. \A o \in Slots : entry'[o] # entry[d]
      BY <3>1 DEF EntriesAreApart
    <3>3. Left(j)'
      BY <1>1, <2>2, <3>1, <3>2 DEF Left, JobOf
    <3> QED BY <3>3 DEF Kept
  <2> QED BY <1>2, <2>1, <2>2
<1> QED
  BY <1>5, <1>6, <1>7, <1>8, <1>9, <1>10 DEF DispatchStep

\* An entry that a slot takes was waiting or left, and is dispatched now.
LEMMA TakingKeepsJobs ==
  ASSUME TypeInv, NEW d \in Slots, Claim(d) \/ \E i \in pel : Reclaim(d, i),
         NEW k \in Jobs, Kept(k) \/ Retried(k)
  PROVE  Kept(k)' \/ Retried(k)'
<1> USE DEF queueVars, slotVars
<1>1. PICK i \in Nat :
        /\ i \in pel \/ i = cursor + 1
        /\ entry' = [entry EXCEPT ![d] = i] /\ GotoSlot(d, "start")
        /\ at[d] = "idle" /\ pel \subseteq pel'
        /\ Undelivered \ {i} \subseteq Undelivered'
        /\ UNCHANGED <<stream, record, delayed, finished, hand>>
  <2>1. cursor \in Nat /\ Len(stream) \in Nat /\ pel \subseteq Nat
    BY DEF TypeInv, JobsTypeOK
  <2>2. CASE Claim(d)
    <3>1. Undelivered \ {cursor + 1} \subseteq Undelivered'
      BY <2>1, <2>2 DEF Claim, Undelivered
    <3>2. /\ entry' = [entry EXCEPT ![d] = cursor + 1] /\ GotoSlot(d, "start")
          /\ at[d] = "idle" /\ pel \subseteq pel' /\ cursor + 1 \in Nat
          /\ UNCHANGED <<stream, record, delayed, finished, hand>>
      BY <2>1, <2>2 DEF Claim
    <3> QED BY <3>1, <3>2
  <2>3. CASE \E i \in pel : Reclaim(d, i)
    BY <2>1, <2>3 DEF Reclaim, Undelivered
  <2> QED BY <2>2, <2>3
<1>2. CASE stream[i].job = k
  <2>1. Dispatched(k)'
    BY <1>1, <1>2 DEF Dispatched, GotoSlot, JobOf, TypeInv, JobsTypeOK
  <2> QED BY <2>1 DEF Kept
<1>3. CASE stream[i].job # k
  <2>1. Waits(k) => Waits(k)'
    BY <1>1, <1>3 DEF Waits
  <2>2. Left(k) => Left(k)'
    BY <1>1, <1>3 DEF Left, TypeInv, JobsTypeOK
  <2>3. (Dispatched(k) => Dispatched(k)') /\ (Delaying(k) => Delaying(k)')
    BY <1>1 DEF Dispatched, Delaying, GotoSlot, JobOf, TypeInv, JobsTypeOK
  <2>4. (Promoted(k) => Promoted(k)') /\ (Loading(k) => Loading(k)')
    BY <1>1 DEF Promoted, Loading
  <2> QED BY <1>1, <2>1, <2>2, <2>3, <2>4 DEF Kept, Retried
<1> QED BY <1>2, <1>3

\* A record that a push writes is that of a job whose entry still waits.
LEMMA SavingKeepsJobs ==
  ASSUME TypeInv, JobsAreKept, NEW j \in Jobs, NEW n \in Attempts,
         Unclaimed(j, n), SaveState(j, "queued", n),
         UNCHANGED <<stream, cursor, pel, delayed, finished, entry, at>>,
         \A k \in Jobs : producer'[k] # "idle" => producer[k] # "idle",
         \A p \in Promoters : hand[p].at # "save" => hand'[p] = hand[p]
  PROVE  JobsAreKept'
<1> SUFFICES ASSUME NEW k \in Jobs, producer'[k] # "idle"
             PROVE  Kept(k)' \/ Retried(k)'
  BY DEF JobsAreKept
<1>1. Kept(k) \/ Retried(k)
  BY DEF JobsAreKept
<1>2. Kept(k) => Kept(k)'
  <2>1. Promoted(k) => Promoted(k)'
    BY DEF Promoted
  <2> QED BY <2>1, GroupKeepsJob
<1>3. CASE k = j
  <2>1. Waits(j)
    BY DEF Unclaimed, Waits
  <2> QED BY <1>2, <1>3, <2>1 DEF Kept
<1>4. CASE k # j
  <2>1. record'[k] = record[k]
    BY <1>4 DEF SaveState, TypeInv, JobsTypeOK
  <2>2. (Loading(k) => Loading(k)') /\ (Delaying(k) => Delaying(k)')
    BY DEF Loading, Delaying, JobOf
  <2> QED BY <1>1, <1>2, <2>1, <2>2 DEF Retried
<1> QED BY <1>3, <1>4

\* The steps of a promoter between taking a job and adding its attempt.
LEMMA PromotionKeepsJobs ==
  ASSUME TypeInv, JobsAreKept, Careful, NEW p \in Promoters,
         \/ \E j \in Jobs : TakeDue(p, j)
         \/ LoadState(p) \/ PromoterDrops(p)
  PROVE  JobsAreKept'
<1> USE DEF queueVars, slotVars
<1>1. /\ UNCHANGED <<stream, cursor, pel, producer, record, finished, entry, at>>
      /\ \A o \in Promoters \ {p} : hand'[o] = hand[o]
      /\ hand[p].at # "add"
  BY DEF TakeDue, LoadState, PromoterDrops, Empty, Careful, TypeInv, JobsTypeOK
<1> SUFFICES ASSUME NEW k \in Jobs, producer[k] # "idle"
             PROVE  Kept(k)' \/ Retried(k)'
  BY <1>1 DEF JobsAreKept
<1>2. CASE Kept(k)
  <2>1. Promoted(k) => Promoted(k)'
    BY <1>1 DEF Promoted
  <2> QED BY <1>1, <1>2, <2>1, GroupKeepsJob
<1>3. CASE Retried(k)
  <2>1. record[k].status = "retrying"
    BY <1>3 DEF Retried
  <2>2. Delaying(k) => Delaying(k)'
    BY <1>1 DEF Delaying, JobOf
  <2>3. ASSUME NEW j \in Jobs, TakeDue(p, j)
        PROVE  Kept(k)' \/ Retried(k)'
    <3>1. k = j => Loading(k)'
      BY <2>3 DEF TakeDue, Loading, TypeInv, JobsTypeOK
    <3>2. (Loading(k) => Loading(k)') /\ (k \in delayed /\ k # j => k \in delayed')
      BY <1>1, <2>3 DEF TakeDue, Loading, Empty
    <3> QED BY <1>1, <1>3, <2>2, <3>1, <3>2 DEF Retried
  <2>4. CASE LoadState(p)
    <3>1. hand[p].job = k => Promoted(k)'
      BY <2>1, <2>4 DEF LoadState, Promoted, TypeInv, JobsTypeOK
    <3>2. hand[p].job # k /\ Loading(k) => Loading(k)'
      BY <1>1 DEF Loading
    <3> QED BY <1>1, <1>3, <2>2, <2>4, <3>1, <3>2 DEF LoadState, Retried, Kept
  <2>5. CASE PromoterDrops(p)
    <3>1. Loading(k) => Loading(k)'
      BY <1>1, <2>5 DEF PromoterDrops, Careful, Loading
    <3> QED BY <1>1, <1>3, <2>2, <2>5, <3>1 DEF PromoterDrops, Retried
  <2> QED BY <2>3, <2>4, <2>5
<1> QED BY <1>2, <1>3 DEF JobsAreKept

LEMMA JobsAreKeptStep ==
  ASSUME TypeInv, Careful, WorkInv, [JobsNext]_jobVars
  PROVE  JobsAreKept'
<1> USE DEF queueVars, slotVars, WorkInv
<1>1. ASSUME NEW j \in Jobs, Enqueue(j) PROVE JobsAreKept'
  <2>1. 1 \in Attempts
    BY JobQueueConstants DEF Attempts
  <2>2. \A k \in Jobs : producer'[k] # "idle" => producer[k] # "idle" \/ k = j
    BY <1>1 DEF Enqueue, TypeInv, JobsTypeOK
  <2> QED BY <1>1, <2>1, <2>2, PushKeepsJobs DEF Enqueue
<1>2. ASSUME NEW j \in Jobs, EnqueueSaved(j) PROVE JobsAreKept'
  <2>1. 1 \in Attempts /\ Unclaimed(j, 1)
    BY <1>2, JobQueueConstants DEF Attempts, EnqueueSaved, RecordsAreEarly
  <2>2. \A k \in Jobs : producer'[k] # "idle" => producer[k] # "idle"
    BY <1>2 DEF EnqueueSaved, TypeInv, JobsTypeOK
  <2> QED BY <1>2, <2>1, <2>2, SavingKeepsJobs DEF EnqueueSaved
<1>3. ASSUME NEW p \in Promoters, Promote(p) PROVE JobsAreKept'
  <2>1. hand[p].job \in Jobs /\ hand[p].attempt \in Attempts
    BY <1>3 DEF Promote, TypeInv, JobsTypeOK, Hands
  <2>2. \A o \in Promoters :
          \/ hand'[o] = hand[o]
          \/ hand[o].at = "add" /\ hand[o].job = hand[p].job
    BY <1>3 DEF Promote, TypeInv, JobsTypeOK
  <2> QED BY <1>3, <2>1, <2>2, PushKeepsJobs DEF Promote
<1>4. ASSUME NEW p \in Promoters, PromoteSaved(p) PROVE JobsAreKept'
  <2>1. /\ hand[p].job \in Jobs /\ hand[p].attempt \in Attempts
        /\ Unclaimed(hand[p].job, hand[p].attempt)
    BY <1>4 DEF PromoteSaved, RecordsAreEarly, TypeInv, JobsTypeOK, Hands
  <2>2. \A o \in Promoters : hand[o].at # "save" => hand'[o] = hand[o]
    BY <1>4 DEF PromoteSaved, TypeInv, JobsTypeOK
  <2> QED BY <1>4, <2>1, <2>2, SavingKeepsJobs DEF PromoteSaved
<1>5. ASSUME NEW p \in Promoters,
             \/ \E j \in Jobs : TakeDue(p, j)
             \/ LoadState(p) \/ PromoterDrops(p)
      PROVE  JobsAreKept'
  BY <1>5, PromotionKeepsJobs
<1>6. ASSUME NEW d \in Slots, Claim(d) \/ \E i \in pel : Reclaim(d, i)
      PROVE  JobsAreKept'
  <2>1. UNCHANGED producer
    BY <1>6 DEF Claim, Reclaim
  <2> QED BY <1>6, <2>1, TakingKeepsJobs DEF JobsAreKept
<1>7. ASSUME NEW d \in Slots, DispatchStep(d) \/ Drop(d) PROVE JobsAreKept'
  <2> SUFFICES ASSUME NEW k \in Jobs, producer'[k] # "idle"
               PROVE  Kept(k)' \/ Retried(k)'
    BY DEF JobsAreKept
  <2>1. Kept(k) \/ Retried(k)
    BY <1>7, DispatchWrites DEF JobsAreKept
  <2>2. CASE k = JobOf(d)
    BY <1>7, <2>1, <2>2, OwnIsKept
  <2>3. CASE k # JobOf(d)
    BY <1>7, <2>1, <2>3, OthersAreKept
  <2> QED BY <2>2, <2>3
<1>8. CASE UNCHANGED jobVars
  BY <1>8 DEF jobVars, JobsAreKept, Kept, Retried, Waits, Left, Dispatched,
              Promoted, Delaying, Loading, Undelivered, JobOf
<1> QED
  BY <1>1, <1>2, <1>3, <1>4, <1>5, <1>6, <1>7, <1>8 DEF JobsNext, PromoterStep

LEMMA WorkInvStep ==
  ASSUME TypeInv, Careful, WorkInv, [JobsNext]_jobVars
  PROVE  WorkInv'
<1>1. RecordsAreEarly' /\ EntriesAreApart'
  BY RecordsStep, ApartStep DEF WorkInv
<1>2. DispatchesArePending'
  BY PendingStep DEF WorkInv
<1>3. JobsAreKept'
  BY JobsAreKeptStep
<1> QED BY <1>1, <1>2, <1>3 DEF WorkInv

LEMMA KeptIsNotHidden == TypeInv /\ WorkInv => WorkIsNeverHidden
<1> SUFFICES ASSUME TypeInv, WorkInv, NEW j \in Jobs, producer[j] # "idle"
             PROVE  \/ j \in finished \cup delayed
                    \/ \E i \in Unacknowledged : stream[i].job = j
                    \/ \E p \in Promoters : ~Empty(p) /\ hand[p].job = j
  BY DEF WorkIsNeverHidden
<1>1. Kept(j) \/ Retried(j)
  BY DEF WorkInv, JobsAreKept
<1>2. Dispatched(j) \/ Delaying(j) =>
        j \in finished \/ \E i \in pel : stream[i].job = j
  BY DEF WorkInv, DispatchesArePending, Dispatched, Delaying, JobOf
<1>3. Waits(j) \/ Left(j) => \E i \in Unacknowledged : stream[i].job = j
  BY DEF Waits, Left, Unacknowledged
<1>4. Promoted(j) \/ Loading(j) =>
        \E p \in Promoters : ~Empty(p) /\ hand[p].job = j
  BY DEF Promoted, Loading, Empty
<1> QED BY <1>1, <1>2, <1>3, <1>4 DEF Kept, Retried, Unacknowledged

\* A crash never hides work: as long as no live delivery outlasts the visibility
\* timeout, no entry is claimed before its record is written and no promoter
\* breaks off before it has added the attempt, a job that was added and not
\* finished is in the group, in the delayed set or in a promoter's hand.
THEOREM NoWorkIsHidden ==
  ASSUME Careful
  PROVE  JobsSpec => []WorkIsNeverHidden
<1>1. JobsInit => TypeInv /\ WorkInv
  BY TypeInvInit, WorkInvInit
<1>2. TypeInv /\ WorkInv /\ [JobsNext]_jobVars => (TypeInv /\ WorkInv)'
  BY TypeInvStep, WorkInvStep
<1> QED BY <1>1, <1>2, KeptIsNotHidden, PTL DEF JobsSpec

-----------------------------------------------------------------------------
(* What is owed.                                                           *)

\* A dispatch has its entry in the group until it has recorded the end of its job
\* or handed it to a retry.
SlotsArePending ==
  \A d \in Slots : at[d] \notin {"idle", "fail", "settled"} => entry[d] \in pel

\* A record that asks for a retry follows an attempt that is about to be delayed
\* or has broken off before that, or the attempt it asks for is on its way.
Awaits(j, n, where) ==
  \E i \in Unacknowledged :
    /\ stream[i] = [job |-> j, attempt |-> n]
    /\ \A d \in Slots : entry[d] = i => at[d] \in where
LeadsOn(j, n) ==
  \/ Awaits(j, n, {"start", "delay"}) \/ Awaits(j, n + 1, {"start"})
  \/ Promoting(j, n + 1) \/ j \in delayed \/ Loading(j)
RetriesFollow ==
  \A j \in Jobs : record[j].status = "retrying" => LeadsOn(j, record[j].attempt)

\* Nothing is left of a job before it is added.
OnlyAddedJobs ==
  \A j \in Jobs : producer[j] = "idle" =>
    /\ j \notin finished \cup delayed
    /\ \A i \in 1 .. Len(stream) : stream[i].job # j
    /\ \A p \in Promoters : ~ Empty(p) => hand[p].job # j

OwedInv == SlotsArePending /\ RetriesFollow /\ OnlyAddedJobs

LEMMA OwedInvInit == JobsInit => OwedInv
BY DEF JobsInit, OwedInv, SlotsArePending, RetriesFollow, OnlyAddedJobs, JobRecord,
       Empty

LEMMA SlotsPendingStep ==
  ASSUME TypeInv, EntriesAreApart, SlotsArePending, [JobsNext]_jobVars
  PROVE  SlotsArePending'
<1> USE DEF queueVars, slotVars
<1>1. CASE UNCHANGED <<pel, entry, at>>
  BY <1>1 DEF SlotsArePending
<1>2. ASSUME NEW d \in Slots, NEW i \in pel', pel \subseteq pel',
             entry' = [entry EXCEPT ![d] = i], GotoSlot(d, "start")
      PROVE  SlotsArePending'
  BY <1>2 DEF SlotsArePending, GotoSlot, TypeInv, JobsTypeOK
<1>3. ASSUME NEW d \in Slots, Claim(d) \/ \E i \in pel : Reclaim(d, i)
      PROVE  SlotsArePending'
  BY <1>2, <1>3 DEF Claim, Reclaim
<1>4. ASSUME NEW d \in Slots, DispatchStep(d) \/ Drop(d) PROVE SlotsArePending'
  <2>1. /\ at[d] # "idle" /\ pel \ {entry[d]} \subseteq pel'
        /\ \A o \in Slots \ {d} : at'[o] = at[o] /\ entry'[o] = entry[o]
    BY <1>4 DEF DispatchStep, Start, Prepare, Execute, ReleaseKey, Complete,
           SaveRetrying, Delay, FailTerminally, Acknowledge, Drop, GotoSlot,
           EndDispatch, Failed, TypeInv, JobsTypeOK
  <2>2. \A o \in Slots \ {d} : at[o] # "idle" => entry[o] # entry[d]
    BY DEF EntriesAreApart, TypeInv, SlotsHoldEntries, JobsTypeOK
  <2>3. at'[d] \notin {"idle", "fail", "settled"} =>
          /\ entry'[d] = entry[d] /\ UNCHANGED pel
          /\ at[d] \notin {"idle", "fail", "settled"}
    BY <1>4 DEF DispatchStep, Start, Prepare, Execute, ReleaseKey, Complete,
           SaveRetrying, Delay, FailTerminally, Acknowledge, Drop, GotoSlot,
           EndDispatch, Failed, TypeInv, JobsTypeOK
  <2> QED BY <2>1, <2>2, <2>3 DEF SlotsArePending
<1> QED
  BY <1>1, <1>3, <1>4
     DEF JobsNext, jobVars, Enqueue, EnqueueSaved, TakeDue, PromoterStep, LoadState,
         Promote, PromoteSaved, PromoterDrops

LEMMA OnlyAddedStep ==
  ASSUME TypeInv, OnlyAddedJobs, [JobsNext]_jobVars
  PROVE  OnlyAddedJobs'
<1> USE DEF queueVars, slotVars
<1>1. ASSUME NEW j \in Jobs, NEW n \in Attempts, Add(j, n), producer'[j] # "idle",
             \A k \in Jobs : producer'[k] = "idle" => producer[k] = "idle",
             \A p \in Promoters : hand'[p] = hand[p] \/
               (hand[p].at = "add" /\ hand'[p].job = hand[p].job),
             UNCHANGED <<finished, delayed>>
      PROVE  OnlyAddedJobs'
  <2>1. [job |-> j, attempt |-> n] \in Entries
    BY DEF Entries
  <2>2. /\ Len(stream') = Len(stream) + 1
        /\ \A i \in 1 .. Len(stream) : stream'[i] = stream[i]
    BY <1>1, <2>1, AppendKeeps DEF Add, TypeInv, JobsTypeOK
  <2>3. stream'[Len(stream) + 1] = [job |-> j, attempt |-> n] /\ Len(stream) \in Nat
    BY <1>1, <2>1 DEF Add, TypeInv, JobsTypeOK
  <2>4. \A i \in 1 .. Len(stream') :
          stream'[i] = [job |-> j, attempt |-> n] \/ i \in 1 .. Len(stream)
    BY <2>2, <2>3
  <2> QED BY <1>1, <2>2, <2>4 DEF OnlyAddedJobs, Empty
<1>2. ASSUME UNCHANGED stream,
             \A k \in Jobs : producer'[k] = "idle" => producer[k] = "idle",
             \A p \in Promoters :
               hand'[p].at # "idle" => /\ hand'[p].job \in Jobs
                                       /\ producer[hand'[p].job] # "idle",
             \A k \in finished' \cup delayed' : producer[k] # "idle"
      PROVE  OnlyAddedJobs'
  BY <1>2 DEF OnlyAddedJobs, Empty
<1>3. /\ \A k \in finished \cup delayed : producer[k] # "idle"
      /\ \A p \in Promoters : hand[p].at # "idle" => /\ hand[p].job \in Jobs
                                                     /\ producer[hand[p].job] # "idle"
  BY DEF OnlyAddedJobs, Empty, TypeInv, JobsTypeOK, Hands
<1>4. ASSUME NEW j \in Jobs, Enqueue(j) PROVE OnlyAddedJobs'
  <2>1. 1 \in Attempts
    BY JobQueueConstants DEF Attempts
  <2> QED BY <1>1, <1>4, <2>1 DEF Enqueue, TypeInv, JobsTypeOK
<1>5. ASSUME NEW j \in Jobs, EnqueueSaved(j) PROVE OnlyAddedJobs'
  BY <1>2, <1>3, <1>5 DEF EnqueueSaved, TypeInv, JobsTypeOK
<1>6. ASSUME NEW p \in Promoters, NEW j \in Jobs, TakeDue(p, j) PROVE OnlyAddedJobs'
  BY <1>2, <1>3, <1>6 DEF TakeDue, TypeInv, JobsTypeOK
<1>7. ASSUME NEW p \in Promoters, LoadState(p) \/ PromoteSaved(p) \/ PromoterDrops(p)
      PROVE  OnlyAddedJobs'
  <2>1. /\ UNCHANGED <<stream, producer, finished, delayed>>
        /\ \A o \in Promoters : hand'[o].at # "idle" =>
             hand[o].at # "idle" /\ hand'[o].job = hand[o].job
    <3>1. CASE LoadState(p)
      BY <3>1 DEF LoadState, TypeInv, JobsTypeOK
    <3>2. CASE PromoteSaved(p) \/ PromoterDrops(p)
      BY <3>2 DEF PromoteSaved, PromoterDrops, TypeInv, JobsTypeOK
    <3> QED BY <1>7, <3>1, <3>2
  <2> QED BY <1>2, <1>3, <2>1
<1>8. ASSUME NEW p \in Promoters, Promote(p) PROVE OnlyAddedJobs'
  <2>1. hand[p].job \in Jobs /\ hand[p].attempt \in Attempts
    BY <1>8 DEF Promote, TypeInv, JobsTypeOK, Hands
  <2>2. \A o \in Promoters : hand'[o] = hand[o] \/
               (hand[o].at = "add" /\ hand'[o].job = hand[o].job)
    BY <1>8 DEF Promote, TypeInv, JobsTypeOK
  <2> QED BY <1>1, <1>3, <1>8, <2>1, <2>2 DEF Promote
<1>9. ASSUME NEW d \in Slots, Claim(d) \/ \E i \in pel : Reclaim(d, i)
      PROVE  OnlyAddedJobs'
  BY <1>2, <1>3, <1>9 DEF Claim, Reclaim
<1>10. ASSUME NEW d \in Slots, DispatchStep(d) \/ Drop(d) PROVE OnlyAddedJobs'
  <2>1. /\ at[d] # "idle" /\ UNCHANGED <<stream, producer, hand>>
        /\ finished' \subseteq finished \cup {JobOf(d)}
        /\ delayed' \subseteq delayed \cup {JobOf(d)}
    BY <1>10 DEF DispatchStep, Start, Prepare, Execute, ReleaseKey, Complete,
           SaveRetrying, Delay, FailTerminally, Acknowledge, Drop
  <2>2. JobOf(d) \in Jobs /\ entry[d] \in 1 .. Len(stream)
    BY <2>1, LiveSlot DEF TypeInv, JobsTypeOK
  <2>3. producer[JobOf(d)] # "idle"
    BY <2>2 DEF OnlyAddedJobs, JobOf
  <2> QED BY <1>2, <1>3, <2>1, <2>3
<1>11. CASE UNCHANGED jobVars
  BY <1>2, <1>3, <1>11 DEF jobVars
<1> QED
  BY <1>4, <1>5, <1>6, <1>7, <1>8, <1>9, <1>10, <1>11 DEF JobsNext, PromoterStep

\* Whoever takes an entry, the entries of the group are those they were.
LEMMA TakingKeepsGroup ==
  ASSUME TypeInv, NEW d \in Slots, Claim(d) \/ \E i \in pel : Reclaim(d, i)
  PROVE  /\ Unacknowledged' = Unacknowledged
         /\ \E i : entry' = [entry EXCEPT ![d] = i] /\ GotoSlot(d, "start")
         /\ UNCHANGED <<stream, producer, record, delayed, keys, applied, finished>>
         /\ UNCHANGED hand
<1> USE DEF queueVars, slotVars
<1>1. cursor \in Nat /\ Len(stream) \in Nat
  BY DEF TypeInv, JobsTypeOK
<1>2. CASE Claim(d)
  <2>1. cursor + 1 .. Len(stream) = {cursor + 1} \cup (cursor + 1 + 1 .. Len(stream))
    BY <1>1, <1>2 DEF Claim
  <2>2. Unacknowledged' = Unacknowledged
    BY <1>2, <2>1 DEF Claim, Unacknowledged, Undelivered
  <2> QED BY <1>2, <2>2 DEF Claim
<1>3. CASE \E i \in pel : Reclaim(d, i)
  BY <1>3 DEF Reclaim, Unacknowledged, Undelivered
<1> QED BY <1>2, <1>3

\* A push adds an entry that no slot has; the others stay as they are.
LEMMA PushKeepsGroup ==
  ASSUME TypeInv, NEW j \in Jobs, NEW n \in Attempts, Add(j, n),
         UNCHANGED <<cursor, pel>>
  PROVE  /\ \A i \in Unacknowledged : i \in Unacknowledged' /\ stream'[i] = stream[i]
         /\ \A i \in Unacknowledged' \ Unacknowledged :
              stream'[i] = [job |-> j, attempt |-> n]
         /\ \E i \in Unacknowledged' :
              /\ stream'[i] = [job |-> j, attempt |-> n]
              /\ \A d \in Slots : entry[d] # i
<1>1. [job |-> j, attempt |-> n] \in Entries
  BY DEF Entries
<1>2. /\ Len(stream') = Len(stream) + 1
      /\ \A i \in 1 .. Len(stream) : stream'[i] = stream[i]
  BY <1>1, AppendKeeps DEF Add, TypeInv, JobsTypeOK
<1>3. stream'[Len(stream) + 1] = [job |-> j, attempt |-> n]
  BY <1>1 DEF Add, TypeInv, JobsTypeOK
<1>4. cursor \in 0 .. Len(stream) /\ Len(stream) \in Nat /\ pel \subseteq 1 .. cursor
  BY DEF TypeInv, JobsTypeOK
<1>5. Unacknowledged' = Unacknowledged \cup {Len(stream) + 1}
  BY <1>2, <1>4 DEF Unacknowledged, Undelivered
<1>6. \A d \in Slots : entry[d] # Len(stream) + 1
  BY <1>4 DEF TypeInv, JobsTypeOK
<1> QED BY <1>2, <1>3, <1>4, <1>5, <1>6 DEF Unacknowledged, Undelivered

\* What a dispatch does to the group and to its own job, and to no other.
LEMMA DispatchKeepsGroup ==
  ASSUME TypeInv, NEW d \in Slots, DispatchStep(d) \/ Drop(d)
  PROVE  /\ UNCHANGED <<stream, cursor, producer, hand>>
         /\ at[d] # "idle" /\ JobOf(d) \in Jobs /\ AttemptOf(d) \in Attempts
         /\ entry[d] \in Nat \ {0} /\ entry'[d] \in {entry[d], 0}
         /\ \A o \in Slots \ {d} : at'[o] = at[o] /\ entry'[o] = entry[o]
         /\ Unacknowledged' \subseteq Unacknowledged
         /\ Unacknowledged \ {entry[d]} \subseteq Unacknowledged'
         /\ \A k \in Jobs \ {JobOf(d)} :
              record'[k] = record[k] /\ (k \in delayed' <=> k \in delayed)
<1> USE DEF queueVars, slotVars
<1>1. at[d] # "idle"
  BY DEF DispatchStep, Start, Prepare, Execute, ReleaseKey, Complete,
         SaveRetrying, Delay, FailTerminally, Acknowledge, Drop
<1>2. /\ UNCHANGED <<stream, cursor, producer, hand>>
      /\ pel' \subseteq pel /\ pel \ {entry[d]} \subseteq pel'
      /\ entry'[d] \in {entry[d], 0}
      /\ \A o \in Slots \ {d} : at'[o] = at[o] /\ entry'[o] = entry[o]
  BY DEF DispatchStep, Start, Prepare, Execute, ReleaseKey, Complete,
         SaveRetrying, Delay, FailTerminally, Acknowledge, Drop, GotoSlot,
         EndDispatch, Failed, TypeInv, JobsTypeOK
<1>3. JobOf(d) \in Jobs /\ AttemptOf(d) \in Attempts /\ entry[d] \in Nat \ {0}
  BY <1>1, LiveSlot DEF TypeInv, JobsTypeOK
<1>4. /\ UNCHANGED record \/ \E s : SaveState(JobOf(d), s, AttemptOf(d))
      /\ UNCHANGED delayed \/ delayed' = delayed \cup {JobOf(d)}
  BY DEF DispatchStep, Start, Prepare, Execute, ReleaseKey, Complete,
         SaveRetrying, Delay, FailTerminally, Acknowledge, Drop
<1>5. \A k \in Jobs \ {JobOf(d)} :
        record'[k] = record[k] /\ (k \in delayed' <=> k \in delayed)
  BY <1>3, <1>4 DEF SaveState, TypeInv, JobsTypeOK
<1> QED BY <1>1, <1>2, <1>3, <1>5 DEF Unacknowledged, Undelivered

\* An entry that awaits a slot goes on doing so, unless its own dispatch moves on.
LEMMA AwaitsOn ==
  ASSUME TypeInv, NEW d \in Slots, DispatchStep(d) \/ Drop(d), NEW where,
         NEW i \in Unacknowledged, \A o \in Slots : entry[o] = i => at[o] \in where,
         entry[d] = i => Drop(d)
  PROVE  /\ i \in Unacknowledged' /\ stream'[i] = stream[i]
         /\ \A o \in Slots : entry'[o] = i => at'[o] \in where
<1>1. i # 0
  BY DEF Unacknowledged, Undelivered, TypeInv, JobsTypeOK
<1>2. Drop(d) => entry'[d] = 0 /\ UNCHANGED <<stream, cursor, pel>>
  BY DEF Drop, EndDispatch, queueVars, TypeInv, JobsTypeOK
<1>3. entry[d] # i => i \in Unacknowledged' /\ stream'[i] = stream[i] /\ entry'[d] # i
  BY <1>1, DispatchKeepsGroup
<1> QED
  BY <1>1, <1>2, <1>3, DispatchKeepsGroup DEF Unacknowledged, Undelivered

LEMMA RetriesFollowDispatch ==
  ASSUME TypeInv, EntriesAreApart, SlotsArePending, RetriesFollow,
         NEW d \in Slots, DispatchStep(d) \/ Drop(d),
         NEW j \in Jobs, record'[j].status = "retrying"
  PROVE  LeadsOn(j, record[j].attempt)'
<1> USE DEF queueVars, slotVars
<1>1. CASE SaveRetrying(d) /\ j = JobOf(d)
  <2>1. /\ record'[j].attempt = AttemptOf(d)
        /\ UNCHANGED <<stream, cursor, pel>> /\ at[d] = "retry"
    BY <1>1 DEF SaveRetrying, SaveState, JobRecord, TypeInv, JobsTypeOK
  <2>2. entry[d] \in pel
    BY <2>1 DEF SlotsArePending
  <2>3. 0 \notin pel
    BY DEF TypeInv, JobsTypeOK
  <2>4. at'[d] = "delay" /\ entry' = entry
    BY <1>1 DEF SaveRetrying, GotoSlot, TypeInv, JobsTypeOK
  <2>5. \A o \in Slots : entry'[o] = entry[d] => o = d
    BY <2>2, <2>3, <2>4 DEF EntriesAreApart
  <2>6. stream[entry[d]] = [job |-> j, attempt |-> AttemptOf(d)]
    BY <1>1, <2>1, LiveSlot DEF Entries, JobOf, AttemptOf
  <2>7. Awaits(j, AttemptOf(d), {"start", "delay"})'
    BY <2>1, <2>2, <2>4, <2>5, <2>6 DEF Awaits, Unacknowledged, Undelivered, AttemptOf
  <2>8. AttemptOf(d)' = AttemptOf(d)
    BY <2>1, <2>4 DEF AttemptOf
  <2> QED BY <2>1, <2>7, <2>8 DEF LeadsOn, Awaits
<1>2. CASE Delay(d) /\ j = JobOf(d)
  BY <1>2 DEF Delay, LeadsOn
<1>3. CASE \/ j # JobOf(d)
           \/ UNCHANGED record /\ at[d] \notin {"start", "delay"}
           \/ Drop(d)
  <2>1. record'[j] = record[j] /\ (j \in delayed => j \in delayed') /\ UNCHANGED hand
    BY <1>3, DispatchKeepsGroup
       DEF DispatchStep, Start, Prepare, Execute, ReleaseKey, Complete,
           SaveRetrying, Delay, FailTerminally, Acknowledge, Drop
  <2>2. PICK n : n = record[j].attempt
    OBVIOUS
  <2>3. LeadsOn(j, n)
    BY <2>1, <2>2 DEF RetriesFollow
  <2>4. ASSUME NEW m, NEW where \in SUBSET {"start", "delay"}, Awaits(j, m, where)
        PROVE  Awaits(j, m, where)'
    <3>1. PICK i \in Unacknowledged :
            /\ stream[i] = [job |-> j, attempt |-> m]
            /\ \A o \in Slots : entry[o] = i => at[o] \in where
      BY <2>4 DEF Awaits
    <3>2. entry[d] = i => j = JobOf(d) /\ at[d] \in {"start", "delay"}
      <4>1. stream[i].job = j
        BY <3>1
      <4> QED BY <3>1, <4>1 DEF JobOf
    <3>3. entry[d] = i => Drop(d)
      BY <1>3, <3>2
    <3>4. /\ i \in Unacknowledged' /\ stream'[i] = stream[i]
          /\ \A o \in Slots : entry'[o] = i => at'[o] \in where
      BY <3>1, <3>3, AwaitsOn
    <3> QED BY <3>1, <3>4 DEF Awaits
  <2>5. LeadsOn(j, n)'
    BY <2>1, <2>3, <2>4 DEF LeadsOn, Promoting, Loading
  <2>6. record'[j].attempt = n
    BY <2>1, <2>2
  <2> QED BY <2>5, <2>6 DEF LeadsOn, Awaits, Promoting
<1>4. CASE j = JobOf(d) /\ Start(d)
  BY <1>4, DispatchKeepsGroup DEF Start, SaveState, JobRecord, TypeInv, JobsTypeOK
<1>5. CASE j = JobOf(d) /\ (Complete(d) \/ FailTerminally(d))
  <2>1. CASE UNCHANGED record
    BY <1>3, <1>5, <2>1 DEF Complete, FailTerminally
  <2>2. CASE \E s \in {"completed", "failed"} : SaveState(JobOf(d), s, AttemptOf(d))
    BY <1>5, <2>2, DispatchKeepsGroup DEF SaveState, JobRecord, TypeInv, JobsTypeOK
  <2> QED BY <1>5, <2>1, <2>2 DEF Complete, FailTerminally
<1>6. CASE Prepare(d) \/ Execute(d) \/ ReleaseKey(d) \/ Acknowledge(d)
  BY <1>3, <1>6 DEF Prepare, Execute, ReleaseKey, Acknowledge
<1> QED BY <1>1, <1>2, <1>3, <1>4, <1>5, <1>6 DEF DispatchStep

LEMMA RetriesFollowStep ==
  ASSUME TypeInv, Careful, EntriesAreApart, SlotsArePending, RetriesFollow,
         [JobsNext]_jobVars
  PROVE  RetriesFollow'
<1> USE DEF queueVars, slotVars
<1>1. ASSUME NEW j \in Jobs, NEW n \in Attempts, Add(j, n),
             UNCHANGED <<cursor, pel, record, delayed, entry, at>>,
             \A p \in Promoters :
               \/ hand'[p] = hand[p]
               \/ hand[p].at = "add" /\ hand[p].job = j /\ hand[p].attempt = n
      PROVE  RetriesFollow'
  <2> SUFFICES ASSUME NEW k \in Jobs, record[k].status = "retrying"
               PROVE  LeadsOn(k, record[k].attempt)'
    BY <1>1 DEF RetriesFollow
  <2>1. PICK m : m = record[k].attempt
    OBVIOUS
  <2>2. LeadsOn(k, m)
    BY <2>1 DEF RetriesFollow
  <2>3. \A l, where : Awaits(k, l, where) => Awaits(k, l, where)'
    <3> SUFFICES ASSUME NEW l, NEW where, NEW i \in Unacknowledged,
                        stream[i] = [job |-> k, attempt |-> l],
                        \A d \in Slots : entry[d] = i => at[d] \in where
                 PROVE  Awaits(k, l, where)'
      BY DEF Awaits
    <3>1. i \in Unacknowledged' /\ stream'[i] = stream[i]
      BY <1>1, PushKeepsGroup
    <3> QED BY <1>1, <3>1 DEF Awaits
  <2>4. Awaits(j, n, {"start"})'
    BY <1>1, PushKeepsGroup DEF Awaits
  <2>5. Promoting(k, m + 1) => Promoting(k, m + 1)' \/ (k = j /\ m + 1 = n)
    BY <1>1 DEF Promoting
  <2>6. Loading(k) => Loading(k)'
    BY <1>1 DEF Loading
  <2>7. LeadsOn(k, m)'
    BY <1>1, <2>2, <2>3, <2>4, <2>5, <2>6 DEF LeadsOn
  <2> QED BY <1>1, <2>1, <2>7 DEF LeadsOn, Awaits, Promoting
<1>2. ASSUME UNCHANGED <<stream, cursor, pel, entry, at>>,
             \A j \in Jobs : record'[j].status = "retrying" =>
               /\ record'[j] = record[j]
               /\ Promoting(j, record[j].attempt + 1)
                    => Promoting(j, record[j].attempt + 1)'
               /\ j \in delayed \/ Loading(j) =>
                    j \in delayed' \/ Loading(j)' \/ Promoting(j, record[j].attempt + 1)'
      PROVE  RetriesFollow'
  <2> SUFFICES ASSUME NEW j \in Jobs, record'[j].status = "retrying"
               PROVE  LeadsOn(j, record[j].attempt)'
    BY DEF RetriesFollow
  <2>1. PICK n : n = record[j].attempt /\ n = record'[j].attempt
    BY <1>2
  <2>2. LeadsOn(j, n)
    BY <1>2, <2>1 DEF RetriesFollow
  <2>3. \A l, where : Awaits(j, l, where) => Awaits(j, l, where)'
    BY <1>2 DEF Awaits, Unacknowledged, Undelivered
  <2>4. LeadsOn(j, n)'
    BY <1>2, <2>1, <2>2, <2>3 DEF LeadsOn, Promoting
  <2> QED BY <2>1, <2>4 DEF LeadsOn, Awaits, Promoting
<1>3. ASSUME NEW j \in Jobs, Enqueue(j) PROVE RetriesFollow'
  <2>1. 1 \in Attempts
    BY JobQueueConstants DEF Attempts
  <2> QED BY <1>1, <1>3, <2>1 DEF Enqueue
<1>4. ASSUME NEW j \in Jobs, EnqueueSaved(j) PROVE RetriesFollow'
  <2>1. \A k \in Jobs : record'[k].status = "retrying" => record'[k] = record[k]
    BY <1>4 DEF EnqueueSaved, SaveState, JobRecord, TypeInv, JobsTypeOK
  <2> QED BY <1>2, <1>4, <2>1 DEF EnqueueSaved, Promoting, Loading
<1>5. ASSUME NEW p \in Promoters, NEW j \in Jobs, TakeDue(p, j) PROVE RetriesFollow'
  <2>1. /\ Loading(j)'
        /\ \A o \in Promoters : hand[o].at # "idle" => hand'[o] = hand[o]
    BY <1>5 DEF TakeDue, Loading, Empty, TypeInv, JobsTypeOK
  <2> QED BY <1>2, <1>5, <2>1 DEF TakeDue, Promoting, Loading
<1>6. ASSUME NEW p \in Promoters, LoadState(p) PROVE RetriesFollow'
  <2>1. \A o \in Promoters : hand[o].at # "load" => hand'[o] = hand[o]
    BY <1>6 DEF LoadState
  <2>2. \A k \in Jobs : Loading(k) /\ record[k].status = "retrying" =>
          Loading(k)' \/ Promoting(k, record[k].attempt + 1)'
    BY <1>6 DEF LoadState, Loading, Promoting, TypeInv, JobsTypeOK
  <2> QED BY <1>2, <1>6, <2>1, <2>2 DEF LoadState, Promoting
<1>7. ASSUME NEW p \in Promoters, Promote(p) PROVE RetriesFollow'
  <2>1. hand[p].job \in Jobs /\ hand[p].attempt \in Attempts
    BY <1>7 DEF Promote, TypeInv, JobsTypeOK, Hands
  <2> QED BY <1>1, <1>7, <2>1 DEF Promote
<1>8. ASSUME NEW p \in Promoters, PromoteSaved(p) \/ PromoterDrops(p)
      PROVE  RetriesFollow'
  <2>1. \A o \in Promoters : hand[o].at \in {"add", "load"} => hand'[o] = hand[o]
    BY <1>8 DEF PromoteSaved, PromoterDrops, Careful, TypeInv, JobsTypeOK
  <2>2. \A k \in Jobs : record'[k].status = "retrying" => record'[k] = record[k]
    BY <1>8 DEF PromoteSaved, PromoterDrops, SaveState, JobRecord, TypeInv, JobsTypeOK
  <2> QED
    BY <1>2, <1>8, <2>1, <2>2 DEF PromoteSaved, PromoterDrops, Promoting, Loading
<1>9. ASSUME NEW d \in Slots, Claim(d) \/ \E i \in pel : Reclaim(d, i)
      PROVE  RetriesFollow'
  <2>1. \A j, n, where :
          "start" \in where /\ Awaits(j, n, where) => Awaits(j, n, where)'
    <3>1. \A o \in Slots \ {d} : entry'[o] = entry[o] /\ at'[o] = at[o]
      BY <1>9, TakingKeepsGroup DEF GotoSlot, TypeInv, JobsTypeOK
    <3>2. at'[d] = "start"
      BY <1>9, TakingKeepsGroup DEF GotoSlot, TypeInv, JobsTypeOK
    <3> QED BY <1>9, <3>1, <3>2, TakingKeepsGroup DEF Awaits
  <2>2. \A j \in Jobs : \A n : LeadsOn(j, n) => LeadsOn(j, n)'
    BY <1>9, <2>1, TakingKeepsGroup DEF LeadsOn, Promoting, Loading
  <2>3. UNCHANGED record
    BY <1>9, TakingKeepsGroup
  <2> QED BY <2>2, <2>3 DEF RetriesFollow, LeadsOn, Awaits, Promoting
<1>10. ASSUME NEW d \in Slots, DispatchStep(d) \/ Drop(d) PROVE RetriesFollow'
  BY <1>10, RetriesFollowDispatch DEF RetriesFollow
<1>11. CASE UNCHANGED jobVars
  BY <1>2, <1>11 DEF jobVars, Promoting, Loading
<1> QED
  BY <1>3, <1>4, <1>5, <1>6, <1>7, <1>8, <1>9, <1>10, <1>11 DEF JobsNext, PromoterStep

-----------------------------------------------------------------------------
(* What the steps owe.                                                     *)

\* An added job that is not finished is owed an attempt.
WorkRemains == \A j \in Jobs : producer[j] # "idle" => Owed(j) # {} \/ j \in finished

LEMMA OwedInvStep ==
  ASSUME TypeInv, Careful, EntriesAreApart, OwedInv, [JobsNext]_jobVars
  PROVE  OwedInv'
BY SlotsPendingStep, OnlyAddedStep, RetriesFollowStep DEF OwedInv

\* An entry that nobody has acknowledged owes its attempt.
LEMMA EntryOwes ==
  ASSUME TypeInv, NEW i \in Unacknowledged
  PROVE  /\ i \in 1 .. Len(stream) /\ stream[i] \in Entries
         /\ stream[i].attempt \in Owed(stream[i].job)
<1>1. i \in 1 .. Len(stream)
  BY DEF Unacknowledged, Undelivered, TypeInv, JobsTypeOK
<1>2. stream[i] \in Entries
  BY <1>1 DEF TypeInv, JobsTypeOK
<1>3. stream[i] = [job |-> stream[i].job, attempt |-> stream[i].attempt]
  BY <1>2 DEF Entries
<1>4. stream[i].attempt \in Attempts
  BY <1>2 DEF Entries
<1> QED BY <1>1, <1>2, <1>3, <1>4 DEF Owed, Entered

LEMMA SlotOwes ==
  ASSUME TypeInv, NEW d \in Slots, entry[d] \in pel
  PROVE  AttemptOf(d) \in Owed(JobOf(d))
BY EntryOwes DEF Unacknowledged, AttemptOf, JobOf

LEMMA OwedRemains == TypeInv /\ WorkInv /\ OwedInv => WorkRemains
<1> SUFFICES ASSUME TypeInv, WorkInv, NEW j \in Jobs, producer[j] # "idle"
             PROVE  Owed(j) # {} \/ j \in finished
  BY DEF WorkRemains
<1>1. Kept(j) \/ Retried(j)
  BY DEF WorkInv, JobsAreKept
<1>2. Waits(j) \/ Left(j) => Owed(j) # {}
  BY EntryOwes DEF Waits, Left, Unacknowledged
<1>3. Dispatched(j) \/ Delaying(j) => Owed(j) # {} \/ j \in finished
  BY SlotOwes DEF Dispatched, Delaying, WorkInv, DispatchesArePending
<1>4. ASSUME Promoted(j) PROVE Owed(j) # {}
  <2>1. PICK p \in Promoters : hand[p].at = "add" /\ hand[p].job = j
    BY <1>4 DEF Promoted
  <2>2. hand[p].attempt \in Attempts
    BY <2>1 DEF TypeInv, JobsTypeOK, Hands
  <2> QED BY <2>1, <2>2 DEF Owed, Promoting
<1>5. ASSUME record[j].status = "retrying", j \in delayed \/ Loading(j)
      PROVE  Owed(j) # {}
  <2>1. record[j].attempt + 1 \in Attempts
    BY <1>5, JobQueueConstants DEF TypeInv, JobsTypeOK, RetriesRemain, Attempts
  <2> QED BY <1>5, <2>1 DEF Owed, Asked
<1> QED BY <1>1, <1>2, <1>3, <1>4, <1>5 DEF Kept, Retried

\* Nothing is owed of a job that was not added.
LEMMA NothingOwedBefore ==
  ASSUME TypeInv, OnlyAddedJobs, NEW j \in Jobs, producer[j] = "idle"
  PROVE  Owed(j) = {} /\ j \notin finished
<1>1. \A i \in 1 .. Len(stream) : stream[i].job # j
  BY DEF OnlyAddedJobs
<1>2. \A n : ~ Entered(j, n)
  BY <1>1, EntryOwes DEF Entered
<1>3. \A p \in Promoters : hand[p].at # "idle" => hand[p].job # j
  BY DEF OnlyAddedJobs, Empty
<1>4. \A n : ~ Promoting(j, n) /\ ~ Loading(j)
  BY <1>3 DEF Promoting, Loading
<1>5. j \notin finished \cup delayed
  BY DEF OnlyAddedJobs
<1> QED BY <1>2, <1>4, <1>5 DEF Owed, Asked

\* A job is owed what it was, when the three places are as they were.
LEMMA OwedFrame ==
  ASSUME NEW k \in Jobs,
         \A n \in Attempts : Entered(k, n)' <=> Entered(k, n),
         \A n \in Attempts : Promoting(k, n)' <=> Promoting(k, n),
         \A n \in Attempts : Asked(k, n)' <=> Asked(k, n)
  PROVE  Owed(k)' = Owed(k)
BY DEF Owed, Attempts

LEMMA EnteredFrame ==
  ASSUME UNCHANGED stream, Unacknowledged' = Unacknowledged, NEW k, NEW n
  PROVE  Entered(k, n)' <=> Entered(k, n)
BY DEF Entered

\* A push adds one attempt to the group.
LEMMA PushEnters ==
  ASSUME TypeInv, NEW j \in Jobs, NEW n \in Attempts, Add(j, n),
         UNCHANGED <<cursor, pel>>, NEW k, NEW m
  PROVE  Entered(k, m)' <=> Entered(k, m) \/ (k = j /\ m = n)
<1>1. Entered(k, m) => Entered(k, m)'
  BY PushKeepsGroup DEF Entered
<1>2. Entered(j, n)'
  BY PushKeepsGroup DEF Entered
<1>3. ASSUME NEW i \in Unacknowledged', stream'[i] = [job |-> k, attempt |-> m]
      PROVE  Entered(k, m) \/ (k = j /\ m = n)
  <2>1. CASE i \in Unacknowledged
    BY <1>3, <2>1, PushKeepsGroup DEF Entered
  <2>2. CASE i \notin Unacknowledged
    <3>1. [job |-> k, attempt |-> m] = [job |-> j, attempt |-> n]
      BY <1>3, <2>2, PushKeepsGroup
    <3> QED BY <3>1
  <2> QED BY <2>1, <2>2
<1> QED BY <1>1, <1>2, <1>3 DEF Entered

\* A dispatch enters nothing, and what it does to another job is nothing.
LEMMA DispatchOwes ==
  ASSUME TypeInv, NEW d \in Slots, DispatchStep(d) \/ Drop(d), NEW k \in Jobs
  PROVE  /\ \A n : /\ Entered(k, n)' => Entered(k, n)
                   /\ Promoting(k, n)' <=> Promoting(k, n)
         /\ Loading(k)' <=> Loading(k)
         /\ k # JobOf(d) => Owed(k)' = Owed(k)
<1>1. \A n : /\ Entered(k, n)' => Entered(k, n)
             /\ Promoting(k, n)' <=> Promoting(k, n)
  BY DispatchKeepsGroup DEF Entered, Promoting
<1>2. Loading(k)' <=> Loading(k)
  BY DispatchKeepsGroup DEF Loading
<1>3. ASSUME k # JobOf(d), NEW n, Entered(k, n) PROVE Entered(k, n)'
  <2>1. PICK i \in Unacknowledged : stream[i] = [job |-> k, attempt |-> n]
    BY <1>3 DEF Entered
  <2>2. stream[i].job = k
    BY <2>1
  <2>3. i # entry[d]
    BY <1>3, <2>2 DEF JobOf
  <2> QED BY <2>1, <2>3, DispatchKeepsGroup DEF Entered
<1>4. ASSUME k # JobOf(d), NEW n PROVE Asked(k, n)' <=> Asked(k, n)
  BY <1>2, <1>4, DispatchKeepsGroup DEF Asked
<1> QED BY <1>1, <1>2, <1>3, <1>4, OwedFrame

-----------------------------------------------------------------------------
(* Every step is one of the abstract queue, or none.                       *)

\* Attempts of one job are handed over.
LEMMA HandsOver ==
  ASSUME NEW j \in Jobs, \A k \in Jobs \ {j} : Owed(k)' = Owed(k),
         \A n \in Owed(j)' : n \in Owed(j) \/ n - 1 \in Owed(j),
         Owed(j)' # {} \/ j \in finished, UNCHANGED <<finished, applied>>
  PROVE  Delivery!Next
<1> DEFINE now == [k \in Jobs |-> Owed(k)]
           next == {n + 1 : n \in now[j]} \cap Delivery!Attempts
           left == Owed(j)'
<1>1. now' = [now EXCEPT ![j] = left]
  OBVIOUS
<1>2. left \in SUBSET (now[j] \cup next)
  <2>1. \A n \in left : n \in Attempts /\ n = (n - 1) + 1
    BY DEF Owed, Attempts
  <2> QED BY <2>1 DEF Delivery!Attempts, Attempts
<1>3. Delivery!Retry(j)
  BY <1>1, <1>2 DEF Delivery!Retry
<1> QED BY <1>3 DEF Delivery!Next

LEMMA NothingOwedNew ==
  ASSUME \A k \in Jobs : Owed(k)' = Owed(k), UNCHANGED <<finished, applied>>
  PROVE  UNCHANGED Delivery!promises
BY DEF Delivery!promises

LEMMA Finishes ==
  ASSUME NEW j \in Jobs, \A k \in Jobs \ {j} : Owed(k)' = Owed(k),
         Owed(j)' \subseteq Owed(j), Owed(j) # {} \/ j \in finished,
         finished' = finished \cup {j}, UNCHANGED applied
  PROVE  [Delivery!Next]_(Delivery!promises)
<1> DEFINE now == [k \in Jobs |-> Owed(k)]
           left == Owed(j)'
<1>1. now' = [now EXCEPT ![j] = left]
  OBVIOUS
<1>2. CASE Owed(j) # {}
  <2>1. left \in SUBSET now[j] /\ now[j] # {}
    BY <1>2
  <2>2. Delivery!Finish(j)
    BY <1>1, <2>1 DEF Delivery!Finish
  <2> QED BY <2>2 DEF Delivery!Next
<1>3. CASE Owed(j) = {}
  BY <1>3, NothingOwedNew
<1> QED BY <1>2, <1>3

\* Enqueue owes the first attempt, and nothing else.
LEMMA EnqueueOwes ==
  ASSUME TypeInv, OnlyAddedJobs, NEW j \in Jobs, Enqueue(j)
  PROVE  Delivery!Next
<1> DEFINE now == [k \in Jobs |-> Owed(k)]
<1>0. 1 \in Attempts
  BY JobQueueConstants DEF Attempts
<1>1. Owed(j) = {} /\ j \notin finished
  BY NothingOwedBefore DEF Enqueue
<1>2. \A k \in Jobs : \A n :
        /\ Entered(k, n)' <=> Entered(k, n) \/ (k = j /\ n = 1)
        /\ Promoting(k, n)' <=> Promoting(k, n)
        /\ Asked(k, n)' <=> Asked(k, n)
  <2>1. \A k \in Jobs : \A n : Entered(k, n)' <=> Entered(k, n) \/ (k = j /\ n = 1)
    BY <1>0, PushEnters DEF Enqueue
  <2> QED BY <2>1 DEF Enqueue, Promoting, Asked, Loading
<1>3. \A k \in Jobs \ {j} : Owed(k)' = Owed(k)
  BY <1>2, OwedFrame
<1>4. Owed(j)' = {1}
  BY <1>0, <1>1, <1>2 DEF Owed, Attempts
<1>5. now' = [now EXCEPT ![j] = {1}] /\ now[j] = {}
  BY <1>1, <1>3, <1>4
<1>6. Delivery!Enqueue(j)
  BY <1>1, <1>5 DEF Delivery!Enqueue, Enqueue
<1> QED BY <1>6 DEF Delivery!Next

\* What writes a record that does not ask for a retry owes nothing new.
LEMMA SavingOwes ==
  ASSUME TypeInv, WorkRemains', NEW j \in Jobs, producer'[j] # "idle",
         NEW s \in {"queued", "running"}, NEW n, SaveState(j, s, n),
         UNCHANGED <<stream, cursor, pel, delayed, finished, applied>>,
         \A p \in Promoters :
           \/ hand'[p] = hand[p]
           \/ hand[p].at = "save" /\ hand'[p].at = "idle"
  PROVE  Delivery!Next
<1>1. \A k \in Jobs : \A m :
        /\ Entered(k, m)' <=> Entered(k, m)
        /\ Promoting(k, m)' <=> Promoting(k, m)
        /\ Loading(k)' <=> Loading(k)
  BY DEF Entered, Unacknowledged, Undelivered, Promoting, Loading
<1>2. /\ record'[j].status # "retrying"
      /\ \A k \in Jobs \ {j} : record'[k] = record[k]
  BY DEF SaveState, JobRecord, TypeInv, JobsTypeOK
<1>3. \A k \in Jobs \ {j} : Owed(k)' = Owed(k)
  BY <1>1, <1>2, OwedFrame DEF Asked
<1>4. Owed(j)' \subseteq Owed(j)
  BY <1>1, <1>2 DEF Owed, Asked, Attempts
<1>5. Owed(j)' # {} \/ j \in finished
  BY DEF WorkRemains
<1> QED BY <1>3, <1>4, <1>5, HandsOver

\* A promotion moves the attempt it owes from hand to hand.
LEMMA PromotionOwes ==
  ASSUME TypeInv, Careful, NEW p \in Promoters,
         \/ \E j \in Jobs : TakeDue(p, j)
         \/ LoadState(p) \/ Promote(p) \/ PromoterDrops(p)
  PROVE  UNCHANGED Delivery!promises
<1> USE DEF queueVars, slotVars
<1>1. UNCHANGED <<finished, applied, record>>
  BY DEF TakeDue, LoadState, Promote, PromoterDrops
<1>2. \A o \in Promoters \ {p} : hand'[o] = hand[o]
  BY DEF TakeDue, LoadState, Promote, PromoterDrops, TypeInv, JobsTypeOK
<1> SUFFICES ASSUME NEW k \in Jobs PROVE Owed(k)' = Owed(k)
  BY <1>1, NothingOwedNew
<1>3. ASSUME NEW j \in Jobs, TakeDue(p, j) PROVE Owed(k)' = Owed(k)
  <2>1. \A n : Entered(k, n)' <=> Entered(k, n)
    BY <1>3 DEF TakeDue, Entered, Unacknowledged, Undelivered
  <2>2. hand[p].at = "idle" /\ hand'[p].at = "load" /\ hand'[p].job = j
    BY <1>3 DEF TakeDue, Empty, TypeInv, JobsTypeOK
  <2>3. \A n : Promoting(k, n)' <=> Promoting(k, n)
    BY <1>2, <2>2 DEF Promoting
  <2>4. Loading(k)' <=> Loading(k) \/ k = j
    BY <1>2, <2>2 DEF Loading
  <2>5. \A n : Asked(k, n)' <=> Asked(k, n)
    BY <1>1, <1>3, <2>4 DEF TakeDue, Asked
  <2> QED BY <2>1, <2>3, <2>5, OwedFrame
<1>4. CASE LoadState(p)
  <2>1. \A n : Entered(k, n)' <=> Entered(k, n)
    BY <1>4 DEF LoadState, Entered, Unacknowledged, Undelivered
  <2>2. hand[p].at = "load" /\ UNCHANGED delayed
    BY <1>4 DEF LoadState
  <2>3. CASE record[hand[p].job].status = "retrying"
    <3>1. /\ hand'[p].at = "add" /\ hand'[p].job = hand[p].job
          /\ hand'[p].attempt = record[hand[p].job].attempt + 1
      BY <1>4, <2>3 DEF LoadState, TypeInv, JobsTypeOK
    <3>2. \A n : Promoting(k, n)' <=>
            Promoting(k, n) \/ (k = hand[p].job /\ n = record[k].attempt + 1)
      BY <1>2, <2>2, <3>1 DEF Promoting
    <3>3. Loading(k) <=> Loading(k)' \/ k = hand[p].job
      BY <1>2, <2>2, <3>1 DEF Loading
    <3>4. \A n : Asked(k, n)' => Asked(k, n)
      BY <1>1, <2>2, <3>3 DEF Asked
    <3>5. \A n : Asked(k, n) =>
            Asked(k, n)' \/ (k = hand[p].job /\ n = record[k].attempt + 1)
      BY <1>1, <2>2, <3>3 DEF Asked
    <3>6. \A n : k = hand[p].job /\ n = record[k].attempt + 1 => Asked(k, n)
      BY <2>3, <3>3 DEF Asked
    <3>7. \A n : Entered(k, n)' \/ Promoting(k, n)' \/ Asked(k, n)'
                   <=> Entered(k, n) \/ Promoting(k, n) \/ Asked(k, n)
      BY <2>1, <3>2, <3>4, <3>5, <3>6
    <3> QED BY <3>7 DEF Owed, Attempts
  <2>4. CASE record[hand[p].job].status # "retrying"
    <3>1. hand'[p].at = "idle"
      BY <1>4, <2>4 DEF LoadState, TypeInv, JobsTypeOK
    <3>2. \A n : Promoting(k, n)' <=> Promoting(k, n)
      BY <1>2, <2>2, <3>1 DEF Promoting
    <3>3. Loading(k) <=> Loading(k)' \/ k = hand[p].job
      BY <1>2, <2>2, <3>1 DEF Loading
    <3>4. \A n : Asked(k, n)' <=> Asked(k, n)
      BY <1>1, <2>2, <2>4, <3>3 DEF Asked
    <3> QED BY <2>1, <3>2, <3>4, OwedFrame
  <2> QED BY <2>3, <2>4
<1>5. CASE Promote(p)
  <2>1. /\ hand[p].at = "add" /\ hand'[p].at = "save"
        /\ hand[p].job \in Jobs /\ hand[p].attempt \in Attempts
    BY <1>5 DEF Promote, TypeInv, JobsTypeOK, Hands
  <2>2. \A n : Entered(k, n)' <=>
          Entered(k, n) \/ (k = hand[p].job /\ n = hand[p].attempt)
    BY <1>5, <2>1, PushEnters DEF Promote
  <2>3. \A n : Promoting(k, n) <=>
          Promoting(k, n)' \/ (k = hand[p].job /\ n = hand[p].attempt)
    BY <1>2, <2>1 DEF Promoting
  <2>4. \A n : Asked(k, n)' <=> Asked(k, n)
    BY <1>1, <1>2, <1>5, <2>1 DEF Promote, Asked, Loading
  <2>5. \A n : Entered(k, n)' \/ Promoting(k, n)' \/ Asked(k, n)'
                 <=> Entered(k, n) \/ Promoting(k, n) \/ Asked(k, n)
    BY <2>2, <2>3, <2>4
  <2> QED BY <2>5 DEF Owed, Attempts
<1>6. CASE PromoterDrops(p)
  <2>1. hand[p].at = "save" /\ hand'[p].at = "idle"
    BY <1>6 DEF PromoterDrops, Careful, TypeInv, JobsTypeOK
  <2>2. \A n : /\ Entered(k, n)' <=> Entered(k, n)
               /\ Promoting(k, n)' <=> Promoting(k, n)
    BY <1>2, <1>6, <2>1 DEF PromoterDrops, Entered, Unacknowledged, Undelivered,
                            Promoting
  <2>3. \A n : Asked(k, n)' <=> Asked(k, n)
    BY <1>1, <1>2, <1>6, <2>1 DEF PromoterDrops, Asked, Loading
  <2> QED BY <2>2, <2>3, OwedFrame
<1> QED BY <1>3, <1>4, <1>5, <1>6

-----------------------------------------------------------------------------

\* A dispatch executes what is owed, hands it over, or finishes its job.
LEMMA DispatchDelivers ==
  ASSUME TypeInv, KeyInv, OwedInv, WorkRemains, WorkRemains',
         NEW d \in Slots, DispatchStep(d) \/ Drop(d)
  PROVE  [Delivery!Next]_(Delivery!promises)
<1> USE DEF queueVars, slotVars
<1>0. PICK j \in Jobs, m \in Attempts : j = JobOf(d) /\ m = AttemptOf(d)
  BY DispatchKeepsGroup
<1>1. /\ j \in Jobs /\ m \in Attempts /\ at[d] # "idle"
      /\ UNCHANGED <<stream, cursor, producer, hand>>
      /\ \A k \in Jobs \ {j} : Owed(k)' = Owed(k)
  BY <1>0, DispatchKeepsGroup, DispatchOwes
<1>2. producer[j] # "idle" /\ producer'[j] # "idle"
  <2>1. entry[d] \in 1 .. Len(stream)
    BY <1>1, LiveSlot DEF TypeInv, JobsTypeOK
  <2> QED BY <1>0, <1>1, <2>1 DEF OwedInv, OnlyAddedJobs, JobOf
<1>3. /\ Owed(j) # {} \/ j \in finished
      /\ Owed(j)' # {} \/ j \in finished'
  BY <1>1, <1>2 DEF WorkRemains
<1>4. \A n : /\ Entered(j, n)' => Entered(j, n)
             /\ Promoting(j, n)' <=> Promoting(j, n)
             /\ Loading(j)' <=> Loading(j)
  BY <1>1, DispatchOwes
<1>5. at[d] \notin {"fail", "settled"} => m \in Owed(j)
  BY <1>0, <1>1, SlotOwes DEF OwedInv, SlotsArePending
<1>6. UNCHANGED pel => \A n : Entered(j, n)' <=> Entered(j, n)
  BY <1>1 DEF Entered, Unacknowledged, Undelivered
<1>7. CASE UNCHANGED <<pel, record, delayed, finished>>
  <2>1. \A n : Asked(j, n)' <=> Asked(j, n)
    BY <1>4, <1>7 DEF Asked
  <2>2. \A k \in Jobs : Owed(k)' = Owed(k)
    BY <1>1, <1>4, <1>6, <1>7, <2>1, OwedFrame
  <2>3. CASE UNCHANGED applied
    BY <1>7, <2>2, <2>3, NothingOwedNew
  <2>4. CASE /\ at[d] = "execute"
             /\ applied' = [applied EXCEPT ![EffectIn(d)] = IF @ < 2 THEN @ + 1 ELSE 2]
    <3>1. Owed(j) # {}
      BY <1>5, <2>4
    <3>2. EffectOf[j] \in Keyed => applied[EffectOf[j]] = 0
      BY <1>0, <2>4 DEF EffectIn, KeyInv, HolderHasKey, Holds, Holding
    <3>3. [k \in Jobs |-> Owed(k)]' = [k \in Jobs |-> Owed(k)]
      BY <2>2
    <3>4. Delivery!Execute(j)
      BY <1>0, <1>7, <2>4, <3>1, <3>2, <3>3 DEF Delivery!Execute, EffectIn
    <3> QED BY <1>1, <3>4 DEF Delivery!Next
  <2>5. \/ UNCHANGED applied
        \/ /\ at[d] = "execute"
           /\ applied' = [applied EXCEPT ![EffectIn(d)] = IF @ < 2 THEN @ + 1 ELSE 2]
    BY DEF DispatchStep, Start, Prepare, Execute, ReleaseKey, Complete,
           SaveRetrying, Delay, FailTerminally, Acknowledge, Drop
  <2> QED BY <2>3, <2>4, <2>5
\* A new record that asks for no retry.
<1>8. ASSUME NEW s \in {"running", "completed", "failed"}, SaveState(j, s, m),
             UNCHANGED delayed
      PROVE  Owed(j)' \subseteq Owed(j)
  <2>1. record'[j].status # "retrying"
    BY <1>1, <1>8 DEF SaveState, JobRecord, TypeInv, JobsTypeOK
  <2> QED BY <1>4, <2>1 DEF Owed, Asked, Attempts
<1>9. CASE Start(d)
  <2>1. Owed(j)' \subseteq Owed(j)
    BY <1>0, <1>8, <1>9 DEF Start
  <2> QED BY <1>1, <1>3, <1>9, <2>1, HandsOver DEF Start
<1>10. CASE Prepare(d) \/ Execute(d) \/ ReleaseKey(d) \/ Drop(d)
  BY <1>7, <1>10 DEF Prepare, Execute, ReleaseKey, Drop
<1>11. CASE Complete(d) \/ FailTerminally(d)
  <2>1. CASE UNCHANGED <<record, finished>>
    BY <1>7, <1>11, <2>1 DEF Complete, FailTerminally
  <2>2. CASE /\ \E s \in {"completed", "failed"} : SaveState(j, s, m)
             /\ finished' = finished \cup {j} /\ UNCHANGED <<delayed, applied>>
    <3>1. Owed(j)' \subseteq Owed(j)
      BY <1>8, <2>2
    <3> QED BY <1>1, <1>3, <2>2, <3>1, Finishes
  <2> QED BY <1>0, <1>11, <2>1, <2>2 DEF Complete, FailTerminally
<1>12. CASE SaveRetrying(d)
  <2>1. record'[j].attempt = m
    BY <1>0, <1>12 DEF SaveRetrying, SaveState, JobRecord, TypeInv, JobsTypeOK
  <2>2. m \in Owed(j)
    BY <1>5, <1>12 DEF SaveRetrying
  <2>3. \A n \in Owed(j)' : Asked(j, n)' => n - 1 = m
    BY <1>1, <2>1 DEF Asked, Owed, Attempts
  <2>4. \A n \in Owed(j)' : n \in Owed(j) \/ Asked(j, n)'
    BY <1>4 DEF Owed, Attempts
  <2>5. \A n \in Owed(j)' : n \in Owed(j) \/ n - 1 \in Owed(j)
    BY <2>2, <2>3, <2>4
  <2> QED BY <1>1, <1>3, <1>12, <2>5, HandsOver DEF SaveRetrying
<1>13. CASE Delay(d)
  <2>1. PICK a \in Attempts : a = record[j].attempt
    BY DEF TypeInv, JobsTypeOK
  <2>2. UNCHANGED <<record, finished, applied>> /\ a \in Nat
    BY <1>13 DEF Delay, Attempts
  <2>3. \A n : Asked(j, n)' => record[j].status = "retrying" /\ n = a + 1
    BY <2>2, <2>1 DEF Asked
  <2>4. ASSUME record[j].status = "retrying"
        PROVE  a \in Owed(j) \/ (a + 1 \in Attempts => a + 1 \in Owed(j))
    <3>1. LeadsOn(j, a)
      BY <2>4, <2>1 DEF OwedInv, RetriesFollow
    <3>2. Awaits(j, a, {"start", "delay"}) => a \in Owed(j)
      BY DEF Awaits, Entered, Owed
    <3>3. Awaits(j, a + 1, {"start"}) => Entered(j, a + 1)
      BY DEF Awaits, Entered
    <3>4. j \in delayed \/ Loading(j) => Asked(j, a + 1)
      BY <2>4, <2>1 DEF Asked
    <3> QED BY <3>1, <3>2, <3>3, <3>4 DEF LeadsOn, Owed
  <2>5. \A n \in Owed(j)' : n \in Attempts /\ (n \in Owed(j) \/ Asked(j, n)')
    BY <1>4 DEF Owed, Attempts
  <2>6. \A n \in Owed(j)' : n \in Owed(j) \/ n - 1 \in Owed(j)
    <3> SUFFICES ASSUME NEW n \in Owed(j)', n \notin Owed(j)
                 PROVE  n - 1 \in Owed(j)
      OBVIOUS
    <3>1. n \in Attempts /\ record[j].status = "retrying" /\ n = a + 1
      BY <2>3, <2>5
    <3>2. a \in Owed(j)
      BY <2>4, <3>1
    <3> QED BY <2>2, <3>1, <3>2
  <2> QED BY <1>1, <1>3, <2>2, <2>6, HandsOver
<1>14. CASE Acknowledge(d)
  <2>1. UNCHANGED <<record, delayed, finished, applied>>
    BY <1>14 DEF Acknowledge
  <2>2. Owed(j)' \subseteq Owed(j)
    BY <1>4, <2>1 DEF Owed, Asked, Attempts
  <2> QED BY <1>1, <1>3, <2>1, <2>2, HandsOver
<1> QED
  BY <1>9, <1>10, <1>11, <1>12, <1>13, <1>14 DEF DispatchStep

LEMMA StepDelivers ==
  ASSUME TypeInv, Careful, KeyInv, OwedInv, WorkRemains, WorkRemains',
         [JobsNext]_jobVars
  PROVE  [Delivery!Next]_(Delivery!promises)
<1> USE DEF queueVars, slotVars
<1>1. ASSUME NEW j \in Jobs, Enqueue(j) PROVE Delivery!Next
  BY <1>1, EnqueueOwes DEF OwedInv
<1>2. ASSUME NEW j \in Jobs, EnqueueSaved(j) PROVE Delivery!Next
  <2>1. producer'[j] # "idle"
    BY <1>2 DEF EnqueueSaved, TypeInv, JobsTypeOK
  <2> QED BY <1>2, <2>1, SavingOwes DEF EnqueueSaved
<1>3. ASSUME NEW p \in Promoters, PromoteSaved(p) PROVE Delivery!Next
  <2>1. hand[p].at = "save" /\ hand[p].job \in Jobs
    BY <1>3 DEF PromoteSaved, TypeInv, JobsTypeOK, Hands
  <2>2. producer'[hand[p].job] # "idle"
    BY <1>3, <2>1 DEF PromoteSaved, OwedInv, OnlyAddedJobs, Empty
  <2>3. \A o \in Promoters :
          \/ hand'[o] = hand[o]
          \/ hand[o].at = "save" /\ hand'[o].at = "idle"
    BY <1>3, <2>1 DEF PromoteSaved, TypeInv, JobsTypeOK
  <2> QED BY <1>3, <2>1, <2>2, <2>3, SavingOwes DEF PromoteSaved
<1>4. ASSUME NEW p \in Promoters,
             \/ \E j \in Jobs : TakeDue(p, j)
             \/ LoadState(p) \/ Promote(p) \/ PromoterDrops(p)
      PROVE  UNCHANGED Delivery!promises
  BY <1>4, PromotionOwes
<1>5. ASSUME NEW d \in Slots, Claim(d) \/ \E i \in pel : Reclaim(d, i)
      PROVE  UNCHANGED Delivery!promises
  <2>1. \A k \in Jobs : Owed(k)' = Owed(k)
    BY <1>5, TakingKeepsGroup DEF Owed, Entered, Promoting, Asked, Loading, Attempts
  <2> QED BY <1>5, <2>1, TakingKeepsGroup, NothingOwedNew
<1>6. ASSUME NEW d \in Slots, DispatchStep(d) \/ Drop(d)
      PROVE  [Delivery!Next]_(Delivery!promises)
  BY <1>6, DispatchDelivers
<1>7. CASE UNCHANGED jobVars
  <2>1. \A k \in Jobs : Owed(k)' = Owed(k)
    BY <1>7 DEF jobVars, Owed, Entered, Unacknowledged, Undelivered, Promoting,
                Asked, Loading, Attempts
  <2> QED BY <1>7, <2>1, NothingOwedNew DEF jobVars
<1> QED
  BY <1>1, <1>2, <1>3, <1>4, <1>5, <1>6, <1>7 DEF JobsNext, PromoterStep

LEMMA DeliveryInit == JobsInit => Delivery!Init
<1> SUFFICES ASSUME JobsInit PROVE Delivery!Init
  OBVIOUS
<1>1. \A k \in Jobs : Owed(k) = {}
  BY DEF JobsInit, Owed, Entered, Unacknowledged, Undelivered, Promoting, Asked,
         Loading, JobRecord
<1> QED BY <1>1 DEF JobsInit, Delivery!Init

\* Whatever crashes, as long as the processes are careful: attempts of every job that
\* was added are owed until it is finished, each follows from the one before, and no
\* effect comes about on behalf of an attempt that is not owed.
THEOREM TheQueueOwesEveryJob ==
  ASSUME Careful
  PROVE  JobsSpec => DeliveryIsOwed
<1>1. JobsInit => TypeInv /\ KeyInv /\ WorkInv /\ OwedInv
  BY TypeInvInit, KeyInvInit, WorkInvInit, OwedInvInit
<1>2. TypeInv /\ KeyInv /\ WorkInv /\ OwedInv /\ [JobsNext]_jobVars
        => (TypeInv /\ KeyInv /\ WorkInv /\ OwedInv)'
  <2> SUFFICES ASSUME TypeInv, KeyInv, WorkInv, OwedInv, [JobsNext]_jobVars
               PROVE  TypeInv' /\ KeyInv' /\ WorkInv' /\ OwedInv'
    OBVIOUS
  <2>1. TypeInv' /\ KeyInv'
    BY TypeInvStep, KeyInvStep
  <2>2. WorkInv'
    BY WorkInvStep
  <2>3. OwedInv'
    BY OwedInvStep DEF WorkInv
  <2> QED BY <2>1, <2>2, <2>3
<1>3. TypeInv /\ WorkInv /\ OwedInv => WorkRemains
  BY OwedRemains
<1>4. /\ TypeInv /\ KeyInv /\ OwedInv /\ WorkRemains /\ WorkRemains'
      /\ [JobsNext]_jobVars
      => [Delivery!Next]_(Delivery!promises)
  BY StepDelivers
<1>5. JobsInit => Delivery!Init
  BY DeliveryInit
<1> QED
  BY <1>1, <1>2, <1>3, <1>4, <1>5, PTL DEF JobsSpec, DeliveryIsOwed, Delivery!Spec

=============================================================================

---------------------------- MODULE OutboxProofs ----------------------------
(***************************************************************************)
(* Proofs about Outbox, for every number of events, runs and attempts.     *)
(***************************************************************************)
EXTENDS Outbox, WellFoundedInduction, TLAPS

USE OutboxConstants

\* A nonempty set of rows has an oldest one: the loop over the batch always
\* has a current record.
LEMMA LeastExists ==
  ASSUME NEW S \in SUBSET Nat, S # {}
  PROVE  \E e \in S : \A f \in S : e <= f
<1>1. \E e \in S : \A f \in S : ~(<<f, e>> \in OpToRel(<, Nat))
  BY NatLessThanWellFounded, WFMin
<1>2. \A e, f \in S : ~(<<f, e>> \in OpToRel(<, Nat)) => e <= f
  BY DEF OpToRel
<1> QED BY <1>1, <1>2

LEMMA OldestIsMember ==
  ASSUME NEW S \in SUBSET Events, S # {}
  PROVE  Oldest(S) \in S
BY LeastExists DEF Oldest

\* The delays the backoff draws from lie between 0 and the cap.
LEMMA DelaysAreCapped ==
  ASSUME NEW k \in Nat, NEW d \in BackoffDelays(k)
  PROVE  d \in 0 .. MaxDelay
BY DEF BackoffDelays

\* A run holds records exactly while it stands inside its loop.
InLoop(r) == pc[r] \in {"publish", "mark", "transient", "permanent"}
LoopHasWork == \A r \in Runs : InLoop(r) <=> Todo(r) # {}

\* The record a run in its loop is about to settle is one of its batch.
LEMMA CurrentRecord ==
  ASSUME TypeOK, LoopHasWork, NEW r \in Runs, InLoop(r)
  PROVE  /\ Oldest(Todo(r)) \in Events
         /\ Oldest(Todo(r)) \in Todo(r)
         /\ batch[r][Oldest(Todo(r))] \in Nat
<1>1. Todo(r) # {}
  BY DEF LoopHasWork
<1>2. Todo(r) \in SUBSET Events
  BY DEF Todo
<1>3. Oldest(Todo(r)) \in Todo(r)
  BY <1>1, <1>2, OldestIsMember
<1>4. Oldest(Todo(r)) \in Events
  BY <1>2, <1>3
<1>5. \A e \in Events : batch[r][e] \in Nat
  BY DEF TypeOK
<1> QED BY <1>3, <1>4, <1>5

-----------------------------------------------------------------------------
(* The types.                                                              *)

LEMMA TypeInit == Init => TypeOK
BY DEF Init, TypeOK, TxStates, RowStates, RunStates, LongAgo, Horizon

LEMMA EndRunType ==
  ASSUME TypeOK, NEW r \in Runs, EndRun(r)
  PROVE  /\ pc' \in [Runs -> RunStates]
         /\ now' \in [Runs -> -MaxRun .. 0]
         /\ claim' \in [Runs -> Claims \cup {NoClaim}]
         /\ batch' \in [Runs -> [Events -> Nat]]
BY DEF TypeOK, EndRun, Goto, RunStates

LEMMA SettledType ==
  ASSUME TypeOK, NEW r \in Runs, NEW e \in Events, Settled(r, e)
  PROVE  /\ pc' \in [Runs -> RunStates]
         /\ now' \in [Runs -> -MaxRun .. 0]
         /\ claim' \in [Runs -> Claims \cup {NoClaim}]
         /\ batch' \in [Runs -> [Events -> Nat]]
<1>1. CASE Todo(r) = {e}
  BY <1>1, EndRunType DEF Settled
<1>2. CASE Todo(r) # {e}
  <2>1. /\ batch' = [batch EXCEPT ![r][e] = 0]
        /\ Goto(r, "publish")
        /\ UNCHANGED <<now, claim>>
    BY <1>2 DEF Settled
  <2> QED BY <2>1 DEF TypeOK, Goto, RunStates
<1> QED BY <1>1, <1>2

LEMMA MarkType ==
  ASSUME TypeOK, NEW e \in Events, NEW to \in RowStates,
         NEW due \in LongAgo .. MaxDelay, Mark(e, to, due)
  PROVE  /\ state' \in [Events -> RowStates]
         /\ attempts' \in [Events -> Nat]
         /\ last' \in [Events -> LongAgo .. 0]
         /\ next' \in [Events -> LongAgo .. MaxDelay]
         /\ claimId' \in [Events -> Claims \cup {NoClaim}]
BY DEF TypeOK, Mark

LEMMA ReleaseType ==
  ASSUME TypeOK, NEW S, NEW to \in RowStates, Release(S, to)
  PROVE  /\ state' \in [Events -> RowStates]
         /\ attempts' \in [Events -> Nat]
         /\ last' \in [Events -> LongAgo .. 0]
         /\ next' \in [Events -> LongAgo .. MaxDelay]
         /\ claimId' \in [Events -> Claims \cup {NoClaim}]
BY DEF TypeOK, Release, LongAgo, Horizon

LEMMA TypeStep == TypeOK /\ LoopHasWork /\ [Next]_vars => TypeOK'
<1> SUFFICES ASSUME TypeOK, LoopHasWork, [Next]_vars PROVE TypeOK'
  OBVIOUS
<1> USE DEF rowVars, runVars
<1>1. ASSUME NEW e \in Events, Record(e) PROVE TypeOK'
  BY <1>1 DEF TypeOK, Record, TxStates
<1>2. ASSUME NEW e \in Events, Finish(e) PROVE TypeOK'
  BY <1>2 DEF TypeOK, Finish, TxStates
<1>3. ASSUME NEW e \in Events, Requeue(e) PROVE TypeOK'
  BY <1>3 DEF TypeOK, Requeue, RowStates, LongAgo, Horizon
<1>4. ASSUME NEW r \in Runs, Begin(r) PROVE TypeOK'
  BY <1>4 DEF TypeOK, Begin, Goto, RunStates
<1>5. ASSUME NEW r \in Runs, ReleaseExhausted(r) PROVE TypeOK'
  BY <1>5, ReleaseType DEF TypeOK, ReleaseExhausted, Goto, RunStates, RowStates
<1>6. ASSUME NEW r \in Runs, ReleaseRecoverable(r) PROVE TypeOK'
  BY <1>6, ReleaseType DEF TypeOK, ReleaseRecoverable, Goto, RunStates, RowStates
<1>7. ASSUME NEW r \in Runs, ClaimDue(r) PROVE TypeOK'
  BY <1>7 DEF TypeOK, ClaimDue, Goto, RunStates, RowStates, LongAgo, Horizon
<1>8. ASSUME NEW r \in Runs, ReadClaimed(r) PROVE TypeOK'
  BY <1>8, EndRunType DEF TypeOK, ReadClaimed, Goto, RunStates
<1>9. ASSUME NEW r \in Runs, InLoop(r)
      PROVE  /\ Oldest(Todo(r)) \in Events
             /\ batch[r][Oldest(Todo(r))] \in Nat
  BY <1>9, CurrentRecord
<1>10. ASSUME NEW r \in Runs, Publish(r) PROVE TypeOK'
  BY <1>9, <1>10 DEF TypeOK, Publish, Goto, RunStates, InLoop
<1>11. ASSUME NEW r \in Runs, MarkPublished(r) PROVE TypeOK'
  <2> DEFINE e == Oldest(Todo(r))
  <2>1. /\ e \in Events
        /\ Mark(e, "published", LongAgo)
        /\ Settled(r, e)
    BY <1>9, <1>11 DEF MarkPublished, InLoop
  <2>2. "published" \in RowStates /\ LongAgo \in LongAgo .. MaxDelay
    BY DEF RowStates, LongAgo, Horizon
  <2> HIDE DEF e
  <2> QED BY <1>11, <2>1, <2>2, MarkType, SettledType DEF TypeOK, MarkPublished
<1>12. ASSUME NEW r \in Runs, MarkPublishedThrows(r) PROVE TypeOK'
  <2>1. UNCHANGED rowVars \/ Mark(Oldest(Todo(r)), "published", LongAgo)
    BY <1>12 DEF MarkPublishedThrows
  <2>2. /\ Oldest(Todo(r)) \in Events
        /\ "published" \in RowStates
        /\ LongAgo \in LongAgo .. MaxDelay
    BY <1>9, <1>12 DEF MarkPublishedThrows, InLoop, RowStates, LongAgo, Horizon
  <2>3. /\ state' \in [Events -> RowStates]
        /\ attempts' \in [Events -> Nat]
        /\ last' \in [Events -> LongAgo .. 0]
        /\ next' \in [Events -> LongAgo .. MaxDelay]
        /\ claimId' \in [Events -> Claims \cup {NoClaim}]
    <3>1. CASE UNCHANGED rowVars
      BY <3>1 DEF TypeOK
    <3>2. CASE Mark(Oldest(Todo(r)), "published", LongAgo)
      BY <2>2, <3>2, MarkType
    <3> QED BY <2>1, <3>1, <3>2
  <2> QED BY <1>12, <2>3 DEF TypeOK, MarkPublishedThrows, Goto, RunStates
<1>13. ASSUME NEW r \in Runs, MarkFailure(r) PROVE TypeOK'
  <2> DEFINE e == Oldest(Todo(r))
  <2>1. e \in Events /\ batch[r][e] \in Nat
    BY <1>9, <1>13 DEF MarkFailure, InLoop
  <2>2. \A d \in BackoffDelays(batch[r][e]) : now[r] + d \in LongAgo .. MaxDelay
    BY <2>1, DelaysAreCapped DEF TypeOK, LongAgo, Horizon
  <2>3. \/ Mark(e, "failed", LongAgo)
        \/ \E d \in BackoffDelays(batch[r][e]) : Mark(e, "retrying", now[r] + d)
    BY <1>13 DEF MarkFailure
  <2>4. LongAgo \in LongAgo .. MaxDelay /\ {"failed", "retrying"} \subseteq RowStates
    BY DEF LongAgo, Horizon, RowStates
  <2>5. /\ state' \in [Events -> RowStates]
        /\ attempts' \in [Events -> Nat]
        /\ last' \in [Events -> LongAgo .. 0]
        /\ next' \in [Events -> LongAgo .. MaxDelay]
        /\ claimId' \in [Events -> Claims \cup {NoClaim}]
    BY <2>1, <2>2, <2>3, <2>4, MarkType
  <2>6. Settled(r, e)
    BY <1>13 DEF MarkFailure
  <2>7. /\ pc' \in [Runs -> RunStates]
        /\ now' \in [Runs -> -MaxRun .. 0]
        /\ claim' \in [Runs -> Claims \cup {NoClaim}]
        /\ batch' \in [Runs -> [Events -> Nat]]
    BY <2>1, <2>6, SettledType
  <2> QED BY <1>13, <2>5, <2>7 DEF TypeOK, MarkFailure
<1>14. ASSUME NEW r \in Runs, Abort(r) PROVE TypeOK'
  BY <1>14, EndRunType DEF TypeOK, Abort
<1>15. CASE Tick
  BY <1>15 DEF TypeOK, Tick, Older, LongAgo, Horizon
<1>16. CASE UNCHANGED vars
  BY <1>16 DEF TypeOK, vars
<1> QED
  BY <1>1, <1>2, <1>3, <1>4, <1>5, <1>6, <1>7, <1>8, <1>10, <1>11, <1>12,
     <1>13, <1>14, <1>15, <1>16 DEF Next, RunStep

-----------------------------------------------------------------------------
(* What holds however long runs last and however replies are lost.         *)

\* A claimed record counts its attempt, and a run reads with its claim id.
ClaimsCounted == \A e \in Events : claimId[e] # NoClaim => attempts[e] > 0
ReaderHasClaim == \A r \in Runs : pc[r] = "select" => claim[r] # NoClaim

\* Runs hold committed records only; a record is marked after it is delivered.
HeldIsCommitted ==
  \A r \in Runs : \A e \in Events : batch[r][e] > 0 => tx[e] = "committed"
MarkedIsDelivered ==
  \A r \in Runs : pc[r] = "mark" => Oldest(Todo(r)) \in delivered
PublishedIsDelivered ==
  \A e \in Events : state[e] = "published" => e \in delivered

RunInv ==
  /\ TypeOK
  /\ LoopHasWork
  /\ ClaimsCounted
  /\ ReaderHasClaim
DeliveryInv ==
  /\ HeldIsCommitted
  /\ MarkedIsDelivered
  /\ PublishedIsDelivered
  /\ NothingBeforeCommit

LEMMA EndRunLoop ==
  ASSUME RunInv, NEW r \in Runs, EndRun(r)
  PROVE  LoopHasWork' /\ ReaderHasClaim'
BY DEF RunInv, TypeOK, LoopHasWork, ReaderHasClaim, EndRun, Goto, InLoop, Todo

LEMMA SettledLoop ==
  ASSUME RunInv, NEW r \in Runs, InLoop(r), Settled(r, Oldest(Todo(r)))
  PROVE  LoopHasWork' /\ ReaderHasClaim'
<1> DEFINE e == Oldest(Todo(r))
<1>1. e \in Todo(r) /\ e \in Events
  BY CurrentRecord DEF RunInv
<1>2. CASE Todo(r) = {e}
  BY <1>2, EndRunLoop DEF Settled
<1>3. CASE Todo(r) # {e}
  <2>1. /\ batch' = [batch EXCEPT ![r][e] = 0]
        /\ Goto(r, "publish")
        /\ UNCHANGED <<now, claim>>
    BY <1>3 DEF Settled
  <2>2. PICK f \in Todo(r) : f # e
    BY <1>1, <1>3
  <2>3. f \in Todo(r)'
    BY <2>1, <2>2 DEF Todo, RunInv, TypeOK
  <2>4. \A s \in Runs : s # r => Todo(s)' = Todo(s) /\ InLoop(s)' = InLoop(s)
    BY <2>1 DEF Todo, InLoop, Goto, RunInv, TypeOK
  <2>5. InLoop(r)'
    BY <2>1 DEF InLoop, Goto, RunInv, TypeOK
  <2>6. LoopHasWork'
    BY <2>3, <2>4, <2>5 DEF LoopHasWork, RunInv
  <2>7. ReaderHasClaim'
    BY <2>1 DEF ReaderHasClaim, Goto, RunInv, TypeOK
  <2> QED BY <2>6, <2>7
<1> QED BY <1>2, <1>3

LEMMA MarkCounted ==
  ASSUME RunInv, NEW e \in Events, NEW to, NEW due, Mark(e, to, due)
  PROVE  ClaimsCounted'
BY DEF RunInv, TypeOK, ClaimsCounted, Mark

LEMMA RunInvInit == Init => RunInv
BY TypeInit DEF Init, RunInv, LoopHasWork, ClaimsCounted, ReaderHasClaim,
                InLoop, Todo

LEMMA RunInvStep == RunInv /\ [Next]_vars => RunInv'
<1> SUFFICES ASSUME RunInv, [Next]_vars PROVE RunInv'
  OBVIOUS
<1>0. TypeOK'
  BY TypeStep DEF RunInv
<1> USE DEF rowVars, runVars
<1>1. ASSUME NEW e \in Events, Record(e) \/ Finish(e) \/ Requeue(e) PROVE RunInv'
  BY <1>0, <1>1 DEF RunInv, TypeOK, LoopHasWork, ClaimsCounted, ReaderHasClaim,
                    InLoop, Todo, Record, Finish, Requeue
<1>2. ASSUME NEW r \in Runs, Begin(r) PROVE RunInv'
  BY <1>0, <1>2 DEF RunInv, TypeOK, LoopHasWork, ClaimsCounted, ReaderHasClaim,
                    InLoop, Todo, Begin, Goto
<1>3. ASSUME NEW r \in Runs, ReleaseExhausted(r) \/ ReleaseRecoverable(r)
      PROVE  RunInv'
  <2>1. PICK S, to : Release(S, to)
    BY <1>3 DEF ReleaseExhausted, ReleaseRecoverable
  <2>2. ClaimsCounted'
    BY <2>1 DEF Release, RunInv, TypeOK, ClaimsCounted
  <2>3. LoopHasWork' /\ ReaderHasClaim'
    BY <1>3 DEF ReleaseExhausted, ReleaseRecoverable, Goto, RunInv, TypeOK,
                LoopHasWork, ReaderHasClaim, InLoop, Todo
  <2> QED BY <1>0, <2>2, <2>3 DEF RunInv
<1>4. ASSUME NEW r \in Runs, ClaimDue(r) PROVE RunInv'
  <2>1. ClaimsCounted'
    BY <1>4 DEF ClaimDue, RunInv, TypeOK, ClaimsCounted
  <2>2. ReaderHasClaim'
    BY <1>4 DEF ClaimDue, Goto, RunInv, TypeOK, ReaderHasClaim
  <2>3. LoopHasWork'
    BY <1>4 DEF ClaimDue, Goto, RunInv, TypeOK, LoopHasWork, InLoop, Todo
  <2> QED BY <1>0, <2>1, <2>2, <2>3 DEF RunInv
<1>5. ASSUME NEW r \in Runs, ReadClaimed(r) PROVE RunInv'
  <2> DEFINE won == {e \in Rows : claimId[e] = claim[r]}
  <2>1. CASE won = {}
    BY <1>0, <1>5, <2>1, EndRunLoop
       DEF ReadClaimed, RunInv, ClaimsCounted
  <2>2. CASE won # {}
    <3>1. /\ batch' = [batch EXCEPT ![r] =
                    [e \in Events |-> IF e \in won THEN attempts[e] ELSE 0]]
          /\ Goto(r, "publish")
          /\ UNCHANGED <<claim, rowVars>>
      BY <1>5, <2>2 DEF ReadClaimed
    <3>2. claim[r] # NoClaim
      BY <1>5 DEF ReadClaimed, RunInv, ReaderHasClaim
    <3>3. PICK e \in won : TRUE
      BY <2>2
    <3>4. e \in Events /\ attempts[e] > 0
      BY <3>2, <3>3 DEF RunInv, ClaimsCounted, Rows
    <3>5. e \in Todo(r)'
      BY <3>1, <3>3, <3>4 DEF Todo, RunInv, TypeOK
    <3>6. \A s \in Runs : s # r => Todo(s)' = Todo(s) /\ InLoop(s)' = InLoop(s)
      BY <3>1 DEF Todo, InLoop, Goto, RunInv, TypeOK
    <3>7. InLoop(r)'
      BY <3>1 DEF InLoop, Goto, RunInv, TypeOK
    <3>8. LoopHasWork'
      BY <3>5, <3>6, <3>7 DEF LoopHasWork, RunInv
    <3>9. ReaderHasClaim' /\ ClaimsCounted'
      BY <3>1 DEF ReaderHasClaim, ClaimsCounted, Goto, RunInv, TypeOK
    <3> QED BY <1>0, <3>8, <3>9 DEF RunInv
  <2> QED BY <2>1, <2>2
<1>6. ASSUME NEW r \in Runs, Publish(r) PROVE RunInv'
  BY <1>0, <1>6 DEF RunInv, TypeOK, LoopHasWork, ClaimsCounted, ReaderHasClaim,
                    InLoop, Todo, Publish, Goto
<1>7. ASSUME NEW r \in Runs, MarkPublished(r) \/ MarkFailure(r) PROVE RunInv'
  <2>1. InLoop(r) /\ Settled(r, Oldest(Todo(r)))
    BY <1>7 DEF MarkPublished, MarkFailure, InLoop
  <2>2. \E to, due : Mark(Oldest(Todo(r)), to, due)
    BY <1>7 DEF MarkPublished, MarkFailure
  <2>3. Oldest(Todo(r)) \in Events
    BY <2>1, CurrentRecord DEF RunInv
  <2> QED BY <1>0, <2>1, <2>2, <2>3, SettledLoop, MarkCounted DEF RunInv
<1>8. ASSUME NEW r \in Runs, MarkPublishedThrows(r) PROVE RunInv'
  <2>1. InLoop(r)
    BY <1>8 DEF MarkPublishedThrows, InLoop
  <2>2. Oldest(Todo(r)) \in Events
    BY <2>1, CurrentRecord DEF RunInv
  <2>3. UNCHANGED rowVars \/ Mark(Oldest(Todo(r)), "published", LongAgo)
    BY <1>8 DEF MarkPublishedThrows
  <2>4. ClaimsCounted'
    <3>1. CASE UNCHANGED rowVars
      BY <3>1 DEF RunInv, ClaimsCounted
    <3>2. CASE Mark(Oldest(Todo(r)), "published", LongAgo)
      BY <2>2, <3>2, MarkCounted
    <3> QED BY <2>3, <3>1, <3>2
  <2>5. LoopHasWork' /\ ReaderHasClaim'
    BY <1>8 DEF RunInv, TypeOK, LoopHasWork, ReaderHasClaim, InLoop, Todo,
                MarkPublishedThrows, Goto
  <2> QED BY <1>0, <2>4, <2>5 DEF RunInv
<1>9. ASSUME NEW r \in Runs, Abort(r) PROVE RunInv'
  BY <1>0, <1>9, EndRunLoop DEF RunInv, Abort, ClaimsCounted
<1>10. CASE Tick
  BY <1>0, <1>10 DEF RunInv, LoopHasWork, ClaimsCounted, ReaderHasClaim, InLoop,
                     Todo, Tick
<1>11. CASE UNCHANGED vars
  BY <1>0, <1>11 DEF RunInv, LoopHasWork, ClaimsCounted, ReaderHasClaim, InLoop,
                     Todo, vars
<1> QED
  BY <1>1, <1>2, <1>3, <1>4, <1>5, <1>6, <1>7, <1>8, <1>9, <1>10, <1>11
     DEF Next, RunStep

\* Every reachable state is well-typed: each column holds what the schema
\* allows, each run is where publishBatch can be.
THEOREM TypeCorrect == Spec => []TypeOK
<1>1. RunInv => TypeOK
  BY DEF RunInv
<1> QED BY <1>1, RunInvInit, RunInvStep, PTL DEF Spec

-----------------------------------------------------------------------------
(* Delivery.                                                               *)

LEMMA DeliveryInit == Init => DeliveryInv
BY DEF Init, DeliveryInv, HeldIsCommitted, MarkedIsDelivered,
       PublishedIsDelivered, NothingBeforeCommit

LEMMA EndRunDelivery ==
  ASSUME RunInv, DeliveryInv, NEW r \in Runs, EndRun(r),
         UNCHANGED <<tx, delivered>>
  PROVE  HeldIsCommitted' /\ MarkedIsDelivered'
BY DEF RunInv, TypeOK, DeliveryInv, HeldIsCommitted, MarkedIsDelivered,
       EndRun, Goto, Todo

LEMMA SettledDelivery ==
  ASSUME RunInv, DeliveryInv, NEW r \in Runs, NEW e \in Events,
         Settled(r, e), UNCHANGED <<tx, delivered>>
  PROVE  HeldIsCommitted' /\ MarkedIsDelivered'
<1>1. CASE Todo(r) = {e}
  BY <1>1, EndRunDelivery DEF Settled
<1>2. CASE Todo(r) # {e}
  <2>1. batch' = [batch EXCEPT ![r][e] = 0] /\ Goto(r, "publish")
    BY <1>2 DEF Settled
  <2>2. \A s \in Runs : s # r => Todo(s)' = Todo(s) /\ pc'[s] = pc[s]
    BY <2>1 DEF Todo, Goto, RunInv, TypeOK
  <2>3. MarkedIsDelivered'
    BY <2>1, <2>2 DEF DeliveryInv, MarkedIsDelivered, Goto, RunInv, TypeOK
  <2>4. HeldIsCommitted'
    BY <2>1 DEF DeliveryInv, HeldIsCommitted, RunInv, TypeOK
  <2> QED BY <2>3, <2>4
<1> QED BY <1>1, <1>2

LEMMA DeliveryStep == RunInv /\ DeliveryInv /\ [Next]_vars => DeliveryInv'
<1> SUFFICES ASSUME RunInv, DeliveryInv, [Next]_vars PROVE DeliveryInv'
  OBVIOUS
<1> USE DEF rowVars, runVars
<1>1. ASSUME NEW e \in Events, Record(e) \/ Finish(e) \/ Requeue(e)
      PROVE  DeliveryInv'
  <2>1. UNCHANGED <<delivered, runVars>>
    BY <1>1 DEF Record, Finish, Requeue
  <2>2. \A f \in Events : tx[f] = "committed" => tx'[f] = "committed"
    BY <1>1 DEF Record, Finish, Requeue, RunInv, TypeOK
  <2>3. \A f \in Events : state'[f] = "published" => state[f] = "published"
    BY <1>1 DEF Record, Finish, Requeue, RunInv, TypeOK
  <2>4. \A f \in delivered : f \in Events
    BY DEF RunInv, TypeOK
  <2> QED BY <2>1, <2>2, <2>3, <2>4
          DEF DeliveryInv, HeldIsCommitted, MarkedIsDelivered,
              PublishedIsDelivered, NothingBeforeCommit, Todo
<1>2. ASSUME NEW r \in Runs, Begin(r) PROVE DeliveryInv'
  BY <1>2 DEF RunInv, TypeOK, DeliveryInv, HeldIsCommitted, MarkedIsDelivered,
              PublishedIsDelivered, NothingBeforeCommit, Todo, Begin, Goto
<1>3. ASSUME NEW r \in Runs, ReleaseExhausted(r) \/ ReleaseRecoverable(r)
      PROVE  DeliveryInv'
  <2>1. PICK S, to : Release(S, to) /\ to # "published"
    BY <1>3 DEF ReleaseExhausted, ReleaseRecoverable
  <2>2. PublishedIsDelivered'
    BY <1>3, <2>1 DEF Release, RunInv, TypeOK, DeliveryInv,
                      PublishedIsDelivered, ReleaseExhausted, ReleaseRecoverable
  <2>3. /\ HeldIsCommitted' /\ MarkedIsDelivered' /\ NothingBeforeCommit'
    BY <1>3 DEF ReleaseExhausted, ReleaseRecoverable, Goto, RunInv, TypeOK,
                DeliveryInv, HeldIsCommitted, MarkedIsDelivered,
                NothingBeforeCommit, Todo
  <2> QED BY <2>2, <2>3 DEF DeliveryInv
<1>4. ASSUME NEW r \in Runs, ClaimDue(r) PROVE DeliveryInv'
  <2>1. PublishedIsDelivered'
    BY <1>4 DEF ClaimDue, RunInv, TypeOK, DeliveryInv, PublishedIsDelivered
  <2>2. /\ HeldIsCommitted' /\ MarkedIsDelivered' /\ NothingBeforeCommit'
    BY <1>4 DEF ClaimDue, Goto, RunInv, TypeOK, DeliveryInv, HeldIsCommitted,
                MarkedIsDelivered, NothingBeforeCommit, Todo
  <2> QED BY <2>1, <2>2 DEF DeliveryInv
<1>5. ASSUME NEW r \in Runs, ReadClaimed(r) PROVE DeliveryInv'
  <2> DEFINE won == {e \in Rows : claimId[e] = claim[r]}
  <2>0. UNCHANGED <<tx, state, delivered>>
    BY <1>5 DEF ReadClaimed
  <2>1. CASE won = {}
    BY <1>5, <2>0, <2>1, EndRunDelivery
       DEF ReadClaimed, DeliveryInv, PublishedIsDelivered, NothingBeforeCommit
  <2>2. CASE won # {}
    <3>1. /\ batch' = [batch EXCEPT ![r] =
                    [e \in Events |-> IF e \in won THEN attempts[e] ELSE 0]]
          /\ Goto(r, "publish")
      BY <1>5, <2>2 DEF ReadClaimed
    <3>2. HeldIsCommitted'
      <4> SUFFICES ASSUME NEW s \in Runs, NEW e \in Events, batch'[s][e] > 0
                   PROVE  tx[e] = "committed"
        BY <2>0 DEF HeldIsCommitted
      <4>1. CASE s = r
        <5>1. batch'[r][e] = IF e \in won THEN attempts[e] ELSE 0
          BY <3>1 DEF RunInv, TypeOK
        <5>2. e \in won
          BY <4>1, <5>1
        <5> QED BY <5>2 DEF Rows
      <4>2. CASE s # r
        BY <3>1, <4>2 DEF DeliveryInv, HeldIsCommitted
      <4> QED BY <4>1, <4>2
    <3>3. \A s \in Runs : s # r => Todo(s)' = Todo(s) /\ pc'[s] = pc[s]
      BY <3>1 DEF Todo, Goto, RunInv, TypeOK
    <3>4. MarkedIsDelivered'
      BY <2>0, <3>1, <3>3 DEF DeliveryInv, MarkedIsDelivered, Goto, RunInv, TypeOK
    <3> QED BY <2>0, <3>2, <3>4
               DEF DeliveryInv, PublishedIsDelivered, NothingBeforeCommit
  <2> QED BY <2>1, <2>2
<1>6. ASSUME NEW r \in Runs, Publish(r) PROVE DeliveryInv'
  <2> DEFINE e == Oldest(Todo(r))
  <2>1. e \in Events /\ e \in Todo(r)
    BY <1>6, CurrentRecord DEF Publish, InLoop, RunInv
  <2>2. tx[e] = "committed"
    BY <2>1 DEF DeliveryInv, HeldIsCommitted, Todo
  <2>3. /\ delivered \subseteq delivered'
        /\ delivered' \subseteq delivered \cup {e}
        /\ UNCHANGED <<tx, rowVars, batch>>
        /\ \A s \in Runs : s # r => pc'[s] = pc[s]
        /\ pc'[r] = "mark" => e \in delivered'
    BY <1>6 DEF Publish, Goto, RunInv, TypeOK
  <2>4. \A s \in Runs : Todo(s)' = Todo(s)
    BY <2>3 DEF Todo
  <2>5. MarkedIsDelivered'
    BY <2>3, <2>4 DEF DeliveryInv, MarkedIsDelivered
  <2>6. NothingBeforeCommit'
    BY <2>2, <2>3 DEF DeliveryInv, NothingBeforeCommit
  <2>7. HeldIsCommitted' /\ PublishedIsDelivered'
    BY <2>3 DEF DeliveryInv, HeldIsCommitted, PublishedIsDelivered
  <2> QED BY <2>5, <2>6, <2>7 DEF DeliveryInv
<1>7. ASSUME NEW r \in Runs, MarkPublished(r) \/ MarkFailure(r)
      PROVE  DeliveryInv'
  <2> DEFINE e == Oldest(Todo(r))
  <2>1. InLoop(r) /\ Settled(r, e) /\ UNCHANGED <<tx, delivered>>
    BY <1>7 DEF MarkPublished, MarkFailure, InLoop
  <2>2. e \in Events
    BY <2>1, CurrentRecord DEF RunInv
  <2>3. PICK to, due : Mark(e, to, due) /\ (to = "published" => pc[r] = "mark")
    BY <1>7 DEF MarkPublished, MarkFailure
  <2>4. to = "published" => e \in delivered
    BY <2>3 DEF DeliveryInv, MarkedIsDelivered
  <2>5. PublishedIsDelivered'
    BY <2>1, <2>2, <2>3, <2>4
       DEF Mark, DeliveryInv, PublishedIsDelivered, RunInv, TypeOK
  <2> QED BY <2>1, <2>2, <2>5, SettledDelivery DEF DeliveryInv, NothingBeforeCommit
<1>8. ASSUME NEW r \in Runs, MarkPublishedThrows(r) PROVE DeliveryInv'
  <2> DEFINE e == Oldest(Todo(r))
  <2>1. /\ pc[r] = "mark" /\ InLoop(r)
        /\ Goto(r, "transient")
        /\ UNCHANGED <<tx, delivered, batch>>
        /\ UNCHANGED rowVars \/ Mark(e, "published", LongAgo)
    BY <1>8 DEF MarkPublishedThrows, InLoop
  <2>2. e \in Events /\ e \in delivered
    BY <2>1, CurrentRecord DEF RunInv, DeliveryInv, MarkedIsDelivered
  <2>3. PublishedIsDelivered'
    BY <2>1, <2>2 DEF Mark, DeliveryInv, PublishedIsDelivered, RunInv, TypeOK
  <2>4. HeldIsCommitted' /\ MarkedIsDelivered' /\ NothingBeforeCommit'
    BY <2>1 DEF Goto, RunInv, TypeOK, DeliveryInv, HeldIsCommitted,
                MarkedIsDelivered, NothingBeforeCommit, Todo
  <2> QED BY <2>3, <2>4 DEF DeliveryInv
<1>9. ASSUME NEW r \in Runs, Abort(r) PROVE DeliveryInv'
  BY <1>9, EndRunDelivery
     DEF Abort, DeliveryInv, PublishedIsDelivered, NothingBeforeCommit
<1>10. CASE Tick
  BY <1>10 DEF Tick, DeliveryInv, HeldIsCommitted, MarkedIsDelivered,
               PublishedIsDelivered, NothingBeforeCommit, Todo
<1>11. CASE UNCHANGED vars
  BY <1>11 DEF vars, DeliveryInv, HeldIsCommitted, MarkedIsDelivered,
               PublishedIsDelivered, NothingBeforeCommit, Todo
<1> QED
  BY <1>1, <1>2, <1>3, <1>4, <1>5, <1>6, <1>7, <1>8, <1>9, <1>10, <1>11
     DEF Next, RunStep

\* No event reaches the stream before the transaction that recorded it has
\* committed, and none reaches it when that transaction rolls back.
THEOREM PublishesCommittedOnly == Spec => []NothingBeforeCommit
<1>1. Init => RunInv /\ DeliveryInv
  BY RunInvInit, DeliveryInit
<1>2. RunInv /\ DeliveryInv /\ [Next]_vars => (RunInv /\ DeliveryInv)'
  BY RunInvStep, DeliveryStep
<1>3. DeliveryInv => NothingBeforeCommit
  BY DEF DeliveryInv
<1> QED BY <1>1, <1>2, <1>3, PTL DEF Spec

\* Whatever overlaps, overruns its lease or dies: a record the store calls
\* published is in the stream.
THEOREM NoEventIsLost == Spec => []NothingLost
<1>1. Init => RunInv /\ DeliveryInv
  BY RunInvInit, DeliveryInit
<1>2. RunInv /\ DeliveryInv /\ [Next]_vars => (RunInv /\ DeliveryInv)'
  BY RunInvStep, DeliveryStep
<1>3. DeliveryInv => NothingLost
  BY DEF DeliveryInv, PublishedIsDelivered, NothingLost, Rows
<1> QED BY <1>1, <1>2, <1>3, PTL DEF Spec

-----------------------------------------------------------------------------
(* Ownership, under the lease assumption.                                  *)

\* The claim id a run drew is its own, from the claim until the run ends.
NoClaimBefore ==
  \A r \in Runs :
    pc[r] \in {"idle", "expire", "recover", "claim"} => claim[r] = NoClaim
ClaimsDiffer ==
  \A r, s \in Runs : r # s /\ claim[r] # NoClaim => claim[r] # claim[s]

\* A row tagged with a live run's claim id is being published, since that
\* run's `now`: it cannot look stale to any other run.
LeaseHeld ==
  \A r \in Runs : \A e \in Events :
    claim[r] # NoClaim /\ claimId[e] = claim[r] =>
      state[e] = "publishing" /\ last[e] = now[r]

\* What a run still has to settle is tagged with its claim id, as read.
BatchClaimed ==
  \A r \in Runs : \A e \in Events :
    batch[r][e] > 0 =>
      claim[r] # NoClaim /\ claimId[e] = claim[r] /\ attempts[e] = batch[r][e]

\* A claimable record has an attempt left.
Budget ==
  /\ AttemptsBounded
  /\ \A e \in Events :
       state[e] \in {"pending", "retrying"} => attempts[e] < MaxAttempts

\* A row nobody else sees yet is pending.
Unrecorded == \A e \in Events : tx[e] # "committed" => state[e] = "pending"

LeaseInv ==
  /\ NoClaimBefore
  /\ ClaimsDiffer
  /\ LeaseHeld
  /\ BatchClaimed
  /\ Budget
  /\ Unrecorded

LEMMA LeaseInit == Init => LeaseInv
BY DEF Init, LeaseInv, NoClaimBefore, ClaimsDiffer, LeaseHeld, BatchClaimed,
       Budget, AttemptsBounded, Unrecorded

\* No run releases what a live run holds.
LEMMA StaleIsOrphaned ==
  ASSUME Timely, RunInv, LeaseInv, NEW r \in Runs, NEW s \in Runs,
         NEW e \in Stale(s), claim[r] # NoClaim
  PROVE  claimId[e] # claim[r]
<1>1. MaxRun \in Nat /\ Visibility \in Nat /\ MaxRun < Visibility
  BY DEF Timely
<1>2. e \in Events /\ last[e] <= now[s] - Visibility
  BY DEF Stale, Rows
<1>3. now[r] \in -MaxRun .. 0 /\ now[s] \in -MaxRun .. 0
  BY DEF RunInv, TypeOK
<1>4. last[e] # now[r]
  BY <1>1, <1>2, <1>3
<1> QED BY <1>2, <1>4 DEF LeaseInv, LeaseHeld

LEMMA EndRunLease ==
  ASSUME RunInv, LeaseInv, NEW r \in Runs, EndRun(r), UNCHANGED rowVars
  PROVE  NoClaimBefore' /\ ClaimsDiffer' /\ LeaseHeld' /\ BatchClaimed'
<1> USE DEF rowVars
<1>1. /\ claim' = [claim EXCEPT ![r] = NoClaim]
      /\ now' = [now EXCEPT ![r] = 0]
      /\ batch' = [batch EXCEPT ![r] = [e \in Events |-> 0]]
      /\ pc' = [pc EXCEPT ![r] = "idle"]
  BY DEF EndRun, Goto
<1>2. NoClaimBefore' /\ ClaimsDiffer'
  BY <1>1 DEF RunInv, TypeOK, LeaseInv, NoClaimBefore, ClaimsDiffer
<1>3. LeaseHeld' /\ BatchClaimed'
  BY <1>1 DEF RunInv, TypeOK, LeaseInv, LeaseHeld, BatchClaimed
<1> QED BY <1>2, <1>3

\* Settling a record gives up the claim on it and touches no other run's.
LEMMA SettledLease ==
  ASSUME RunInv, LeaseInv, NEW r \in Runs, NEW e \in Todo(r),
         NEW to, NEW due, Mark(e, to, due), Settled(r, e), InLoop(r)
  PROVE  NoClaimBefore' /\ ClaimsDiffer' /\ LeaseHeld' /\ BatchClaimed'
<1>1. /\ e \in Events /\ claim[r] # NoClaim
      /\ \A s \in Runs : s # r /\ claim[s] # NoClaim => claimId[e] # claim[s]
  <2>1. e \in Events /\ batch[r][e] > 0
    BY DEF Todo
  <2>2. claim[r] # NoClaim /\ claimId[e] = claim[r]
    BY <2>1 DEF LeaseInv, BatchClaimed
  <2> QED BY <2>1, <2>2 DEF LeaseInv, ClaimsDiffer
<1>2. /\ \A f \in Events : f # e => state'[f] = state[f] /\ claimId'[f] = claimId[f]
      /\ claimId'[e] = NoClaim
      /\ UNCHANGED <<attempts, last>>
  BY <1>1 DEF Mark, RunInv, TypeOK
<1>3. CASE Todo(r) = {e}
  <2>1. /\ claim' = [claim EXCEPT ![r] = NoClaim]
        /\ now' = [now EXCEPT ![r] = 0]
        /\ batch' = [batch EXCEPT ![r] = [f \in Events |-> 0]]
        /\ pc' = [pc EXCEPT ![r] = "idle"]
    BY <1>3 DEF Settled, EndRun, Goto
  <2>2. NoClaimBefore' /\ ClaimsDiffer'
    BY <2>1 DEF RunInv, TypeOK, LeaseInv, NoClaimBefore, ClaimsDiffer
  <2>3. LeaseHeld'
    BY <1>1, <1>2, <2>1 DEF RunInv, TypeOK, LeaseInv, LeaseHeld
  <2>4. BatchClaimed'
    BY <1>1, <1>2, <2>1 DEF RunInv, TypeOK, LeaseInv, BatchClaimed
  <2> QED BY <2>2, <2>3, <2>4
<1>4. CASE Todo(r) # {e}
  <2>1. /\ batch' = [batch EXCEPT ![r][e] = 0]
        /\ pc' = [pc EXCEPT ![r] = "publish"]
        /\ UNCHANGED <<now, claim>>
    BY <1>4 DEF Settled, Goto
  <2>2. NoClaimBefore' /\ ClaimsDiffer'
    BY <2>1 DEF RunInv, TypeOK, LeaseInv, NoClaimBefore, ClaimsDiffer
  <2>3. LeaseHeld'
    BY <1>1, <1>2, <2>1 DEF RunInv, TypeOK, LeaseInv, LeaseHeld
  <2>4. BatchClaimed'
    BY <1>1, <1>2, <2>1 DEF RunInv, TypeOK, LeaseInv, BatchClaimed
  <2> QED BY <2>2, <2>3, <2>4
<1> QED BY <1>3, <1>4

LEMMA LeaseStep == Timely /\ RunInv /\ LeaseInv /\ [Next]_vars => LeaseInv'
<1> SUFFICES ASSUME Timely, RunInv, LeaseInv, [Next]_vars PROVE LeaseInv'
  OBVIOUS
<1> USE DEF rowVars, runVars
<1>1. ASSUME NEW e \in Events, Record(e) \/ Finish(e) PROVE LeaseInv'
  <2>1. UNCHANGED <<rowVars, runVars>>
    BY <1>1 DEF Record, Finish
  <2>2. Unrecorded'
    BY <1>1 DEF Record, Finish, RunInv, TypeOK, LeaseInv, Unrecorded
  <2> QED BY <2>1, <2>2
          DEF LeaseInv, NoClaimBefore, ClaimsDiffer, LeaseHeld, BatchClaimed,
              Budget, AttemptsBounded
<1>2. ASSUME NEW e \in Events, Requeue(e) PROVE LeaseInv'
  <2>1. /\ state[e] = "failed" /\ tx[e] = "committed"
        /\ state' = [state EXCEPT ![e] = "pending"]
        /\ attempts' = [attempts EXCEPT ![e] = 0]
        /\ claimId' = [claimId EXCEPT ![e] = NoClaim]
        /\ UNCHANGED <<tx, last, pc, now, claim, batch>>
    BY <1>2 DEF Requeue, Rows
  <2>2. NoClaimBefore' /\ ClaimsDiffer'
    BY <2>1 DEF LeaseInv, NoClaimBefore, ClaimsDiffer
  <2>3. LeaseHeld'
    BY <2>1 DEF RunInv, TypeOK, LeaseInv, LeaseHeld
  <2>4. \A r \in Runs : batch[r][e] = 0
    BY <2>1 DEF RunInv, TypeOK, LeaseInv, BatchClaimed, LeaseHeld
  <2>5. BatchClaimed'
    BY <2>1, <2>4 DEF RunInv, TypeOK, LeaseInv, BatchClaimed
  <2>6. Budget' /\ Unrecorded'
    BY <2>1 DEF RunInv, TypeOK, LeaseInv, Budget, AttemptsBounded, Unrecorded
  <2> QED BY <2>2, <2>3, <2>5, <2>6 DEF LeaseInv
<1>3. ASSUME NEW r \in Runs, Begin(r) PROVE LeaseInv'
  BY <1>3 DEF Begin, Goto, RunInv, TypeOK, LeaseInv, NoClaimBefore, ClaimsDiffer,
              LeaseHeld, BatchClaimed, Budget, AttemptsBounded, Unrecorded
<1>4. ASSUME NEW r \in Runs, ReleaseExhausted(r) \/ ReleaseRecoverable(r)
      PROVE  LeaseInv'
  <2>1. PICK S, to :
          /\ S \subseteq Stale(r)
          /\ to \in {"failed", "retrying"}
          /\ to = "retrying" => \A e \in S : attempts[e] < MaxAttempts
          /\ Release(S, to)
    BY <1>4 DEF ReleaseExhausted, ReleaseRecoverable
  <2>2. /\ UNCHANGED <<tx, now, claim, batch>>
        /\ \/ pc' = [pc EXCEPT ![r] = "recover"] /\ pc[r] = "expire"
           \/ pc' = [pc EXCEPT ![r] = "claim"] /\ pc[r] = "recover"
    BY <1>4 DEF ReleaseExhausted, ReleaseRecoverable, Goto
  <2>3. \A s \in Runs : \A e \in S : claim[s] # NoClaim => claimId[e] # claim[s]
    BY <2>1, StaleIsOrphaned
  <2>4. NoClaimBefore' /\ ClaimsDiffer'
    BY <2>2 DEF RunInv, TypeOK, LeaseInv, NoClaimBefore, ClaimsDiffer
  <2>5. LeaseHeld'
    BY <2>1, <2>2, <2>3 DEF Release, RunInv, TypeOK, LeaseInv, LeaseHeld
  <2>6. BatchClaimed'
    BY <2>1, <2>2, <2>3 DEF Release, RunInv, TypeOK, LeaseInv, BatchClaimed
  <2>7. Budget'
    BY <2>1 DEF Release, RunInv, TypeOK, LeaseInv, Budget, AttemptsBounded
  <2>8. Unrecorded'
    BY <2>1, <2>2 DEF Release, Stale, Rows, LeaseInv, Unrecorded
  <2> QED BY <2>4, <2>5, <2>6, <2>7, <2>8 DEF LeaseInv
<1>5. ASSUME NEW r \in Runs, ClaimDue(r) PROVE LeaseInv'
  <2> DEFINE won == OldestOf(Due(r))
  <2>1. PICK c \in Claims :
          /\ Fresh(c)
          /\ claim' = [claim EXCEPT ![r] = c]
          /\ state' = [e \in Events |->
                         IF e \in won THEN "publishing" ELSE state[e]]
          /\ claimId' = [e \in Events |-> IF e \in won THEN c ELSE claimId[e]]
          /\ attempts' = [e \in Events |->
                            IF e \in won THEN attempts[e] + 1 ELSE attempts[e]]
          /\ last' = [e \in Events |-> IF e \in won THEN now[r] ELSE last[e]]
    BY <1>5 DEF ClaimDue
  <2>2. /\ pc[r] = "claim"
        /\ pc' = [pc EXCEPT ![r] = "select"]
        /\ UNCHANGED <<tx, now, batch>>
    BY <1>5 DEF ClaimDue, Goto
  <2>3. \A e \in won : /\ e \in Events /\ tx[e] = "committed"
                        /\ state[e] \in {"pending", "retrying"}
    BY DEF OldestOf, Due, Rows
  <2>4. /\ c # NoClaim
        /\ \A s \in Runs : claim[s] # c
        /\ \A e \in Events : claimId[e] # c
    BY <2>1 DEF Fresh
  <2>5. claim[r] = NoClaim
    BY <2>2 DEF LeaseInv, NoClaimBefore
  <2>6. \A s \in Runs : \A e \in won : claim[s] # NoClaim => claimId[e] # claim[s]
    BY <2>3 DEF LeaseInv, LeaseHeld
  <2> HIDE DEF won
  <2>7. NoClaimBefore' /\ ClaimsDiffer'
    BY <2>1, <2>2, <2>4 DEF RunInv, TypeOK, LeaseInv, NoClaimBefore, ClaimsDiffer
  <2>8. LeaseHeld'
    BY <2>1, <2>2, <2>3, <2>4, <2>6 DEF RunInv, TypeOK, LeaseInv, LeaseHeld
  <2>9. BatchClaimed'
    BY <2>1, <2>2, <2>4, <2>5, <2>6 DEF RunInv, TypeOK, LeaseInv, BatchClaimed
  <2>10. Budget'
    BY <2>1, <2>3 DEF RunInv, TypeOK, LeaseInv, Budget, AttemptsBounded
  <2>11. Unrecorded'
    BY <2>1, <2>2, <2>3 DEF LeaseInv, Unrecorded
  <2> QED BY <2>7, <2>8, <2>9, <2>10, <2>11 DEF LeaseInv
<1>6. ASSUME NEW r \in Runs, ReadClaimed(r) PROVE LeaseInv'
  <2> DEFINE won == {e \in Rows : claimId[e] = claim[r]}
  <2>1. /\ pc[r] = "select"
        /\ UNCHANGED <<tx, rowVars>>
    BY <1>6 DEF ReadClaimed
  <2>2. Budget' /\ Unrecorded'
    BY <2>1 DEF LeaseInv, Budget, AttemptsBounded, Unrecorded
  <2>3. CASE won = {}
    BY <1>6, <2>1, <2>2, <2>3, EndRunLease DEF ReadClaimed, LeaseInv
  <2>4. CASE won # {}
    <3>1. /\ batch' = [batch EXCEPT ![r] =
                    [e \in Events |-> IF e \in won THEN attempts[e] ELSE 0]]
          /\ pc' = [pc EXCEPT ![r] = "publish"]
          /\ UNCHANGED <<now, claim>>
      BY <1>6, <2>4 DEF ReadClaimed, Goto
    <3>2. claim[r] # NoClaim
      BY <2>1 DEF RunInv, ReaderHasClaim
    <3>3. \A e \in won : claimId[e] = claim[r]
      OBVIOUS
    <3> HIDE DEF won
    <3>4. NoClaimBefore' /\ ClaimsDiffer' /\ LeaseHeld'
      BY <2>1, <3>1
         DEF RunInv, TypeOK, LeaseInv, NoClaimBefore, ClaimsDiffer, LeaseHeld
    <3>5. BatchClaimed'
      BY <2>1, <3>1, <3>2, <3>3 DEF RunInv, TypeOK, LeaseInv, BatchClaimed
    <3> QED BY <2>2, <3>4, <3>5 DEF LeaseInv
  <2> QED BY <2>3, <2>4
<1>7. ASSUME NEW r \in Runs, Publish(r) \/ MarkPublishedThrows(r) PROVE LeaseInv'
  <2>1. /\ UNCHANGED <<tx, rowVars, now, claim, batch>>
        /\ \E at \in {"mark", "transient", "permanent"} :
             pc' = [pc EXCEPT ![r] = at]
    BY <1>7 DEF Publish, MarkPublishedThrows, Goto, Timely
  <2>2. NoClaimBefore'
    BY <2>1 DEF RunInv, TypeOK, LeaseInv, NoClaimBefore
  <2> QED BY <2>1, <2>2
          DEF LeaseInv, ClaimsDiffer, LeaseHeld, BatchClaimed, Budget,
              AttemptsBounded, Unrecorded
<1>8. ASSUME NEW r \in Runs, MarkPublished(r) \/ MarkFailure(r) PROVE LeaseInv'
  <2> DEFINE e == Oldest(Todo(r))
  <2>1. InLoop(r) /\ Settled(r, e) /\ tx' = tx
    BY <1>8 DEF MarkPublished, MarkFailure, InLoop
  <2>2. e \in Events /\ e \in Todo(r)
    BY <2>1, CurrentRecord DEF RunInv
  <2>3. PICK to, due : /\ Mark(e, to, due)
                       /\ to \in {"published", "failed", "retrying"}
                       /\ to = "retrying" => batch[r][e] < MaxAttempts
    <3>1. CASE MarkPublished(r)
      <4>1. Mark(e, "published", LongAgo)
        BY <3>1 DEF MarkPublished
      <4> QED BY <4>1
    <3>2. CASE MarkFailure(r)
      <4>1. batch[r][e] \in Nat /\ MaxAttempts \in Nat
        BY <2>1, CurrentRecord DEF RunInv
      <4>2. \/ Mark(e, "failed", LongAgo)
            \/ /\ \E d : Mark(e, "retrying", now[r] + d)
               /\ ~Exhausted(r, e)
        BY <3>2 DEF MarkFailure
      <4>3. ~Exhausted(r, e) => batch[r][e] < MaxAttempts
        BY <4>1 DEF Exhausted
      <4> HIDE DEF e
      <4> QED BY <4>2, <4>3
    <3> QED BY <1>8, <3>1, <3>2
  <2>4. attempts[e] = batch[r][e] /\ state[e] = "publishing"
    BY <2>2 DEF LeaseInv, BatchClaimed, LeaseHeld, Todo
  <2> HIDE DEF e
  <2>5. Budget'
    BY <2>2, <2>3, <2>4 DEF Mark, RunInv, TypeOK, LeaseInv, Budget, AttemptsBounded
  <2>6. Unrecorded'
    BY <2>1, <2>2, <2>3, <2>4 DEF Mark, RunInv, TypeOK, LeaseInv, Unrecorded
  <2> QED BY <2>1, <2>2, <2>3, <2>5, <2>6, SettledLease DEF LeaseInv
<1>9. ASSUME NEW r \in Runs, Abort(r) PROVE LeaseInv'
  BY <1>9, EndRunLease
     DEF Abort, LeaseInv, Budget, AttemptsBounded, Unrecorded
<1>10. CASE Tick
  <2>1. \A r \in Runs : claim[r] # NoClaim => now[r] > -MaxRun /\ now'[r] = now[r] - 1
    BY <1>10 DEF Tick, LeaseInv, NoClaimBefore
  <2>2. /\ last' = [e \in Events |-> Older(last[e])]
        /\ UNCHANGED <<tx, state, attempts, claimId, pc, claim, batch>>
    BY <1>10 DEF Tick
  <2>3. \A t \in Int : t > -MaxRun => Older(t) = t - 1
    BY DEF Older, LongAgo, Horizon
  <2>4. LeaseHeld'
    BY <2>1, <2>2, <2>3 DEF LeaseInv, LeaseHeld, RunInv, TypeOK
  <2> QED BY <2>2, <2>4
          DEF LeaseInv, NoClaimBefore, ClaimsDiffer, BatchClaimed, Budget,
              AttemptsBounded, Unrecorded
<1>11. CASE UNCHANGED vars
  BY <1>11 DEF vars, LeaseInv, NoClaimBefore, ClaimsDiffer, LeaseHeld,
               BatchClaimed, Budget, AttemptsBounded, Unrecorded
<1> QED
  BY <1>1, <1>2, <1>3, <1>4, <1>5, <1>6, <1>7, <1>8, <1>9, <1>10, <1>11
     DEF Next, RunStep

\* Under the lease assumption no record is ever in the hands of two runs.
THEOREM EveryRecordHasOneOwner == Timely => (Spec => []OneOwner)
<1> SUFFICES ASSUME Timely PROVE Spec => []OneOwner
  OBVIOUS
<1>1. Init => RunInv /\ LeaseInv
  BY RunInvInit, LeaseInit
<1>2. RunInv /\ LeaseInv /\ [Next]_vars => (RunInv /\ LeaseInv)'
  BY RunInvStep, LeaseStep
<1>3. LeaseInv => OneOwner
  <2> SUFFICES ASSUME LeaseInv, NEW r \in Runs, NEW s \in Runs, r # s,
                      NEW e \in Events, batch[r][e] > 0, batch[s][e] > 0
               PROVE  FALSE
    BY DEF OneOwner, Todo
  <2>1. \A q \in Runs :
          batch[q][e] > 0 => claim[q] = claimId[e] /\ claim[q] # NoClaim
    BY DEF LeaseInv, BatchClaimed
  <2> QED BY <2>1 DEF LeaseInv, ClaimsDiffer
<1> QED BY <1>1, <1>2, <1>3, PTL DEF Spec

\* Under the lease assumption the attempt budget is never exceeded.
THEOREM BudgetIsKept == Timely => (Spec => []AttemptsBounded)
<1> SUFFICES ASSUME Timely PROVE Spec => []AttemptsBounded
  OBVIOUS
<1>1. Init => RunInv /\ LeaseInv
  BY RunInvInit, LeaseInit
<1>2. RunInv /\ LeaseInv /\ [Next]_vars => (RunInv /\ LeaseInv)'
  BY RunInvStep, LeaseStep
<1>3. LeaseInv => AttemptsBounded
  BY DEF LeaseInv, Budget
<1> QED BY <1>1, <1>2, <1>3, PTL DEF Spec

-----------------------------------------------------------------------------
(* The lifecycle diagram, under the lease assumption.                      *)

\* What an observer of committed rows sees of a record.
Seen(e) == IF e \in Rows THEN state[e] ELSE "absent"

LEMMA MoveAlongEdges ==
  ASSUME TypeOK, TypeOK', UNCHANGED delivered,
         \A e \in Events :
           /\ Seen(e)' = Seen(e) \/ <<Seen(e), Seen(e)'>> \in Lifecycle!Edges
           /\ Seen(e)' = "published" => e \in delivered
  PROVE  Lifecycle!Next
<1>1. \A e \in Events : Seen(e)' \in Lifecycle!States
  BY DEF Seen, TypeOK, RowStates, Lifecycle!States
<1> QED BY <1>1 DEF Seen, Lifecycle!Next, Lifecycle!Move

LEMMA LifecycleStep ==
  Timely /\ RunInv /\ RunInv' /\ DeliveryInv /\ DeliveryInv' /\ LeaseInv
    /\ [Next]_vars => [Lifecycle!Next]_(Lifecycle!vars)
<1> SUFFICES ASSUME Timely, RunInv, RunInv', DeliveryInv, DeliveryInv',
                    LeaseInv, [Next]_vars
             PROVE  [Lifecycle!Next]_(Lifecycle!vars)
  OBVIOUS
<1> USE DEF rowVars, runVars
<1>0. /\ TypeOK /\ TypeOK'
      /\ \A e \in Events : Seen(e)' = "published" => e \in delivered'
  BY DEF RunInv, DeliveryInv, PublishedIsDelivered, Seen
<1>1. ASSUME UNCHANGED <<tx, state, delivered>> PROVE UNCHANGED Lifecycle!vars
  BY <1>1 DEF Lifecycle!vars, Rows
<1>2. ASSUME NEW e \in Events, Record(e) \/ Finish(e) PROVE Lifecycle!Next
  <2>1. state[e] = "pending" /\ UNCHANGED <<state, delivered>>
    BY <1>2 DEF Record, Finish, LeaseInv, Unrecorded
  <2>2. \A f \in Events :
          Seen(f)' = Seen(f) \/ <<Seen(f), Seen(f)'>> \in Lifecycle!Edges
    BY <1>2, <2>1 DEF Record, Finish, Seen, Rows, RunInv, TypeOK, Lifecycle!Edges
  <2> QED BY <1>0, <2>1, <2>2, MoveAlongEdges
<1>3. ASSUME NEW e \in Events, Requeue(e) PROVE Lifecycle!Next
  <2>1. UNCHANGED <<tx, delivered>>
    BY <1>3 DEF Requeue
  <2>2. \A f \in Events :
          Seen(f)' = Seen(f) \/ <<Seen(f), Seen(f)'>> \in Lifecycle!Edges
    BY <1>3 DEF Requeue, Seen, Rows, RunInv, TypeOK, Lifecycle!Edges
  <2> QED BY <1>0, <2>1, <2>2, MoveAlongEdges
<1>4. ASSUME NEW r \in Runs, ReleaseExhausted(r) \/ ReleaseRecoverable(r)
      PROVE  Lifecycle!Next
  <2>1. PICK S, to : /\ S \subseteq Stale(r)
                     /\ to \in {"failed", "retrying"}
                     /\ Release(S, to)
    BY <1>4 DEF ReleaseExhausted, ReleaseRecoverable
  <2>2. UNCHANGED <<tx, delivered>>
    BY <1>4 DEF ReleaseExhausted, ReleaseRecoverable
  <2>3. \A f \in Events :
          Seen(f)' = Seen(f) \/ <<Seen(f), Seen(f)'>> \in Lifecycle!Edges
    BY <2>1, <2>2 DEF Release, Stale, Seen, Rows, RunInv, TypeOK, Lifecycle!Edges
  <2> QED BY <1>0, <2>2, <2>3, MoveAlongEdges
<1>5. ASSUME NEW r \in Runs, ClaimDue(r) PROVE Lifecycle!Next
  <2>1. /\ UNCHANGED <<tx, delivered>>
        /\ state' = [e \in Events |->
              IF e \in OldestOf(Due(r)) THEN "publishing" ELSE state[e]]
    BY <1>5 DEF ClaimDue
  <2>2. \A e \in OldestOf(Due(r)) : state[e] \in {"pending", "retrying"}
    BY DEF OldestOf, Due
  <2>3. \A f \in Events :
          Seen(f)' = Seen(f) \/ <<Seen(f), Seen(f)'>> \in Lifecycle!Edges
    BY <2>1, <2>2 DEF Seen, Rows, RunInv, TypeOK, Lifecycle!Edges
  <2> QED BY <1>0, <2>1, <2>3, MoveAlongEdges
<1>6. ASSUME NEW r \in Runs, InLoop(r)
      PROVE  LET e == Oldest(Todo(r)) IN
               e \in Events /\ e \in Rows /\ state[e] = "publishing"
  <2> DEFINE e == Oldest(Todo(r))
  <2>1. e \in Events /\ batch[r][e] > 0
    BY <1>6, CurrentRecord DEF RunInv, Todo
  <2> HIDE DEF e
  <2>2. tx[e] = "committed" /\ state[e] = "publishing"
    BY <2>1 DEF DeliveryInv, HeldIsCommitted, LeaseInv, BatchClaimed, LeaseHeld
  <2>3. e \in Events /\ e \in Rows /\ state[e] = "publishing"
    BY <2>1, <2>2 DEF Rows
  <2> QED BY <2>3 DEF e
<1>7. ASSUME NEW r \in Runs, Publish(r)
      PROVE  Lifecycle!Next \/ UNCHANGED Lifecycle!vars
  <2> DEFINE e == Oldest(Todo(r))
  <2>1. e \in Events /\ e \in Rows /\ state[e] = "publishing"
    BY <1>6, <1>7 DEF Publish, InLoop
  <2>2. /\ UNCHANGED <<tx, state>>
        /\ delivered' = delivered \/ delivered' = delivered \cup {e}
    BY <1>7 DEF Publish
  <2> HIDE DEF e
  <2>3. CASE delivered' = delivered
    BY <1>1, <2>2, <2>3
  <2>4. CASE delivered' = delivered \cup {e}
    BY <2>1, <2>2, <2>4 DEF Lifecycle!Next, Lifecycle!Deliver, Rows
  <2> QED BY <2>2, <2>3, <2>4
<1>8. ASSUME NEW r \in Runs, MarkPublished(r) \/ MarkFailure(r)
      PROVE  Lifecycle!Next
  <2> DEFINE e == Oldest(Todo(r))
  <2>1. e \in Events /\ e \in Rows /\ state[e] = "publishing"
    BY <1>6, <1>8 DEF MarkPublished, MarkFailure, InLoop
  <2>2. UNCHANGED <<tx, delivered>>
    BY <1>8 DEF MarkPublished, MarkFailure
  <2>3. PICK to \in {"published", "failed", "retrying"} :
          state' = [state EXCEPT ![e] = to]
    BY <1>8 DEF MarkPublished, MarkFailure, Mark
  <2> HIDE DEF e
  <2>4. \A f \in Events :
          Seen(f)' = Seen(f) \/ <<Seen(f), Seen(f)'>> \in Lifecycle!Edges
    BY <2>1, <2>2, <2>3 DEF Seen, Rows, RunInv, TypeOK, Lifecycle!Edges
  <2> QED BY <1>0, <2>2, <2>4, MoveAlongEdges
<1>9. ASSUME NEW r \in Runs,
             Begin(r) \/ ReadClaimed(r) \/ MarkPublishedThrows(r) \/ Abort(r)
      PROVE  UNCHANGED Lifecycle!vars
  <2>1. UNCHANGED <<tx, state, delivered>>
    BY <1>9 DEF Begin, ReadClaimed, MarkPublishedThrows, Abort, Timely
  <2> QED BY <1>1, <2>1
<1>10. ASSUME Tick \/ UNCHANGED vars PROVE UNCHANGED Lifecycle!vars
  BY <1>1, <1>10 DEF Tick, vars
<1> QED
  BY <1>2, <1>3, <1>4, <1>5, <1>7, <1>8, <1>9, <1>10 DEF Next, RunStep

\* Under the lease assumption the publisher implements the lifecycle diagram:
\* published is terminal, failed is left by a requeue only, and only a record
\* that a run holds goes out.
THEOREM RunsFollowTheLifecycle == Timely => (Spec => LifecycleSpec)
<1> SUFFICES ASSUME Timely PROVE Spec => LifecycleSpec
  OBVIOUS
<1> DEFINE Inv == RunInv /\ DeliveryInv /\ LeaseInv
<1>1. Init => Inv
  BY RunInvInit, DeliveryInit, LeaseInit
<1>2. Inv /\ [Next]_vars => Inv'
  BY RunInvStep, DeliveryStep, LeaseStep
<1>3. Init => Lifecycle!Init
  BY DEF Init, Lifecycle!Init, Rows
<1>4. Inv /\ Inv' /\ [Next]_vars => [Lifecycle!Next]_(Lifecycle!vars)
  BY LifecycleStep
<1> HIDE DEF Inv
<1> QED BY <1>1, <1>2, <1>3, <1>4, PTL DEF Spec, LifecycleSpec, Lifecycle!Spec

=============================================================================

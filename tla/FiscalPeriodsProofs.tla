------------------------ MODULE FiscalPeriodsProofs ------------------------
(***************************************************************************)
(* Type correctness of FiscalPeriods, the frozen periods, the transitions  *)
(* that match their events, the frame generated once and the pointer it    *)
(* comes with, proved for any sets of years, periods and transactions.     *)
(***************************************************************************)
EXTENDS FiscalPeriods, TLAPS

-----------------------------------------------------------------------------
(* What a transaction has locked at its writes, and what that protects.    *)

Transition(t) == Op(t) \in {"close", "reopen"}
Generation(t) == Op(t) = "generate"

Held(t) ==
  /\ at[t] = "commit" /\ Transition(t) => writer[Of(t)] = t
  /\ at[t] = "commit" /\ Op(t) = "post" => share[t] = Of(t)
  /\ at[t] \in {"seed", "activate", "commit"} /\ Generation(t) =>
       \A p \in PeriodsOf(request[t].year) : writer[p] = t /\ state[p] = "none"

\* A shared lock keeps its period open and keeps writers away.
SharedIsOpen(t) ==
  share[t] # NoPeriod => writer[share[t]] = NoTx /\ state[share[t]] = "open"

\* What a transition saw: the period has changed since then only if its
\* revision has grown, and at the commit it has not.
Judged(t) ==
  at[t] \in {"pointer", "update", "commit"} /\ Transition(t) =>
    /\ view[t].state[Of(t)] = IF Op(t) = "close" THEN "open" ELSE "closed"
    /\ state[Of(t)] # "none"
    /\ view[t].revision[Of(t)] <= revision[Of(t)]
    /\ view[t].revision[Of(t)] = revision[Of(t)] =>
         state[Of(t)] = view[t].state[Of(t)]
    /\ at[t] = "commit" => view[t].revision[Of(t)] = revision[Of(t)]

\* A pointer once seen is there; a generation that did not see one sets it.
Pointed(t) ==
  /\ view[t].active # NoPeriod => active # NoPeriod
  /\ at[t] = "commit" /\ Generation(t) => pointing = t \/ active # NoPeriod
  /\ at[t] \in {"activate", "commit"} /\ Op(t) = "select" => state[Of(t)] # "none"

PointerIsDefined == active # NoPeriod => state[active] # "none"

Parts(t) == Held(t) /\ SharedIsOpen(t) /\ Judged(t) /\ Pointed(t)

RowFacts ==
  /\ PointerIsDefined
  /\ TransitionsMatchEvents
  /\ GeneratedOnce
  /\ FrameHasActivePeriod

Inv ==
  /\ TypeOK
  /\ \A t \in Txs : Parts(t)
  /\ RowFacts

-----------------------------------------------------------------------------
(* Type correctness.                                                       *)

\* Shapes of the requests.
LEMMA Shapes ==
  ASSUME NEW r \in Requests \cup {Idle}
  PROVE  /\ r.op \in {"idle", "close", "reopen", "select", "generate", "post"}
         /\ r.op \in {"close", "reopen", "select", "post"} => r.period \in Periods
         /\ r.op = "generate" => r.year \in Years
BY DEF Requests, Idle

\* The places of each request, field by field.
LEMMA PlacesOfOps ==
  /\ OpPlaces["idle"] = {"idle"}
  /\ OpPlaces["close"] = {"load", "pointer", "update", "commit"}
  /\ OpPlaces["reopen"] = {"load", "update", "commit"}
  /\ OpPlaces["select"] = {"load", "activate", "commit"}
  /\ OpPlaces["generate"] = {"load", "insert", "seed", "activate", "commit"}
  /\ OpPlaces["post"] = {"guard", "commit"}
BY DEF OpPlaces

LEMMA NoViewType == NoView \in Views
BY DEF NoView, Views, States

LEMMA SnapshotType == TypeOK => Snapshot \in Views
BY DEF TypeOK, Snapshot, Views

\* What the rows keep of the types.
RowTypes ==
  /\ state \in [Periods -> States]
  /\ revision \in [Periods -> Nat]
  /\ active \in Periods \cup {NoPeriod}
  /\ postings \in [Periods -> Nat]
  /\ events \in Events

\* What the transactions keep of the types.
TxTypes ==
  /\ request \in [Txs -> Requests \cup {Idle}]
  /\ at \in [Txs -> Places]
  /\ view \in [Txs -> Views]
  /\ writer \in [Periods -> Txs \cup {NoTx}]
  /\ pointing \in Txs \cup {NoTx}
  /\ share \in [Txs -> Periods \cup {NoPeriod}]
  /\ \A t \in Txs : at[t] \in OpPlaces[Op(t)]
  /\ \A p \in Periods :
       writer[p] # NoTx => at[writer[p]] \in {"seed", "activate", "commit"}
  /\ pointing # NoTx => at[pointing] = "commit"
  /\ \A t \in Txs : share[t] # NoPeriod => at[t] = "commit"

LEMMA TypesSplit == TypeOK <=> RowTypes /\ TxTypes
BY DEF TypeOK, RowTypes, TxTypes

LEMMA EndTypes ==
  ASSUME TypeOK, NEW t \in Txs, End(t)
  PROVE  TxTypes'
<1>1. /\ at' = [at EXCEPT ![t] = "idle"]
      /\ request' = [request EXCEPT ![t] = Idle]
      /\ writer' = [p \in Periods |-> IF writer[p] = t THEN NoTx ELSE writer[p]]
      /\ pointing' = IF pointing = t THEN NoTx ELSE pointing
      /\ share' = [share EXCEPT ![t] = NoPeriod]
      /\ view' = [view EXCEPT ![t] = NoView]
  BY DEF End, Goto
<1>2. request' \in [Txs -> Requests \cup {Idle}] /\ at' \in [Txs -> Places]
  BY <1>1 DEF TypeOK, Places
<1>3. view' \in [Txs -> Views]
  BY <1>1, NoViewType DEF TypeOK
<1>4. /\ writer' \in [Periods -> Txs \cup {NoTx}]
      /\ pointing' \in Txs \cup {NoTx}
      /\ share' \in [Txs -> Periods \cup {NoPeriod}]
  BY <1>1 DEF TypeOK
<1>5. \A u \in Txs : at'[u] \in OpPlaces[request'[u].op]
  BY <1>1, PlacesOfOps DEF TypeOK, Op, Idle
<1>6. \A p \in Periods :
        writer'[p] # NoTx => at'[writer'[p]] \in {"seed", "activate", "commit"}
  BY <1>1, FiscalConstants DEF TypeOK
<1>7. pointing' # NoTx => at'[pointing'] = "commit"
  BY <1>1, FiscalConstants DEF TypeOK
<1>8. \A u \in Txs : share'[u] # NoPeriod => at'[u] = "commit"
  BY <1>1 DEF TypeOK
<1> QED
  BY <1>2, <1>3, <1>4, <1>5, <1>6, <1>7, <1>8 DEF TxTypes, Op

LEMMA RollbackTypes ==
  ASSUME TypeOK, NEW t \in Txs, Rollback(t)
  PROVE  TypeOK'
<1>1. TxTypes'
  BY EndTypes DEF Rollback
<1>2. RowTypes'
  BY DEF Rollback, rows, RowTypes, TypeOK
<1> QED
  BY <1>1, <1>2, TypesSplit, PTL

\* A step to another place of the same request that locks nothing and may
\* take the snapshot.
LEMMA WalkTypes ==
  ASSUME TypeOK, NEW t \in Txs, NEW next \in Places,
         Goto(t, next), next \in OpPlaces[Op(t)],
         UNCHANGED <<rows, request, locks>>,
         view' = view \/ view' = [view EXCEPT ![t] = Snapshot],
         at[t] \notin {"activate", "commit"},
         at[t] = "seed" => next \in {"activate", "commit"}
  PROVE  TypeOK'
<1>1. view' \in [Txs -> Views]
  BY SnapshotType DEF TypeOK
<1>2. \A u \in Txs : at'[u] = IF u = t THEN next ELSE at[u]
  BY DEF Goto, TypeOK
<1>3. at' \in [Txs -> Places] /\ \A u \in Txs : at'[u] \in OpPlaces[Op(u)]
  BY <1>2 DEF TypeOK, Goto
<1>4. \A p \in Periods :
        writer[p] # NoTx => at'[writer[p]] \in {"seed", "activate", "commit"}
  BY <1>2, FiscalConstants DEF TypeOK
<1>5. pointing # NoTx => at'[pointing] = "commit"
  BY <1>2, FiscalConstants DEF TypeOK
<1>6. \A u \in Txs : share[u] # NoPeriod => at'[u] = "commit"
  BY <1>2 DEF TypeOK
<1> QED
  BY <1>1, <1>3, <1>4, <1>5, <1>6 DEF TypeOK, rows, locks, Op

\* A step that takes the lock of a write and goes to the next place.
LEMMA LockTypes ==
  ASSUME TypeOK, NEW t \in Txs, NEW next \in {"seed", "commit"},
         Goto(t, next), next \in OpPlaces[Op(t)], UNCHANGED <<rows, request, view>>,
         at[t] \notin {"commit", "seed"},
         writer' \in [Periods -> Txs \cup {NoTx}],
         \A p \in Periods : writer'[p] \in {writer[p], t},
         pointing' \in {pointing, t}, pointing' = t => next = "commit",
         share' = share \/ \E p \in Periods : share' = [share EXCEPT ![t] = p],
         share' # share => next = "commit"
  PROVE  TypeOK'
<1>1. \A u \in Txs : at'[u] = IF u = t THEN next ELSE at[u]
  BY DEF Goto, TypeOK
<1>2. at' \in [Txs -> Places] /\ \A u \in Txs : at'[u] \in OpPlaces[Op(u)]
  BY <1>1 DEF TypeOK, Goto, Places
<1>3. \A p \in Periods :
        writer'[p] # NoTx => at'[writer'[p]] \in {"seed", "activate", "commit"}
  <2> SUFFICES ASSUME NEW p \in Periods, writer'[p] # NoTx
               PROVE  at'[writer'[p]] \in {"seed", "activate", "commit"}
    OBVIOUS
  <2>1. CASE writer'[p] = t
    BY <2>1, <1>1
  <2>2. CASE writer'[p] # t
    <3>1. writer'[p] = writer[p] /\ writer[p] \in Txs
      BY <2>2 DEF TypeOK
    <3> QED
      BY <2>2, <3>1, <1>1 DEF TypeOK
  <2> QED
    BY <2>1, <2>2
<1>4. pointing' \in Txs \cup {NoTx} /\ (pointing' # NoTx => at'[pointing'] = "commit")
  BY <1>1, FiscalConstants DEF TypeOK
<1>5. /\ share' \in [Txs -> Periods \cup {NoPeriod}]
      /\ \A u \in Txs : share'[u] # NoPeriod => at'[u] = "commit"
  <2>1. CASE share' = share
    BY <2>1, <1>1 DEF TypeOK
  <2>2. CASE share' # share
    <3>1. PICK p \in Periods : share' = [share EXCEPT ![t] = p]
      BY <2>2
    <3>2. at'[t] = "commit"
      BY <1>1, <2>2
    <3> QED
      BY <3>1, <3>2, <1>1 DEF TypeOK
  <2> QED
    BY <2>1, <2>2
<1> QED
  BY <1>2, <1>3, <1>4, <1>5 DEF TypeOK, rows, Op

LEMMA CommitTypes ==
  ASSUME TypeOK, NEW t \in Txs, Commit(t)
  PROVE  TypeOK'
<1>1. TxTypes'
  BY EndTypes DEF Commit
<1>r. request[t] \in Requests \cup {Idle} /\ view[t] \in Views
  BY DEF TypeOK
<1>2. RowTypes'
  <2>1. CASE Op(t) = "close" /\ CommitClose(t)
    <3>1. Of(t) \in Periods
      BY <2>1, <1>r, Shapes DEF Op, Of
    <3>2. state' \in [Periods -> States] /\ revision' \in [Periods -> Nat]
      BY <2>1, <3>1, <1>r DEF CommitClose, TypeOK, States, Views
    <3>3. events' \in Events
      BY <2>1, <3>1 DEF CommitClose, TypeOK, Events
    <3> QED
      BY <2>1, <3>2, <3>3 DEF CommitClose, TypeOK, RowTypes
  <2>2. CASE Op(t) = "reopen" /\ CommitReopen(t)
    <3>1. Of(t) \in Periods
      BY <2>2, <1>r, Shapes DEF Op, Of
    <3>2. state' \in [Periods -> States] /\ revision' \in [Periods -> Nat]
      BY <2>2, <3>1, <1>r DEF CommitReopen, TypeOK, States, Views
    <3>3. events' \in Events
      BY <2>2, <3>1 DEF CommitReopen, TypeOK, Events
    <3> QED
      BY <2>2, <3>2, <3>3 DEF CommitReopen, TypeOK, RowTypes
  <2>3. CASE Op(t) = "select" /\ CommitSelect(t)
    BY <2>3, <1>r, Shapes DEF Op, Of, CommitSelect, TypeOK, RowTypes
  <2>4. CASE Op(t) = "generate" /\ CommitGenerate(t)
    <3>1. request[t].year \in Years
      BY <2>4, <1>r, Shapes DEF Op
    <3>2. state' \in [Periods -> States] /\ revision' \in [Periods -> Nat]
      BY <2>4 DEF CommitGenerate, TypeOK, States
    <3>3. active' \in Periods \cup {NoPeriod}
      BY <2>4, <3>1, FiscalConstants DEF CommitGenerate, TypeOK
    <3>4. events' \in Events
      BY <2>4, <3>1 DEF CommitGenerate, TypeOK, Events
    <3> QED
      BY <2>4, <3>2, <3>3, <3>4 DEF CommitGenerate, TypeOK, RowTypes
  <2>5. CASE Op(t) = "post" /\ CommitPosting(t)
    <3>1. Of(t) \in Periods
      BY <2>5, <1>r, Shapes DEF Op, Of
    <3> QED
      BY <2>5, <3>1 DEF CommitPosting, TypeOK, RowTypes
  <2> QED
    BY <2>1, <2>2, <2>3, <2>4, <2>5 DEF Commit
<1> QED
  BY <1>1, <1>2, TypesSplit, PTL

LEMMA BeginTypes ==
  ASSUME TypeOK, NEW t \in Txs, NEW r \in Requests, Begin(t, r)
  PROVE  TypeOK'
<1>1. /\ request' \in [Txs -> Requests \cup {Idle}]
      /\ \A u \in Txs : request'[u] = IF u = t THEN r ELSE request[u]
  BY DEF Begin, TypeOK
<1>2. /\ at' \in [Txs -> Places]
      /\ \A u \in Txs : at'[u] = IF u = t
           THEN IF r.op = "post" THEN "guard" ELSE "load" ELSE at[u]
  BY DEF Begin, Goto, TypeOK, Places
<1>3. r.op \in {"close", "reopen", "select", "generate", "post"}
  BY DEF Requests
<1>4. \A u \in Txs : at'[u] \in OpPlaces[request'[u].op]
  BY <1>1, <1>2, <1>3, PlacesOfOps DEF TypeOK, Op
<1>5. at[t] = "idle"
  BY DEF Begin
<1> QED
  BY <1>1, <1>2, <1>4, <1>5, FiscalConstants DEF Begin, TypeOK, rows, locks, Op

LEMMA LoadTypes ==
  ASSUME TypeOK, NEW t \in Txs, NEW op, NEW STATE accepted, NEW next \in Places,
         Load(t, op, accepted, next), next \in OpPlaces[op]
  PROVE  TypeOK'
<1>1. CASE accepted
  BY <1>1, WalkTypes DEF Load
<1>2. CASE ~accepted
  BY <1>2, RollbackTypes DEF Load
<1> QED
  BY <1>1, <1>2

LEMMA TypeStep == TypeOK /\ [Next]_vars => TypeOK'
<1> SUFFICES ASSUME TypeOK, [Next]_vars
             PROVE  TypeOK'
  OBVIOUS
<1>1. CASE UNCHANGED vars
  BY <1>1 DEF vars, rows, locks, TypeOK, Op
<1>2. CASE Next
  <2> PICK t \in Txs : (\E r \in Requests : Begin(t, r)) \/ TxStep(t) \/ Abort(t)
    BY <1>2 DEF Next
  <2>r. /\ request[t] \in Requests \cup {Idle}
        /\ at[t] \in OpPlaces[Op(t)]
    BY DEF TypeOK
  <2>o. Op(t) \in {"idle", "close", "reopen", "select", "generate", "post"}
    BY <2>r, Shapes DEF Op
  <2>1. CASE \E r \in Requests : Begin(t, r)
    BY <2>1, BeginTypes
  <2>2. CASE LoadToClose(t)
    BY <2>2, LoadTypes, PlacesOfOps DEF LoadToClose, Places
  <2>3. CASE ReadPointer(t)
    <3>1. Op(t) = "close"
      BY <2>3, <2>r, <2>o, PlacesOfOps DEF ReadPointer
    <3> QED
      BY <2>3, <3>1, WalkTypes, RollbackTypes, PlacesOfOps DEF ReadPointer, Places
  <2>4. CASE LoadToReopen(t)
    BY <2>4, LoadTypes, PlacesOfOps DEF LoadToReopen, Places
  <2>5. CASE Update(t)
    <3>1. Op(t) \in {"close", "reopen"} /\ Of(t) \in Periods
      BY <2>5, <2>r, <2>o, PlacesOfOps, Shapes DEF Update, Op, Of
    <3>2. CASE ~Rollback(t)
      <4>1. /\ writer' \in [Periods -> Txs \cup {NoTx}]
            /\ \A p \in Periods : writer'[p] \in {writer[p], t}
        BY <2>5, <3>1, <3>2 DEF Update, TypeOK
      <4>2. \A n \in {"seed", "commit"} : n = "commit" => n \in OpPlaces[Op(t)]
        BY <3>1, PlacesOfOps
      <4> QED
        BY <2>5, <3>2, <4>1, <4>2, LockTypes DEF Update
    <3> QED
      BY <3>2, RollbackTypes
  <2>6. CASE LoadToSelect(t)
    BY <2>6, LoadTypes, PlacesOfOps DEF LoadToSelect, Places
  <2>7. CASE Activate(t)
    <3>1. Op(t) \in {"select", "generate"}
      BY <2>7, <2>r, <2>o, PlacesOfOps DEF Activate
    <3>2. "commit" \in OpPlaces[Op(t)]
      BY <3>1, PlacesOfOps
    <3>3. /\ writer' \in [Periods -> Txs \cup {NoTx}]
          /\ \A p \in Periods : writer'[p] \in {writer[p], t}
      BY <2>7 DEF Activate, TypeOK
    <3> QED
      BY <2>7, <3>2, <3>3, LockTypes DEF Activate
  <2>8. CASE LoadToGenerate(t)
    BY <2>8, LoadTypes, PlacesOfOps DEF LoadToGenerate, Places
  <2>9. CASE Insert(t)
    <3>1. Op(t) = "generate"
      BY <2>9, <2>r, <2>o, PlacesOfOps DEF Insert
    <3>2. CASE ~Rollback(t)
      <4>1. /\ writer' \in [Periods -> Txs \cup {NoTx}]
            /\ \A p \in Periods : writer'[p] \in {writer[p], t}
        BY <2>9, <3>2 DEF Insert, TypeOK
      <4>2. "seed" \in OpPlaces[Op(t)]
        BY <3>1, PlacesOfOps
      <4> QED
        BY <2>9, <3>2, <4>1, <4>2, FiscalConstants, LockTypes DEF Insert, TypeOK
    <3> QED
      BY <3>2, RollbackTypes
  <2>10. CASE Seed(t)
    <3>1. Op(t) = "generate"
      BY <2>10, <2>r, <2>o, PlacesOfOps DEF Seed
    <3> QED
      BY <2>10, <3>1, WalkTypes, PlacesOfOps DEF Seed, Places
  <2>11. CASE Guard(t)
    <3>1. Op(t) = "post" /\ Of(t) \in Periods
      BY <2>11, <2>r, <2>o, PlacesOfOps, Shapes DEF Guard, Op, Of
    <3>2. CASE ~Rollback(t)
      <4>1. "commit" \in OpPlaces[Op(t)]
        BY <3>1, PlacesOfOps
      <4>2. /\ writer' \in [Periods -> Txs \cup {NoTx}]
            /\ \A p \in Periods : writer'[p] \in {writer[p], t}
        BY <2>11, <3>2 DEF Guard, TypeOK
      <4> QED
        BY <2>11, <3>1, <3>2, <4>1, <4>2, LockTypes DEF Guard
    <3> QED
      BY <3>2, RollbackTypes
  <2>12. CASE Commit(t)
    BY <2>12, CommitTypes
  <2>13. CASE Abort(t)
    BY <2>13, RollbackTypes DEF Abort
  <2> QED
    BY <2>1, <2>2, <2>3, <2>4, <2>5, <2>6, <2>7, <2>8, <2>9, <2>10, <2>11, <2>12,
       <2>13 DEF TxStep
<1> QED
  BY <1>1, <1>2

LEMMA TypeInit == Init => TypeOK
<1> SUFFICES ASSUME Init
             PROVE  TypeOK
  OBVIOUS
<1>1. RowTypes
  BY DEF Init, RowTypes, States, Events
<1>2. /\ view \in [Txs -> Views] /\ request \in [Txs -> Requests \cup {Idle}]
      /\ \A t \in Txs : at[t] \in OpPlaces[Op(t)]
  BY NoViewType, PlacesOfOps DEF Init, Op, Idle
<1> QED
  BY <1>1, <1>2, TypesSplit, FiscalConstants DEF Init, TxTypes, Places

\* Every variable keeps its type, and only a running transaction that has come
\* to its writes holds a lock.
THEOREM TypeCorrect == Spec => []TypeOK
BY TypeInit, TypeStep, PTL DEF Spec

-----------------------------------------------------------------------------
(* The steps that write no row.                                            *)

\* Such a step of t leaves the other transactions alone and takes only locks
\* that are free.
Frame(t) ==
  /\ UNCHANGED rows
  /\ \A u \in Txs \ {t} : /\ at'[u] = at[u] /\ request'[u] = request[u]
                          /\ view'[u] = view[u] /\ share'[u] = share[u]
  /\ \A p \in Periods : \/ writer'[p] = writer[p]
                        \/ writer'[p] = NoTx /\ writer[p] = t
                        \/ writer'[p] = t /\ LockFree(t, p)
  /\ pointing' = pointing \/ pointing \in {t, NoTx}

LEMMA OthersKeep ==
  ASSUME Inv, NEW t \in Txs, Frame(t), NEW u \in Txs \ {t}
  PROVE  Parts(u)'
<1>0. Parts(u) /\ u \in Txs /\ u # t
  BY DEF Inv
<1>s. /\ at'[u] = at[u] /\ request'[u] = request[u]
      /\ view'[u] = view[u] /\ share'[u] = share[u]
      /\ state' = state /\ revision' = revision /\ active' = active
      /\ Op(u)' = Op(u) /\ Of(u)' = Of(u)
  BY <1>0 DEF Frame, rows, Op, Of
<1>r. request[u] \in Requests \cup {Idle}
  BY <1>0 DEF Inv, TypeOK
<1>w. \A p \in Periods : writer[p] = u => writer'[p] = u
  BY <1>0, FiscalConstants DEF Frame, LockFree
<1>1. Held(u)'
  <2>1. at[u] = "commit" /\ Transition(u) => Of(u) \in Periods
    BY <1>r, Shapes DEF Transition, Op, Of
  <2> QED
    BY <1>0, <1>s, <1>w, <2>1
    DEF Parts, Held, Transition, Generation, PeriodsOf
<1>2. SharedIsOpen(u)'
  <2>1. share[u] # NoPeriod =>
          share[u] \in Periods /\ writer[share[u]] = NoTx /\ state[share[u]] = "open"
    BY <1>0 DEF Parts, SharedIsOpen, Inv, TypeOK
  <2>2. share[u] # NoPeriod => writer'[share[u]] = NoTx
    BY <1>0, <2>1, FiscalConstants DEF Frame, LockFree
  <2> QED
    BY <1>s, <2>1, <2>2 DEF SharedIsOpen
<1>3. Judged(u)'
  BY <1>0, <1>s DEF Parts, Judged, Transition
<1>4. Pointed(u)'
  BY <1>0, <1>s, FiscalConstants DEF Parts, Pointed, Generation, Frame
<1> QED
  BY <1>1, <1>2, <1>3, <1>4 DEF Parts

LEMMA RowFactsKept ==
  ASSUME RowFacts, UNCHANGED rows
  PROVE  RowFacts'
BY DEF RowFacts, rows, PointerIsDefined, TransitionsMatchEvents, GeneratedOnce,
       FrameHasActivePeriod

\* What remains to show of such a step is what it does for t itself.
LEMMA FrameInv ==
  ASSUME Inv, [Next]_vars, NEW t \in Txs, Frame(t), Parts(t)'
  PROVE  Inv'
<1>1. TypeOK'
  BY TypeStep DEF Inv
<1>2. \A u \in Txs : Parts(u)'
  BY OthersKeep
<1>3. RowFacts'
  BY RowFactsKept DEF Inv, Frame
<1> QED
  BY <1>1, <1>2, <1>3 DEF Inv

\* The end of a transaction, for itself.
LEMMA EndParts ==
  ASSUME TypeOK, NEW t \in Txs, End(t)
  PROVE  Parts(t)'
<1>1. at'[t] = "idle" /\ share'[t] = NoPeriod /\ view'[t] = NoView
  BY DEF End, Goto, TypeOK
<1> QED
  BY <1>1, FiscalConstants
  DEF Parts, Held, SharedIsOpen, Judged, Pointed, NoView

LEMMA RollbackInv ==
  ASSUME Inv, [Next]_vars, NEW t \in Txs, Rollback(t)
  PROVE  Inv'
<1>1. Frame(t)
  BY DEF Rollback, End, Goto, Frame, Inv, TypeOK
<1>2. Parts(t)'
  BY EndParts DEF Rollback, Inv
<1> QED
  BY <1>1, <1>2, FrameInv

LEMMA BeginInv ==
  ASSUME Inv, [Next]_vars, NEW t \in Txs, NEW r \in Requests, Begin(t, r)
  PROVE  Inv'
<1>1. Frame(t)
  BY DEF Begin, Goto, Frame, Inv, TypeOK, locks
<1>2. /\ at'[t] \in {"load", "guard"} /\ share'[t] = NoPeriod
      /\ view'[t] = view[t] /\ active' = active
  BY DEF Begin, Goto, Inv, TypeOK, locks, rows
<1>3. Parts(t)
  BY DEF Inv
<1>4. Parts(t)'
  BY <1>2, <1>3 DEF Parts, Held, SharedIsOpen, Judged, Pointed
<1> QED
  BY <1>1, <1>4, FrameInv

\* A request that goes on after its first SELECT has seen what it wants; it
\* has no lock yet.
LEMMA LoadInv ==
  ASSUME Inv, [Next]_vars, NEW t \in Txs,
         NEW op \in {"close", "reopen", "select", "generate"}, NEW STATE accepted,
         NEW next \in {"pointer", "update", "activate", "insert"},
         Load(t, op, accepted, next), next = "activate" => op = "select",
         accepted /\ op = "close" => state[Of(t)] = "open",
         accepted /\ op = "reopen" => state[Of(t)] = "closed",
         accepted /\ op = "select" => state[Of(t)] = "open"
  PROVE  Inv'
<1>1. CASE accepted
  <2>1. /\ at[t] = "load" /\ Op(t) = op /\ at' = [at EXCEPT ![t] = next]
        /\ view' = [view EXCEPT ![t] = Snapshot]
        /\ UNCHANGED <<rows, request, locks>>
    BY <1>1 DEF Load, Goto
  <2>2. Frame(t)
    BY <2>1 DEF Frame, Inv, TypeOK, locks
  <2>3. /\ at'[t] = next /\ view'[t] = Snapshot /\ request' = request
        /\ Op(t)' = op /\ Of(t)' = Of(t) /\ share'[t] = NoPeriod
        /\ state' = state /\ revision' = revision /\ active' = active
    BY <2>1 DEF Inv, TypeOK, locks, rows, Op, Of
  <2>4. Held(t)' /\ SharedIsOpen(t)'
    BY <2>3 DEF Held, SharedIsOpen, Generation
  <2>5. op \in {"close", "reopen"} => Of(t) \in Periods /\ revision[Of(t)] \in Nat
    <3>1. request[t] \in Requests \cup {Idle}
      BY DEF Inv, TypeOK
    <3> QED
      BY <2>1, <3>1, Shapes DEF Op, Of, Inv, TypeOK
  <2>6. Judged(t)'
    BY <1>1, <2>3, <2>5 DEF Judged, Transition, Snapshot
  <2>7. Pointed(t)'
    BY <1>1, <2>3 DEF Pointed, Snapshot
  <2> QED
    BY <2>2, <2>4, <2>6, <2>7, FrameInv DEF Parts
<1>2. CASE ~accepted
  BY <1>2, RollbackInv DEF Load
<1> QED
  BY <1>1, <1>2

LEMMA ReadPointerInv ==
  ASSUME Inv, [Next]_vars, NEW t \in Txs, ReadPointer(t)
  PROVE  Inv'
<1>1. CASE ~Rollback(t)
  <2>1. /\ at[t] = "pointer" /\ at' = [at EXCEPT ![t] = "update"]
        /\ UNCHANGED <<rows, request, view, locks>>
    BY <1>1 DEF ReadPointer, Goto
  <2>2. Frame(t)
    BY <2>1 DEF Frame, Inv, TypeOK, locks
  <2>3. /\ at'[t] = "update" /\ Op(t)' = Op(t) /\ Of(t)' = Of(t)
        /\ state' = state /\ revision' = revision /\ active' = active
        /\ view' = view /\ share'[t] = NoPeriod
    BY <2>1 DEF Inv, TypeOK, locks, rows, Op, Of
  <2>4. Parts(t) /\ at[t] = "pointer"
    BY <2>1 DEF Inv
  <2>5. Held(t)' /\ SharedIsOpen(t)' /\ Pointed(t)'
    BY <2>3, <2>4 DEF Parts, Held, SharedIsOpen, Pointed
  <2>6. Judged(t)'
    BY <2>3, <2>4 DEF Parts, Judged, Transition
  <2> QED
    BY <2>2, <2>5, <2>6, FrameInv DEF Parts
<1> QED
  BY <1>1, RollbackInv

\* The conditional write locks the row it has seen, as it has seen it.
LEMMA UpdateInv ==
  ASSUME Inv, [Next]_vars, NEW t \in Txs, Update(t)
  PROVE  Inv'
<1>1. CASE ~Rollback(t)
  <2>1. /\ at[t] = "update" /\ LockFree(t, Of(t)) /\ at' = [at EXCEPT ![t] = "commit"]
        /\ revision[Of(t)] = view[t].revision[Of(t)]
        /\ writer' = [writer EXCEPT ![Of(t)] = t]
        /\ UNCHANGED <<rows, request, view, pointing, share>>
    BY <1>1 DEF Update, Goto
  <2>2. Op(t) \in {"close", "reopen"} /\ Of(t) \in Periods
    <3>1. request[t] \in Requests \cup {Idle} /\ at[t] \in OpPlaces[Op(t)]
      BY DEF Inv, TypeOK
    <3>2. Op(t) \in {"idle", "close", "reopen", "select", "generate", "post"}
      BY <3>1, Shapes DEF Op
    <3> QED
      BY <2>1, <3>1, <3>2, PlacesOfOps, Shapes DEF Op, Of
  <2>3. Frame(t)
    BY <2>1, <2>2 DEF Frame, Inv, TypeOK
  <2>4. /\ at'[t] = "commit" /\ Op(t)' = Op(t) /\ Of(t)' = Of(t)
        /\ state' = state /\ revision' = revision /\ active' = active
        /\ view' = view /\ share'[t] = NoPeriod /\ writer'[Of(t)] = t
    BY <2>1, <2>2 DEF Inv, TypeOK, rows, Op, Of
  <2>5. Parts(t)
    BY DEF Inv
  <2>6. Held(t)' /\ SharedIsOpen(t)' /\ Pointed(t)'
    BY <2>2, <2>4, <2>5
    DEF Parts, Held, SharedIsOpen, Pointed, Transition, Generation
  <2>7. Judged(t)'
    BY <2>1, <2>2, <2>4, <2>5 DEF Parts, Judged, Transition
  <2> QED
    BY <2>3, <2>6, <2>7, FrameInv DEF Parts
<1> QED
  BY <1>1, RollbackInv

LEMMA ActivateInv ==
  ASSUME Inv, [Next]_vars, NEW t \in Txs, Activate(t)
  PROVE  Inv'
<1>1. /\ at[t] = "activate" /\ pointing = NoTx /\ pointing' = t
      /\ at' = [at EXCEPT ![t] = "commit"]
      /\ UNCHANGED <<rows, request, view, writer, share>>
  BY DEF Activate, Goto
<1>2. Op(t) \in {"select", "generate"}
  <2>1. request[t] \in Requests \cup {Idle} /\ at[t] \in OpPlaces[Op(t)]
    BY DEF Inv, TypeOK
  <2>2. Op(t) \in {"idle", "close", "reopen", "select", "generate", "post"}
    BY <2>1, Shapes DEF Op
  <2> QED
    BY <1>1, <2>1, <2>2, PlacesOfOps
<1>3. Frame(t)
  BY <1>1 DEF Frame, Inv, TypeOK
<1>4. /\ at'[t] = "commit" /\ request' = request /\ Op(t)' = Op(t) /\ Of(t)' = Of(t)
      /\ state' = state /\ active' = active /\ writer' = writer
      /\ view' = view /\ share'[t] = NoPeriod
  BY <1>1 DEF Inv, TypeOK, rows, Op, Of
<1>5. Parts(t)
  BY DEF Inv
<1>6. Held(t)' /\ SharedIsOpen(t)' /\ Judged(t)'
  BY <1>1, <1>2, <1>4, <1>5
  DEF Parts, Held, SharedIsOpen, Judged, Transition, Generation, PeriodsOf
<1>7. Pointed(t)'
  BY <1>1, <1>2, <1>4, <1>5 DEF Parts, Pointed, Generation
<1> QED
  BY <1>3, <1>6, <1>7, FrameInv DEF Parts

LEMMA InsertInv ==
  ASSUME Inv, [Next]_vars, NEW t \in Txs, Insert(t)
  PROVE  Inv'
<1>1. CASE ~Rollback(t)
  <2> PICK new : new = PeriodsOf(request[t].year)
    OBVIOUS
  <2>1. /\ at[t] = "insert" /\ at' = [at EXCEPT ![t] = "seed"]
        /\ \A p \in new : LockFree(t, p) /\ state[p] = "none"
        /\ writer' = [p \in Periods |-> IF p \in new THEN t ELSE writer[p]]
        /\ UNCHANGED <<rows, request, view, pointing, share>>
    BY <1>1 DEF Insert, Goto
  <2>2. Frame(t)
    BY <2>1 DEF Frame, Inv, TypeOK
  <2>3. /\ at'[t] = "seed" /\ request' = request /\ state' = state
        /\ active' = active /\ view' = view /\ share'[t] = NoPeriod
    BY <2>1 DEF Inv, TypeOK, rows
  <2>4. Parts(t)
    BY DEF Inv
  <2>5. Held(t)'
    BY <2>1, <2>3 DEF Held, PeriodsOf
  <2>6. SharedIsOpen(t)' /\ Judged(t)' /\ Pointed(t)'
    BY <2>3, <2>4 DEF Parts, SharedIsOpen, Judged, Pointed
  <2> QED
    BY <2>2, <2>5, <2>6, FrameInv DEF Parts
<1> QED
  BY <1>1, RollbackInv

LEMMA SeedInv ==
  ASSUME Inv, [Next]_vars, NEW t \in Txs, Seed(t)
  PROVE  Inv'
<1> PICK next \in {"activate", "commit"} :
      next = IF view[t].active = NoPeriod THEN "activate" ELSE "commit"
  OBVIOUS
<1>1. /\ at[t] = "seed" /\ at' = [at EXCEPT ![t] = next]
      /\ UNCHANGED <<rows, request, view, locks>>
  BY DEF Seed, Goto
<1>2. Op(t) = "generate"
  <2>1. request[t] \in Requests \cup {Idle} /\ at[t] \in OpPlaces[Op(t)]
    BY DEF Inv, TypeOK
  <2>2. Op(t) \in {"idle", "close", "reopen", "select", "generate", "post"}
    BY <2>1, Shapes DEF Op
  <2> QED
    BY <1>1, <2>1, <2>2, PlacesOfOps
<1>3. Frame(t)
  BY <1>1 DEF Frame, Inv, TypeOK, locks
<1>4. /\ at'[t] = next /\ request' = request /\ Op(t)' = "generate"
      /\ state' = state /\ active' = active /\ writer' = writer
      /\ view' = view /\ share'[t] = NoPeriod
  BY <1>1, <1>2 DEF Inv, TypeOK, rows, locks, Op
<1>5. Parts(t)
  BY DEF Inv
<1>6. Held(t)' /\ SharedIsOpen(t)' /\ Judged(t)'
  BY <1>1, <1>2, <1>4, <1>5
  DEF Parts, Held, SharedIsOpen, Judged, Transition, Generation, PeriodsOf
<1>7. Pointed(t)'
  BY <1>1, <1>2, <1>4, <1>5 DEF Parts, Pointed, Generation
<1> QED
  BY <1>3, <1>6, <1>7, FrameInv DEF Parts

LEMMA GuardInv ==
  ASSUME Inv, [Next]_vars, NEW t \in Txs, Guard(t)
  PROVE  Inv'
<1>1. CASE ~Rollback(t)
  <2>1. /\ at[t] = "guard" /\ at' = [at EXCEPT ![t] = "commit"]
        /\ writer[Of(t)] = NoTx /\ state[Of(t)] = "open"
        /\ share' = [share EXCEPT ![t] = Of(t)]
        /\ UNCHANGED <<rows, request, view, writer, pointing>>
    BY <1>1 DEF Guard, Goto
  <2>2. Op(t) = "post"
    <3>1. request[t] \in Requests \cup {Idle} /\ at[t] \in OpPlaces[Op(t)]
      BY DEF Inv, TypeOK
    <3>2. Op(t) \in {"idle", "close", "reopen", "select", "generate", "post"}
      BY <3>1, Shapes DEF Op
    <3> QED
      BY <2>1, <3>1, <3>2, PlacesOfOps
  <2>3. Frame(t)
    BY <2>1 DEF Frame, Inv, TypeOK
  <2>4. /\ at'[t] = "commit" /\ Op(t)' = "post" /\ Of(t)' = Of(t)
        /\ state' = state /\ active' = active /\ writer' = writer
        /\ view' = view /\ share'[t] = Of(t)
    BY <2>1, <2>2 DEF Inv, TypeOK, rows, Op, Of
  <2>5. Parts(t)
    BY DEF Inv
  <2>6. Held(t)' /\ SharedIsOpen(t)' /\ Judged(t)' /\ Pointed(t)'
    BY <2>1, <2>4, <2>5
    DEF Parts, Held, SharedIsOpen, Judged, Pointed, Transition, Generation
  <2> QED
    BY <2>3, <2>6, FrameInv DEF Parts
<1> QED
  BY <1>1, RollbackInv

-----------------------------------------------------------------------------
(* The commits.                                                            *)

\* What a commit does to the transactions that go on.
LEMMA EndOthers ==
  ASSUME TypeOK, NEW t \in Txs, End(t), NEW u \in Txs \ {t}
  PROVE  /\ at'[u] = at[u] /\ view'[u] = view[u] /\ share'[u] = share[u]
         /\ request'[u] = request[u] /\ Op(u)' = Op(u) /\ Of(u)' = Of(u)
         /\ \A p \in Periods :
              /\ writer[p] = u => writer'[p] = u
              /\ writer[p] = NoTx => writer'[p] = NoTx
         /\ pointing = u => pointing' = u
BY FiscalConstants DEF TypeOK, End, Goto, Op, Of

\* It keeps what they rely on, if it moves only rows it has locked, raises the
\* revision of what it moves, and never removes a row or the pointer.
LEMMA CommitOthers ==
  ASSUME Inv, NEW t \in Txs, End(t), NEW u \in Txs \ {t},
         state' \in [Periods -> States], revision' \in [Periods -> Nat],
         \A p \in Periods :
           \/ state'[p] = state[p] /\ revision'[p] = revision[p]
           \/ /\ writer[p] = t
              /\ state[p] # "none" => revision'[p] > revision[p]
              /\ state'[p] # "none",
         active # NoPeriod => active' # NoPeriod
  PROVE  Parts(u)'
<1>0. Parts(u) /\ u \in Txs /\ u # t
  BY DEF Inv
<1>1. /\ at'[u] = at[u] /\ view'[u] = view[u] /\ share'[u] = share[u]
      /\ request'[u] = request[u] /\ Op(u)' = Op(u) /\ Of(u)' = Of(u)
      /\ \A p \in Periods :
           /\ writer[p] = u => writer'[p] = u
           /\ writer[p] = NoTx => writer'[p] = NoTx
      /\ pointing = u => pointing' = u
  BY EndOthers DEF Inv
<1>2. Transition(u) \/ Op(u) = "select" => Of(u) \in Periods
  <2>1. request[u] \in Requests \cup {Idle}
    BY DEF Inv, TypeOK
  <2> QED
    BY <2>1, Shapes DEF Transition, Op, Of
<1>3. Held(u)'
  BY <1>0, <1>1, <1>2 DEF Parts, Held, Transition, Generation, PeriodsOf
<1>4. SharedIsOpen(u)'
  <2>1. share[u] # NoPeriod => share[u] \in Periods
    BY <1>0 DEF Inv, TypeOK
  <2> QED
    BY <1>0, <1>1, <2>1, FiscalConstants DEF Parts, SharedIsOpen
<1>5. Judged(u)'
  <2> SUFFICES ASSUME at[u] \in {"pointer", "update", "commit"}, Transition(u)
               PROVE  Judged(u)'
    BY <1>1 DEF Judged, Transition
  <2> PICK p \in Periods : p = Of(u)
    BY <1>2
  <2>1. /\ view[u].state[p] = IF Op(u) = "close" THEN "open" ELSE "closed"
        /\ state[p] # "none"
        /\ view[u].revision[p] <= revision[p]
        /\ view[u].revision[p] = revision[p] => state[p] = view[u].state[p]
        /\ at[u] = "commit" => view[u].revision[p] = revision[p] /\ writer[p] = u
    BY <1>0 DEF Parts, Judged, Held
  <2>2. /\ revision[p] \in Nat /\ revision'[p] \in Nat
        /\ view[u].revision[p] \in Nat
    BY <1>0 DEF Inv, TypeOK, Views
  <2>3. CASE state'[p] = state[p] /\ revision'[p] = revision[p]
    BY <1>1, <2>1, <2>3 DEF Judged, Transition
  <2>4. CASE writer[p] = t /\ revision'[p] > revision[p] /\ state'[p] # "none"
    <3>1. view[u].revision[p] < revision'[p]
      BY <2>1, <2>2, <2>4
    <3> QED
      BY <1>0, <1>1, <2>1, <2>2, <2>4, <3>1 DEF Judged, Transition
  <2> QED
    BY <2>1, <2>3, <2>4
<1>6. Pointed(u)'
  BY <1>0, <1>1, <1>2 DEF Parts, Pointed, Generation
<1> QED
  BY <1>3, <1>4, <1>5, <1>6 DEF Parts

LEMMA CommitInv ==
  ASSUME Inv, [Next]_vars, NEW t \in Txs, Commit(t),
         \A p \in Periods :
           \/ state'[p] = state[p] /\ revision'[p] = revision[p]
           \/ /\ writer[p] = t
              /\ state[p] # "none" => revision'[p] > revision[p]
              /\ state'[p] # "none",
         active # NoPeriod => active' # NoPeriod,
         RowFacts'
  PROVE  Inv'
<1>1. TypeOK'
  BY TypeStep DEF Inv
<1>2. Parts(t)'
  BY EndParts DEF Commit, Inv
<1>3. \A u \in Txs \ {t} : Parts(u)'
  <2>1. state' \in [Periods -> States] /\ revision' \in [Periods -> Nat]
    BY <1>1 DEF TypeOK
  <2> QED
    BY <2>1, CommitOthers DEF Commit
<1> QED
  BY <1>1, <1>2, <1>3 DEF Inv

\* A close commits on the open period it has seen.
LEMMA CloseInv ==
  ASSUME Inv, [Next]_vars, NEW t \in Txs, Commit(t), Op(t) = "close", CommitClose(t)
  PROVE  Inv'
<1> PICK p \in Periods : p = Of(t)
  <2>1. request[t] \in Requests \cup {Idle}
    BY DEF Inv, TypeOK
  <2> QED
    BY <2>1, Shapes DEF Op, Of
<1>1. /\ writer[p] = t /\ state[p] = "open"
      /\ view[t].revision[p] = revision[p] /\ revision[p] \in Nat
  BY DEF Inv, Parts, Held, Judged, Transition, Commit, TypeOK
<1>2. /\ state' = [state EXCEPT ![p] = "closed"]
      /\ revision' = [revision EXCEPT ![p] = revision[p] + 1]
      /\ events' = [events EXCEPT !.closed[p] = @ + 1]
      /\ active' = active
  BY <1>1 DEF CommitClose
<1>t. /\ state \in [Periods -> States] /\ revision \in [Periods -> Nat]
      /\ events.closed \in [Periods -> Nat] /\ events.reopened \in [Periods -> Nat]
      /\ events'.reopened = events.reopened /\ events'.generated = events.generated
      /\ events'.closed = [events.closed EXCEPT ![p] = @ + 1]
  BY <1>2 DEF Inv, TypeOK, Events
<1>3. \A q \in Periods : (state'[q] = "none") = (state[q] = "none")
  BY <1>1, <1>2, <1>t
<1>4. PointerIsDefined' /\ FrameHasActivePeriod' /\ GeneratedOnce'
  <2>1. active \in Periods \cup {NoPeriod}
    BY DEF Inv, TypeOK
  <2> QED
    BY <1>2, <1>3, <1>t, <2>1
    DEF Inv, RowFacts, PointerIsDefined, FrameHasActivePeriod, GeneratedOnce, PeriodsOf
<1>5. TransitionsMatchEvents'
  BY <1>1, <1>2, <1>t DEF Inv, RowFacts, TransitionsMatchEvents
<1>6. \A q \in Periods :
        \/ state'[q] = state[q] /\ revision'[q] = revision[q]
        \/ writer[q] = t /\ revision'[q] > revision[q] /\ state'[q] # "none"
  BY <1>1, <1>2, <1>t
<1> QED
  BY <1>2, <1>4, <1>5, <1>6, CommitInv DEF RowFacts

LEMMA ReopenInv ==
  ASSUME Inv, [Next]_vars, NEW t \in Txs, Commit(t), Op(t) = "reopen", CommitReopen(t)
  PROVE  Inv'
<1> PICK p \in Periods : p = Of(t)
  <2>1. request[t] \in Requests \cup {Idle}
    BY DEF Inv, TypeOK
  <2> QED
    BY <2>1, Shapes DEF Op, Of
<1>1. /\ writer[p] = t /\ state[p] = "closed"
      /\ view[t].revision[p] = revision[p] /\ revision[p] \in Nat
  BY DEF Inv, Parts, Held, Judged, Transition, Commit, TypeOK
<1>2. /\ state' = [state EXCEPT ![p] = "open"]
      /\ revision' = [revision EXCEPT ![p] = revision[p] + 1]
      /\ events' = [events EXCEPT !.reopened[p] = @ + 1]
      /\ active' = active
  BY <1>1 DEF CommitReopen
<1>t. /\ state \in [Periods -> States] /\ revision \in [Periods -> Nat]
      /\ events.closed \in [Periods -> Nat] /\ events.reopened \in [Periods -> Nat]
      /\ events'.closed = events.closed /\ events'.generated = events.generated
      /\ events'.reopened = [events.reopened EXCEPT ![p] = @ + 1]
  BY <1>2 DEF Inv, TypeOK, Events
<1>3. \A q \in Periods : (state'[q] = "none") = (state[q] = "none")
  BY <1>1, <1>2, <1>t
<1>4. PointerIsDefined' /\ FrameHasActivePeriod' /\ GeneratedOnce'
  <2>1. active \in Periods \cup {NoPeriod}
    BY DEF Inv, TypeOK
  <2> QED
    BY <1>2, <1>3, <1>t, <2>1
    DEF Inv, RowFacts, PointerIsDefined, FrameHasActivePeriod, GeneratedOnce, PeriodsOf
<1>5. TransitionsMatchEvents'
  <2>1. /\ events.closed[p] = events.reopened[p] + 1
        /\ revision[p] = 1 + events.closed[p] + events.reopened[p]
    BY <1>1, <1>t DEF Inv, RowFacts, TransitionsMatchEvents
  <2>2. /\ state'[p] = "open" /\ revision'[p] = revision[p] + 1
        /\ events'.closed[p] = events.closed[p]
        /\ events'.reopened[p] = events.reopened[p] + 1
    BY <1>2, <1>t
  <2>3. /\ events.closed[p] \in Nat /\ events.reopened[p] \in Nat
        /\ events'.closed[p] = events'.reopened[p]
        /\ revision'[p] = 1 + events'.closed[p] + events'.reopened[p]
    BY <1>1, <1>t, <2>1, <2>2
  <2>4. \A q \in Periods \ {p} :
          /\ state'[q] = state[q] /\ revision'[q] = revision[q]
          /\ events'.closed[q] = events.closed[q]
          /\ events'.reopened[q] = events.reopened[q]
    BY <1>2, <1>t
  <2> QED
    BY <2>2, <2>3, <2>4 DEF Inv, RowFacts, TransitionsMatchEvents
<1>6. \A q \in Periods :
        \/ state'[q] = state[q] /\ revision'[q] = revision[q]
        \/ writer[q] = t /\ revision'[q] > revision[q] /\ state'[q] # "none"
  BY <1>1, <1>2, <1>t
<1> QED
  BY <1>2, <1>4, <1>5, <1>6, CommitInv DEF RowFacts

LEMMA SelectInv ==
  ASSUME Inv, [Next]_vars, NEW t \in Txs, Commit(t), Op(t) = "select", CommitSelect(t)
  PROVE  Inv'
<1>1. Of(t) \in Periods
  <2>1. request[t] \in Requests \cup {Idle}
    BY DEF Inv, TypeOK
  <2> QED
    BY <2>1, Shapes DEF Op, Of
<1>2. state[Of(t)] # "none"
  BY DEF Inv, Parts, Pointed, Commit
<1>3. RowFacts'
  BY <1>1, <1>2, FiscalConstants
  DEF CommitSelect, Inv, RowFacts, PointerIsDefined, TransitionsMatchEvents,
      GeneratedOnce, FrameHasActivePeriod
<1> QED
  BY <1>1, <1>3, FiscalConstants, CommitInv DEF CommitSelect

\* A generation commits rows that no one has generated.
LEMMA GenerateInv ==
  ASSUME Inv, [Next]_vars, NEW t \in Txs, Commit(t), Op(t) = "generate",
         CommitGenerate(t)
  PROVE  Inv'
<1> PICK y \in Years : y = request[t].year
  <2>1. request[t] \in Requests \cup {Idle}
    BY DEF Inv, TypeOK
  <2> QED
    BY <2>1, Shapes DEF Op
<1>1. \A p \in PeriodsOf(y) : writer[p] = t /\ state[p] = "none"
  BY DEF Inv, Parts, Held, Generation, Commit
<1>2. /\ state' = [p \in Periods |-> IF YearOf[p] = y THEN "open" ELSE state[p]]
      /\ revision' = [p \in Periods |-> IF YearOf[p] = y THEN 1 ELSE revision[p]]
      /\ active' = IF pointing = t THEN FirstOf[y] ELSE active
      /\ events' = [events EXCEPT !.generated[y] = @ + 1]
  BY DEF CommitGenerate
<1>t. /\ state \in [Periods -> States] /\ revision \in [Periods -> Nat]
      /\ events.closed \in [Periods -> Nat] /\ events.reopened \in [Periods -> Nat]
      /\ events.generated \in [Years -> Nat]
      /\ events'.closed = events.closed /\ events'.reopened = events.reopened
      /\ events'.generated = [events.generated EXCEPT ![y] = @ + 1]
  BY <1>2 DEF Inv, TypeOK, Events
<1>f. FirstOf[y] \in Periods /\ FirstOf[y] \in PeriodsOf(y)
  BY FiscalConstants DEF PeriodsOf
<1>3. TransitionsMatchEvents'
  BY <1>1, <1>2, <1>t DEF Inv, RowFacts, TransitionsMatchEvents, PeriodsOf
<1>4. GeneratedOnce'
  <2>1. events.generated[y] = 0
    <3>1. events.generated[y] <= 1 /\ events.generated[y] # 1
      BY <1>1, <1>f DEF Inv, RowFacts, GeneratedOnce
    <3> QED
      BY <3>1, <1>t
  <2>2. events'.generated[y] = 1
    BY <1>t, <2>1
  <2>3. \A z \in Years \ {y} : events'.generated[z] = events.generated[z]
    BY <1>t
  <2> QED
    BY <1>2, <1>t, <2>2, <2>3 DEF Inv, RowFacts, GeneratedOnce, PeriodsOf
<1>5. active' # NoPeriod /\ PointerIsDefined' /\ FrameHasActivePeriod'
  <2>1. CASE pointing = t
    BY <1>2, <1>f, <2>1, FiscalConstants
    DEF PointerIsDefined, FrameHasActivePeriod, PeriodsOf
  <2>2. CASE pointing # t
    <3>1. active # NoPeriod /\ active \in Periods
      BY <2>2 DEF Inv, Parts, Pointed, Generation, Commit, TypeOK
    <3> QED
      BY <1>2, <1>t, <2>2, <3>1
      DEF Inv, RowFacts, PointerIsDefined, FrameHasActivePeriod
  <2> QED
    BY <2>1, <2>2
<1>6. \A q \in Periods :
        \/ state'[q] = state[q] /\ revision'[q] = revision[q]
        \/ /\ writer[q] = t
           /\ state[q] # "none" => revision'[q] > revision[q]
           /\ state'[q] # "none"
  BY <1>1, <1>2 DEF PeriodsOf
<1> QED
  BY <1>3, <1>4, <1>5, <1>6, CommitInv DEF RowFacts

LEMMA PostInv ==
  ASSUME Inv, [Next]_vars, NEW t \in Txs, Commit(t), Op(t) = "post", CommitPosting(t)
  PROVE  Inv'
<1>1. RowFacts'
  BY DEF CommitPosting, Inv, RowFacts, PointerIsDefined, TransitionsMatchEvents,
         GeneratedOnce, FrameHasActivePeriod
<1> QED
  BY <1>1, CommitInv DEF CommitPosting

-----------------------------------------------------------------------------

LEMMA InvInit == Init => Inv
<1> SUFFICES ASSUME Init
             PROVE  Inv
  OBVIOUS
<1>1. TypeOK
  BY TypeInit
<1>2. \A t \in Txs : Parts(t)
  BY DEF Init, Parts, Held, SharedIsOpen, Judged, Pointed, NoView
<1>3. RowFacts
  BY DEF Init, RowFacts, PointerIsDefined, TransitionsMatchEvents, GeneratedOnce,
         FrameHasActivePeriod, PeriodsOf
<1> QED
  BY <1>1, <1>2, <1>3 DEF Inv

LEMMA InvStep == Inv /\ [Next]_vars => Inv'
<1> SUFFICES ASSUME Inv, [Next]_vars
             PROVE  Inv'
  OBVIOUS
<1>1. CASE UNCHANGED vars
  <2>1. TypeOK'
    BY TypeStep DEF Inv
  <2>2. RowFacts'
    BY <1>1, RowFactsKept DEF Inv, vars
  <2>3. \A t \in Txs : Parts(t)'
    BY <1>1 DEF Inv, vars, rows, locks, Parts, Held, SharedIsOpen, Judged, Pointed,
                Transition, Generation, Op, Of
  <2> QED
    BY <2>1, <2>2, <2>3 DEF Inv
<1>2. CASE Next
  <2> PICK t \in Txs : (\E r \in Requests : Begin(t, r)) \/ TxStep(t) \/ Abort(t)
    BY <1>2 DEF Next
  <2>1. CASE \E r \in Requests : Begin(t, r)
    BY <2>1, BeginInv
  <2>2. CASE LoadToClose(t) \/ LoadToReopen(t) \/ LoadToSelect(t) \/ LoadToGenerate(t)
    BY <2>2, LoadInv DEF LoadToClose, LoadToReopen, LoadToSelect, LoadToGenerate
  <2>3. CASE ReadPointer(t)
    BY <2>3, ReadPointerInv
  <2>4. CASE Update(t)
    BY <2>4, UpdateInv
  <2>5. CASE Activate(t)
    BY <2>5, ActivateInv
  <2>6. CASE Insert(t)
    BY <2>6, InsertInv
  <2>7. CASE Seed(t)
    BY <2>7, SeedInv
  <2>8. CASE Guard(t)
    BY <2>8, GuardInv
  <2>9. CASE Commit(t)
    BY <2>9, CloseInv, ReopenInv, SelectInv, GenerateInv, PostInv DEF Commit
  <2>10. CASE Abort(t)
    BY <2>10, RollbackInv DEF Abort
  <2> QED
    BY <2>1, <2>2, <2>3, <2>4, <2>5, <2>6, <2>7, <2>8, <2>9, <2>10 DEF TxStep
<1> QED
  BY <1>1, <1>2

\* The inductive invariant holds in every reachable state.
THEOREM Invariance == Spec => []Inv
BY InvInit, InvStep, PTL DEF Spec

\* Two concurrent transitions of a period never both succeed on the same
\* state: every close and every reopen that committed has its event and its
\* revision.
THEOREM TransitionsAreRecorded == Spec => []TransitionsMatchEvents
<1>1. Inv => TransitionsMatchEvents
  BY DEF Inv, RowFacts
<1> QED
  BY <1>1, Invariance, PTL

\* The periods of a year are generated once, all of them or none.
THEOREM GenerationIsIdempotent == Spec => []GeneratedOnce
<1>1. Inv => GeneratedOnce
  BY DEF Inv, RowFacts
<1> QED
  BY <1>1, Invariance, PTL

\* From the moment a period exists, an existing period is the active one.
THEOREM PointerIsSeeded == Spec => []FrameHasActivePeriod
<1>1. Inv => FrameHasActivePeriod
  BY DEF Inv, RowFacts
<1> QED
  BY <1>1, Invariance, PTL

\* No posting is ever committed into a period that is not open, whatever the
\* closes that run beside it.
THEOREM PostingsRespectPeriods == Spec => ClosedPeriodsAreFrozen
<1>1. ASSUME Inv, [Next]_vars
      PROVE  [\A p \in Periods : state[p] # "open" => postings'[p] = postings[p]]_vars
  <2>1. CASE UNCHANGED postings
    BY <2>1
  <2>2. CASE \E t \in Txs : Commit(t) /\ Op(t) = "post" /\ CommitPosting(t)
    <3> PICK t \in Txs : Commit(t) /\ Op(t) = "post" /\ CommitPosting(t)
      BY <2>2
    <3>1. Of(t) \in Periods
      <4>1. request[t] \in Requests \cup {Idle}
        BY <1>1 DEF Inv, TypeOK
      <4> QED
        BY <4>1, Shapes DEF Op, Of
    <3>2. share[t] = Of(t) /\ state[Of(t)] = "open"
      BY <1>1, <3>1, FiscalConstants DEF Inv, Parts, Held, SharedIsOpen, Commit
    <3> QED
      BY <1>1, <3>1, <3>2 DEF CommitPosting, Inv, TypeOK
  <2>3. UNCHANGED postings \/ \E t \in Txs : Commit(t) /\ Op(t) = "post" /\ CommitPosting(t)
    BY <1>1
    DEF Next, TxStep, Begin, LoadToClose, LoadToReopen, LoadToSelect, LoadToGenerate,
        Load, ReadPointer, Update, Activate, Insert, Seed, Guard, Abort, Rollback,
        Commit, CommitClose, CommitReopen, CommitSelect, CommitGenerate, rows, vars
  <2> QED
    BY <2>1, <2>2, <2>3
<1> QED
  BY <1>1, Invariance, PTL DEF Spec, ClosedPeriodsAreFrozen

-----------------------------------------------------------------------------
(* The register.                                                           *)

\* Only a commit changes the rows.
LEMMA RowsOrCommit ==
  ASSUME [Next]_vars
  PROVE  UNCHANGED rows \/ \E t \in Txs : Commit(t)
BY DEF Next, TxStep, Begin, LoadToClose, LoadToReopen, LoadToSelect, LoadToGenerate,
       Load, ReadPointer, Update, Activate, Insert, Seed, Guard, Abort, Rollback,
       rows, vars

LEMMA CommitIsAtomic ==
  ASSUME Inv, NEW t \in Txs, Commit(t)
  PROVE  Register!Next
<1>r. request[t] \in Requests \cup {Idle} /\ at[t] = "commit" /\ Parts(t)
  BY DEF Inv, TypeOK, Commit
<1>p. Op(t) \in {"close", "reopen", "select", "post"} => Of(t) \in Periods
  BY <1>r, Shapes DEF Op, Of
<1>1. CASE Op(t) = "close" /\ CommitClose(t)
  <2>1. state[Of(t)] = "open"
    BY <1>1, <1>r DEF Parts, Judged, Transition
  <2>2. Register!Close(Of(t))
    BY <1>1, <2>1 DEF CommitClose, Register!Close
  <2> QED
    BY <1>1, <1>p, <2>2 DEF Register!Next
<1>2. CASE Op(t) = "reopen" /\ CommitReopen(t)
  <2>1. state[Of(t)] = "closed"
    BY <1>2, <1>r DEF Parts, Judged, Transition
  <2>2. Register!Reopen(Of(t))
    BY <1>2, <2>1 DEF CommitReopen, Register!Reopen
  <2> QED
    BY <1>2, <1>p, <2>2 DEF Register!Next
<1>3. CASE Op(t) = "select" /\ CommitSelect(t)
  <2>1. state[Of(t)] # "none"
    BY <1>3, <1>r DEF Parts, Pointed
  <2>2. Register!Select(Of(t))
    BY <1>3, <2>1 DEF CommitSelect, Register!Select
  <2> QED
    BY <1>3, <1>p, <2>2 DEF Register!Next
<1>4. CASE Op(t) = "generate" /\ CommitGenerate(t)
  <2> DEFINE y == request[t].year
  <2>1. y \in Years
    BY <1>4, <1>r, Shapes DEF Op
  <2>2. \A p \in Periods : YearOf[p] = y => state[p] = "none"
    BY <1>4, <1>r DEF Parts, Held, Generation, PeriodsOf
  <2>3. active' \in {active, FirstOf[y]} \ {NoPeriod}
    <3>1. pointing = t \/ active # NoPeriod
      BY <1>4, <1>r DEF Parts, Pointed, Generation
    <3>2. FirstOf[y] # NoPeriod
      BY <2>1, FiscalConstants
    <3> QED
      BY <1>4, <3>1, <3>2 DEF CommitGenerate
  <2>4. Register!Generate(y)
    BY <1>4, <2>2, <2>3 DEF CommitGenerate, Register!Generate
  <2> QED
    BY <2>1, <2>4 DEF Register!Next
<1>5. CASE Op(t) = "post" /\ CommitPosting(t)
  <2>1. share[t] = Of(t) /\ Of(t) # NoPeriod /\ state[Of(t)] = "open"
    BY <1>5, <1>p, <1>r, FiscalConstants DEF Parts, Held, SharedIsOpen
  <2>2. Register!Post(Of(t))
    BY <1>5, <2>1 DEF CommitPosting, Register!Post
  <2> QED
    BY <1>5, <1>p, <2>2 DEF Register!Next
<1> QED
  BY <1>1, <1>2, <1>3, <1>4, <1>5 DEF Commit

\* However transactions overlap, wait, fail and decide on old snapshots, the
\* committed rows and events are those of a register whose operations are
\* atomic: the periods implement FiscalRegister.
THEOREM RequestsActAtOnce == Spec => RegisterSpec
<1>1. Init => Register!Init
  BY DEF Init, Register!Init
<1>2. Inv /\ [Next]_vars => [Register!Next]_Register!register
  <2> SUFFICES ASSUME Inv, [Next]_vars
               PROVE  [Register!Next]_Register!register
    OBVIOUS
  <2>1. CASE UNCHANGED rows
    BY <2>1 DEF rows, Register!register
  <2>2. CASE \E t \in Txs : Commit(t)
    BY <2>2, CommitIsAtomic
  <2> QED
    BY <2>1, <2>2, RowsOrCommit
<1> QED
  BY <1>1, <1>2, Invariance, PTL DEF Spec, RegisterSpec, Register!Spec

=============================================================================

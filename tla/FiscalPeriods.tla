--------------------------- MODULE FiscalPeriods ---------------------------
(***************************************************************************)
(* The fiscal periods of one company: generation of a year's periods, the  *)
(* pointer to the active period, closing, reopening, and postings guarded  *)
(* by DefaultPeriodGuard.assertPostable.  Every request runs in one        *)
(* transaction of MySQL at its default isolation level, REPEATABLE READ:   *)
(* a plain SELECT reads the snapshot taken by the transaction's first one, *)
(* while writes and SELECT ... FOR SHARE work on the latest committed rows *)
(* and wait for the locks of other transactions.                           *)
(*                                                                         *)
(* One action is one statement, or the commit or rollback that releases    *)
(* the locks.  The rows a transaction has written are the rows it has      *)
(* locked exclusively; their new values follow from the request.  Postings *)
(* are not in the code yet: a posting is any transaction that calls the    *)
(* period guard and then commits.                                          *)
(***************************************************************************)
EXTENDS Integers, FiniteSets

CONSTANTS
  Years,
  Periods,
  YearOf,        \* the year of each period
  FirstOf,       \* the first period of each year
  NoPeriod,
  Txs,           \* requests in flight
  NoTx,
  MaxRevision,   \* bound: no close or reopen begins on a period beyond it
  MaxPostings    \* bound: postings per period

ASSUME FiscalConstants ==
  /\ YearOf \in [Periods -> Years]
  /\ FirstOf \in [Years -> Periods]
  /\ \A y \in Years : YearOf[FirstOf[y]] = y
  /\ NoPeriod \notin Periods /\ NoTx \notin Txs
  /\ {MaxRevision, MaxPostings} \subseteq Nat

VARIABLES
  \* The committed rows.
  state,      \* fiscal_periods.state, "none" where there is no row
  revision,   \* fiscal_periods.revision
  active,     \* tenant_active_periods.period_id
  postings,   \* how many postings each period has
  events,     \* outbox rows about each period or year; those of selections
              \* are not counted
  \* The transactions.
  request,    \* what a transaction was asked to do
  at,         \* where it stands
  view,       \* its snapshot
  writer,     \* who holds the exclusive lock of each period row
  pointing,   \* who holds the exclusive lock of the pointer row
  share       \* the period row a transaction holds a shared lock of

rows == <<state, revision, active, postings, events>>
locks == <<writer, pointing, share>>
vars == <<rows, request, at, view, locks>>

-----------------------------------------------------------------------------

States == {"none", "open", "closed"}
Snapshot == [state |-> state, revision |-> revision, active |-> active]
NoView == [state |-> [p \in Periods |-> "none"],
           revision |-> [p \in Periods |-> 0],
           active |-> NoPeriod]

Requests ==
  [op : {"close", "reopen", "select", "post"}, period : Periods]
    \cup [op : {"generate"}, year : Years]
Idle == [op |-> "idle"]

Op(t) == request[t].op
Of(t) == request[t].period
PeriodsOf(y) == {p \in Periods : YearOf[p] = y}

Init ==
  /\ state = [p \in Periods |-> "none"]
  /\ revision = [p \in Periods |-> 0]
  /\ active = NoPeriod
  /\ postings = [p \in Periods |-> 0]
  /\ events = [closed |-> [p \in Periods |-> 0],
               reopened |-> [p \in Periods |-> 0],
               generated |-> [y \in Years |-> 0]]
  /\ request = [t \in Txs |-> Idle]
  /\ at = [t \in Txs |-> "idle"]
  /\ view = [t \in Txs |-> NoView]
  /\ writer = [p \in Periods |-> NoTx]
  /\ pointing = NoTx
  /\ share = [t \in Txs |-> NoPeriod]

-----------------------------------------------------------------------------
(* Transactions.                                                           *)

Goto(t, where) == at' = [at EXCEPT ![t] = where]

\* Mutant of End: a failed Result returns without ending the transaction.
EndKeepingLocks(t) ==
  /\ Goto(t, "idle")
  /\ request' = [request EXCEPT ![t] = Idle]
  /\ view' = [view EXCEPT ![t] = NoView]
  /\ UNCHANGED locks

\* The transaction is over: its locks are released, its snapshot is gone.
End(t) ==
  /\ Goto(t, "idle")
  /\ request' = [request EXCEPT ![t] = Idle]
  /\ writer' = [p \in Periods |-> IF writer[p] = t THEN NoTx ELSE writer[p]]
  /\ pointing' = IF pointing = t THEN NoTx ELSE pointing
  /\ share' = [share EXCEPT ![t] = NoPeriod]
  /\ view' = [view EXCEPT ![t] = NoView]

Rollback(t) == End(t) /\ UNCHANGED rows

\* A request arrives: its boundary opens a transaction.
Begin(t, r) ==
  /\ at[t] = "idle"
  /\ r.op \in {"close", "reopen"} => revision[r.period] < MaxRevision
  /\ r.op = "post" => postings[r.period] < MaxPostings
  /\ request' = [request EXCEPT ![t] = r]
  /\ Goto(t, IF r.op = "post" THEN "guard" ELSE "load")
  /\ UNCHANGED <<rows, view, locks>>

\* The first statement of a request, a plain SELECT, takes the snapshot; what
\* it shows lets the request go on or ends it with an expected failure.
Load(t, op, accepted, next) ==
  /\ at[t] = "load" /\ Op(t) = op
  /\ IF accepted
       THEN /\ view' = [view EXCEPT ![t] = Snapshot]
            /\ Goto(t, next)
            /\ UNCHANGED <<rows, request, locks>>
       ELSE Rollback(t)

\* The exclusive lock of a period row: nobody else may hold any lock of it.
LockFree(t, p) ==
  /\ writer[p] = NoTx
  /\ \A u \in Txs \ {t} : share[u] # p

-----------------------------------------------------------------------------
(* CloseFiscalPeriod and ReopenFiscalPeriod.                               *)

\* periods.get: not found, or already closed, or go on.
LoadToClose(t) == Load(t, "close", state[Of(t)] = "open", "pointer")

\* activePeriods.periodIdFor: the active period is not closed.
ReadPointer(t) ==
  /\ at[t] = "pointer"
  /\ IF view[t].active = Of(t)
       THEN Rollback(t)
       ELSE Goto(t, "update") /\ UNCHANGED <<rows, request, view, locks>>

\* periods.get: not found, or already open, or go on.
LoadToReopen(t) == Load(t, "reopen", state[Of(t)] = "closed", "update")

\* Mutant of Update: WHERE id = ? only.
UpdateAnyRevision(t) ==
  /\ at[t] = "update" /\ LockFree(t, Of(t))
  /\ writer' = [writer EXCEPT ![Of(t)] = t]
  /\ Goto(t, "commit")
  /\ UNCHANGED <<rows, request, view, pointing, share>>

\* periods.update: WHERE revision = the loaded one, on the latest row.
Update(t) ==
  /\ at[t] = "update" /\ LockFree(t, Of(t))
  /\ IF revision[Of(t)] = view[t].revision[Of(t)]
       THEN /\ writer' = [writer EXCEPT ![Of(t)] = t]
            /\ Goto(t, "commit")
            /\ UNCHANGED <<rows, request, view, pointing, share>>
       ELSE Rollback(t)

-----------------------------------------------------------------------------
(* SelectActivePeriod.                                                     *)

\* periods.get: not found, or closed, or go on.
LoadToSelect(t) == Load(t, "select", state[Of(t)] = "open", "activate")

\* activePeriods.activate: INSERT ... ON DUPLICATE KEY UPDATE of the one row.
Activate(t) ==
  /\ at[t] = "activate" /\ pointing = NoTx
  /\ pointing' = t
  /\ Goto(t, "commit")
  /\ UNCHANGED <<rows, request, view, writer, share>>

-----------------------------------------------------------------------------
(* GenerateFiscalPeriods.                                                  *)

\* findByYear: periods that exist already are the answer.
LoadToGenerate(t) ==
  Load(t, "generate",
       \A p \in PeriodsOf(request[t].year) : state[p] = "none", "insert")

\* periods.add, for every period of the year.  All requests insert in the
\* order of the sequence, so the first row decides who waits; whoever waited
\* for a commit meets the unique key.
Insert(t) ==
  /\ at[t] = "insert"
  /\ LET new == PeriodsOf(request[t].year) IN
       /\ \A p \in new : LockFree(t, p)
       /\ IF \A p \in new : state[p] = "none"
            THEN /\ writer' = [p \in Periods |->
                                 IF p \in new THEN t ELSE writer[p]]
                 /\ Goto(t, "seed")
                 /\ UNCHANGED <<rows, request, view, pointing, share>>
            ELSE Rollback(t)

\* Mutant of Seed: the frame is generated without a pointer.
SeedNothing(t) ==
  /\ at[t] = "seed"
  /\ Goto(t, "commit")
  /\ UNCHANGED <<rows, request, view, locks>>

\* seedActivePeriod: the pointer is read from the snapshot.
Seed(t) ==
  /\ at[t] = "seed"
  /\ Goto(t, IF view[t].active = NoPeriod THEN "activate" ELSE "commit")
  /\ UNCHANGED <<rows, request, view, locks>>

-----------------------------------------------------------------------------
(* A posting.                                                              *)

\* Mutant of Guard: a plain SELECT, without FOR SHARE.
GuardUnlocked(t) ==
  /\ at[t] = "guard"
  /\ IF state[Of(t)] = "open"
       THEN Goto(t, "commit") /\ UNCHANGED <<rows, request, view, locks>>
       ELSE Rollback(t)

\* assertPostable: SELECT ... FOR SHARE; not defined, closed, or go on.
Guard(t) ==
  /\ at[t] = "guard" /\ writer[Of(t)] = NoTx
  /\ IF state[Of(t)] = "open"
       THEN /\ share' = [share EXCEPT ![t] = Of(t)]
            /\ Goto(t, "commit")
            /\ UNCHANGED <<rows, request, view, writer, pointing>>
       ELSE Rollback(t)

-----------------------------------------------------------------------------

\* COMMIT: what the transaction wrote, with its events, is there at once.
CommitClose(t) ==
  /\ state' = [state EXCEPT ![Of(t)] = "closed"]
  /\ revision' = [revision EXCEPT ![Of(t)] = view[t].revision[Of(t)] + 1]
  /\ events' = [events EXCEPT !.closed[Of(t)] = @ + 1]
  /\ UNCHANGED <<active, postings>>

CommitReopen(t) ==
  /\ state' = [state EXCEPT ![Of(t)] = "open"]
  /\ revision' = [revision EXCEPT ![Of(t)] = view[t].revision[Of(t)] + 1]
  /\ events' = [events EXCEPT !.reopened[Of(t)] = @ + 1]
  /\ UNCHANGED <<active, postings>>

CommitSelect(t) ==
  /\ active' = Of(t)
  /\ UNCHANGED <<state, revision, postings, events>>

CommitGenerate(t) ==
  LET y == request[t].year IN
    /\ state' = [p \in Periods |-> IF YearOf[p] = y THEN "open" ELSE state[p]]
    /\ revision' = [p \in Periods |-> IF YearOf[p] = y THEN 1 ELSE revision[p]]
    /\ active' = IF pointing = t THEN FirstOf[y] ELSE active
    /\ events' = [events EXCEPT !.generated[y] = @ + 1]
    /\ UNCHANGED postings

CommitPosting(t) ==
  /\ postings' = [postings EXCEPT ![Of(t)] = @ + 1]
  /\ UNCHANGED <<state, revision, active, events>>

Commit(t) ==
  /\ at[t] = "commit"
  /\ \/ Op(t) = "close" /\ CommitClose(t)
     \/ Op(t) = "reopen" /\ CommitReopen(t)
     \/ Op(t) = "select" /\ CommitSelect(t)
     \/ Op(t) = "generate" /\ CommitGenerate(t)
     \/ Op(t) = "post" /\ CommitPosting(t)
  /\ End(t)

\* The process dies, a lock wait times out, or a later statement throws.
Abort(t) == at[t] # "idle" /\ Rollback(t)

-----------------------------------------------------------------------------

TxStep(t) ==
  \/ LoadToClose(t) \/ ReadPointer(t) \/ LoadToReopen(t) \/ Update(t)
  \/ LoadToSelect(t) \/ Activate(t)
  \/ LoadToGenerate(t) \/ Insert(t) \/ Seed(t)
  \/ Guard(t) \/ Commit(t)

Next ==
  \E t \in Txs :
    \/ \E r \in Requests : Begin(t, r)
    \/ TxStep(t) \/ Abort(t)

Spec == Init /\ [][Next]_vars

\* A transaction goes on as long as no lock stops it; a lock that is free
\* again and again is granted.
Fairness == \A t \in Txs : SF_vars(TxStep(t))

FairSpec == Spec /\ Fairness

-----------------------------------------------------------------------------
(* Properties.                                                             *)

Views == [state : [Periods -> States], revision : [Periods -> Nat],
          active : Periods \cup {NoPeriod}]
Events == [closed : [Periods -> Nat], reopened : [Periods -> Nat],
           generated : [Years -> Nat]]
Places == {"idle", "load", "pointer", "update", "activate", "insert", "seed",
           "guard", "commit"}
\* The statements each request comes to.
OpPlaces ==
  [idle |-> {"idle"},
   close |-> {"load", "pointer", "update", "commit"},
   reopen |-> {"load", "update", "commit"},
   select |-> {"load", "activate", "commit"},
   generate |-> {"load", "insert", "seed", "activate", "commit"},
   post |-> {"guard", "commit"}]

\* Every variable keeps its type, and nothing is locked by a transaction that
\* is over or has not come to its writes.
TypeOK ==
  /\ state \in [Periods -> States]
  /\ revision \in [Periods -> Nat]
  /\ active \in Periods \cup {NoPeriod}
  /\ postings \in [Periods -> Nat]
  /\ events \in Events
  /\ request \in [Txs -> Requests \cup {Idle}]
  /\ at \in [Txs -> Places]
  /\ view \in [Txs -> Views]
  /\ writer \in [Periods -> Txs \cup {NoTx}]
  /\ pointing \in Txs \cup {NoTx}
  /\ share \in [Txs -> Periods \cup {NoPeriod}]
  /\ \A t \in Txs : at[t] \in OpPlaces[Op(t)]
  /\ \A p \in Periods :
       writer[p] # NoTx => at[writer[p]] \in {"seed", "activate", "commit"}
  /\ pointing # NoTx => at[pointing] = "commit"
  /\ \A t \in Txs : share[t] # NoPeriod => at[t] = "commit"

\* Every transition of a period happened once and has its event: a closed
\* period was closed once more than it was reopened, an open one as often,
\* and nothing else ever raised its revision.  Two concurrent closes, or a
\* close and a reopen, never both succeed on the same state.
TransitionsMatchEvents ==
  \A p \in Periods :
    LET closed == events.closed[p]
        reopened == events.reopened[p]
    IN  /\ state[p] = "none" => closed = 0 /\ reopened = 0
        /\ state[p] = "open" => closed = reopened
        /\ state[p] = "closed" => closed = reopened + 1
        /\ state[p] # "none" => revision[p] = 1 + closed + reopened

\* generate-fiscal-periods.use-case.ts: "the fiscal frame exists or nothing of
\* it does", and a year is generated once, however often it is asked for.
GeneratedOnce ==
  \A y \in Years :
    /\ events.generated[y] <= 1
    /\ \A p \in PeriodsOf(y) : state[p] # "none" <=> events.generated[y] = 1

\* generate-fiscal-periods.use-case.ts: "the rule exactly one active period
\* holds from the moment the frame exists".
FrameHasActivePeriod ==
  (\E p \in Periods : state[p] # "none")
    => active # NoPeriod /\ state[active] # "none"

\* default-period-guard.service.ts: a posting and a close of its period do not
\* race: no posting is ever committed into a period that is closed.
ClosedPeriodsAreFrozen ==
  [][\A p \in Periods : state[p] # "open" => postings'[p] = postings[p]]_vars

\* Overlapping requests leave what some order of them would have left one at a
\* time: whichever commits acts on the rows as they are at its commit, although
\* it decided on its snapshot.
Register == INSTANCE FiscalRegister
RegisterSpec == Register!Spec

\* fiscal-period-state.ts: "a closed period can never be active again".
ActivePeriodIsOpen == active # NoPeriod => state[active] = "open"

\* No request waits for a lock for ever: the transactions never block each
\* other in a circle.
EveryRequestEnds == \A t \in Txs : (at[t] # "idle") ~> (at[t] = "idle")

=============================================================================

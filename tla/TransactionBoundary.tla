------------------------ MODULE TransactionBoundary ------------------------
(***************************************************************************)
(* TransactionBoundary.execute: one unit of work per request.  The first   *)
(* execute of a request begins a transaction, an execute inside it joins   *)
(* it, a failure of any of them makes it rollback-only, and only the       *)
(* outermost one commits.                                                  *)
(*                                                                         *)
(* The executions of a request are numbered in the order they begin; 1 is  *)
(* the outermost.  Inner executions may be awaited one after the other or  *)
(* together, and their callers may pass a failure on or ignore it.         *)
(***************************************************************************)
EXTENDS Integers

CONSTANTS
  Units,
  MaxExecutions   \* bound: executions of one request, nested or in sequence

VARIABLES
  execution,   \* what became of each execution of a request
  failed,      \* BoundaryState.failed
  alive,       \* whether the connection still holds the transaction
  written,     \* the executions that have written in it
  durable,     \* the executions whose writes are committed
  answer       \* what the request's caller was told

boundaryVars == <<execution, failed, alive, written, durable, answer>>

-----------------------------------------------------------------------------

Executions == 1..MaxExecutions

BoundaryInit ==
  /\ execution = [r \in Units |-> [n \in Executions |-> "none"]]
  /\ failed = [r \in Units |-> FALSE]
  /\ alive = [r \in Units |-> FALSE]
  /\ written = [r \in Units |-> {}]
  /\ durable = [r \in Units |-> {}]
  /\ answer = [r \in Units |-> "none"]

Running(r, n) == execution[r][n] = "running"
Open(r) == Running(r, 1)
Record(r, n, outcome) == execution' = [execution EXCEPT ![r][n] = outcome]

\* runner.run: BEGIN, and a context of its own for everything awaited in it.
BeginUnit(r) ==
  /\ execution[r][1] = "none"
  /\ Record(r, 1, "running")
  /\ failed' = [failed EXCEPT ![r] = FALSE]
  /\ alive' = [alive EXCEPT ![r] = TRUE]
  /\ UNCHANGED <<written, durable, answer>>

\* An execute that finds a boundary state in its context joins it.
Join(r, n) ==
  /\ Open(r)
  /\ n > 1 /\ execution[r][n] = "none" /\ execution[r][n - 1] # "none"
  /\ Record(r, n, "running")
  /\ UNCHANGED <<failed, alive, written, durable, answer>>

\* Mutant of Write: the adapter writes through its own connection.
WriteOutside(r, n) ==
  /\ Running(r, n)
  /\ durable' = [durable EXCEPT ![r] = @ \cup {n}]
  /\ written' = [written EXCEPT ![r] = @ \cup {n}]
  /\ UNCHANGED <<execution, failed, alive, answer>>

\* An adapter writes through scopedDatabase, which finds the transaction in
\* the context.  On a connection that is gone the statement throws.
Write(r, n) ==
  /\ Running(r, n) /\ alive[r]
  /\ written' = [written EXCEPT ![r] = @ \cup {n}]
  /\ UNCHANGED <<execution, failed, alive, durable, answer>>

\* Mutant of Leave: a failed Result of a joined execution is only returned.
LeaveUnmarked(r, n, outcome) ==
  /\ n > 1 /\ Running(r, n)
  /\ Record(r, n, outcome)
  /\ failed' = [failed EXCEPT ![r] = @ \/ outcome = "thrown"]
  /\ UNCHANGED <<alive, written, durable, answer>>

\* runWithinBoundary: the failure reaches the caller and marks the boundary.
Leave(r, n, outcome) ==
  /\ n > 1 /\ Running(r, n)
  /\ Record(r, n, outcome)
  /\ failed' = [failed EXCEPT ![r] = @ \/ outcome # "ok"]
  /\ UNCHANGED <<alive, written, durable, answer>>

\* The outermost work is over and has awaited what it called.
Finish(r, outcome) ==
  /\ Open(r)
  /\ \A n \in Executions \ {1} : ~ Running(r, n)
  /\ Record(r, 1, outcome)
  /\ UNCHANGED <<failed, written>>

\* The work threw, answered with a failed Result, or answered with success
\* although something inside it had failed: ROLLBACK.
Rollback(r, outcome) ==
  /\ outcome # "ok" \/ failed[r]
  /\ Finish(r, outcome)
  /\ alive' = [alive EXCEPT ![r] = FALSE]
  /\ answer' = [answer EXCEPT ![r] =
                  IF outcome = "ok" THEN "boundary_error" ELSE outcome]
  /\ UNCHANGED durable

\* COMMIT.  It may fail, it may succeed without a reply, and the process may
\* die before the reply has come.
Commit(r, applied, reply) ==
  /\ ~ failed[r]
  /\ Finish(r, "ok")
  /\ applied => alive[r]
  /\ reply = "ok" => applied
  /\ alive' = [alive EXCEPT ![r] = FALSE]
  /\ durable' = [durable EXCEPT ![r] = IF applied THEN written[r] ELSE @]
  /\ answer' = [answer EXCEPT ![r] = reply]

\* The server ends the transaction: the connection is lost or a deadlock victim
\* is chosen.  The work learns it from its next statement, if it makes one.
Lose(r) ==
  /\ alive[r]
  /\ alive' = [alive EXCEPT ![r] = FALSE]
  /\ UNCHANGED <<execution, failed, written, durable, answer>>

\* The process dies: nobody is answered, the server rolls back.
Die(r) ==
  /\ Open(r)
  /\ execution' = [execution EXCEPT ![r] =
       [n \in Executions |-> IF @[n] = "running" THEN "dead" ELSE @[n]]]
  /\ alive' = [alive EXCEPT ![r] = FALSE]
  /\ UNCHANGED <<failed, written, durable, answer>>

BoundaryNext ==
  \E r \in Units :
    \/ BeginUnit(r) \/ Lose(r) \/ Die(r)
    \/ \E n \in Executions :
         \/ Join(r, n) \/ Write(r, n)
         \/ \E outcome \in {"ok", "failed", "thrown"} : Leave(r, n, outcome)
    \/ \E outcome \in {"ok", "failed", "thrown"} : Rollback(r, outcome)
    \/ \E applied \in BOOLEAN, reply \in {"ok", "thrown", "none"} :
         Commit(r, applied, reply)

BoundarySpec == BoundaryInit /\ [][BoundaryNext]_boundaryVars

-----------------------------------------------------------------------------
(* Properties.                                                             *)

Outcomes == {"ok", "failed", "thrown"}

\* Every variable keeps its type, and only executions that began have written.
BoundaryTypeOK ==
  /\ execution \in
       [Units -> [Executions -> Outcomes \cup {"none", "running", "dead"}]]
  /\ failed \in [Units -> BOOLEAN]
  /\ alive \in [Units -> BOOLEAN]
  /\ written \in [Units -> SUBSET Executions]
  /\ durable \in [Units -> SUBSET Executions]
  /\ answer \in [Units -> Outcomes \cup {"none", "boundary_error"}]
  /\ \A r \in Units : \A n \in written[r] : execution[r][n] # "none"

\* transaction-boundary.ts: "Once any operation inside a boundary reports a
\* failure ... the boundary will no longer commit", whether its callers passed
\* the failure on or not, and at whatever depth it happened.
NothingOfAFailure ==
  \A r \in Units :
    durable[r] # {} => \A n \in Executions : execution[r][n] \in {"ok", "none"}

\* transaction-boundary.ts: "everything inside it commits together or not at
\* all", and the caller is told which: success means that every write is
\* durable, an expected failure or a TransactionBoundaryError that none is.
\* Only an error of the COMMIT, or no answer, leaves it open.
AnswersMatchTheDatabase ==
  \A r \in Units :
    /\ durable[r] \in {{}, written[r]}
    /\ Open(r) => durable[r] = {}
    /\ answer[r] = "ok" => durable[r] = written[r]
    /\ answer[r] \in {"failed", "boundary_error"} => durable[r] = {}

=============================================================================

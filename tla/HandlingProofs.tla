--------------------------- MODULE HandlingProofs ---------------------------
(***************************************************************************)
(* Proofs about what surrounds the handler of a request: its unit of work, *)
(* the company it works for, and the limiter in front of it.               *)
(***************************************************************************)
EXTENDS TransactionBoundary, TenantScope, RateLimiter, FiniteSetTheorems,
        SequenceTheorems, WellFoundedInduction, TLAPS

-----------------------------------------------------------------------------
(* TransactionBoundary, for any number of requests and any number and      *)
(* nesting of executions in each.  BoundaryStage says of one request what  *)
(* its boundary has promised so far: while the outermost execution runs    *)
(* nothing is durable and nobody is answered, a boundary that is not       *)
(* marked has seen no failure, and after it nothing runs.                  *)

Status == Outcomes \cup {"none", "running", "dead"}

\* Nothing of a failure, and the truth to the caller, for one request.
Whole(r) == durable[r] # {} => \A n \in Executions : execution[r][n] \in {"ok", "none"}
Truth(r) ==
  /\ durable[r] \in {{}, written[r]}
  /\ Open(r) => durable[r] = {}
  /\ answer[r] = "ok" => durable[r] = written[r]
  /\ answer[r] \in {"failed", "boundary_error"} => durable[r] = {}

BoundaryStage(r) ==
  /\ execution[r][1] = "none" =>
       /\ \A n \in Executions : execution[r][n] = "none"
       /\ durable[r] = {} /\ answer[r] = "none"
  /\ alive[r] => Open(r)
  /\ Open(r) => durable[r] = {} /\ answer[r] = "none"
  /\ ~ Open(r) => \A n \in Executions : ~ Running(r, n)
  /\ Open(r) /\ ~ failed[r] =>
       \A n \in Executions : execution[r][n] \in {"ok", "none", "running"}
  /\ Whole(r) /\ Truth(r)

BoundaryKept == BoundaryTypeOK /\ \A r \in Units : BoundaryStage(r)

\* What the steps of other requests leave of a request.
Untouched(r) ==
  /\ execution'[r] = execution[r] /\ failed'[r] = failed[r]
  /\ alive'[r] = alive[r] /\ written'[r] = written[r]
  /\ durable'[r] = durable[r] /\ answer'[r] = answer[r]

-----------------------------------------------------------------------------

LEMMA UntouchedStage ==
  ASSUME NEW r \in Units, BoundaryStage(r), Untouched(r)
  PROVE  BoundaryStage(r)'
BY DEF BoundaryStage, Untouched, Whole, Truth, Open, Running

\* A step of one request keeps the invariant if it keeps the stage of that one.
LEMMA OneRequest ==
  ASSUME BoundaryKept, BoundaryTypeOK', NEW r \in Units, BoundaryStage(r)',
         \A u \in Units \ {r} : Untouched(u)
  PROVE  BoundaryKept'
BY UntouchedStage DEF BoundaryKept

LEMMA InitKept ==
  ASSUME 1 \in Executions, BoundaryInit
  PROVE  BoundaryKept
<1>1. BoundaryTypeOK
  BY DEF BoundaryInit, BoundaryTypeOK, Outcomes
<1>2. ASSUME NEW r \in Units PROVE BoundaryStage(r)
  BY DEF BoundaryInit, BoundaryStage, Whole, Truth, Open, Running
<1> QED
  BY <1>1, <1>2 DEF BoundaryKept

\* The record of one execution, in the terms of the functions.
LEMMA Recorded ==
  ASSUME BoundaryTypeOK, NEW r \in Units, NEW n \in Executions,
         NEW outcome \in Status, Record(r, n, outcome)
  PROVE  /\ execution' \in [Units -> [Executions -> Status]]
         /\ execution'[r][n] = outcome
         /\ \A k \in Executions \ {n} : execution'[r][k] = execution[r][k]
         /\ \A u \in Units \ {r} : execution'[u] = execution[u]
<1>1. execution \in [Units -> [Executions -> Status]]
  BY DEF BoundaryTypeOK, Status
<1>2. [execution[r] EXCEPT ![n] = outcome] \in [Executions -> Status]
  BY <1>1
<1>3. execution' = [execution EXCEPT ![r] = [execution[r] EXCEPT ![n] = outcome]]
  BY DEF Record
<1>4. execution'[r] = [execution[r] EXCEPT ![n] = outcome]
  BY <1>1, <1>3
<1> QED
  BY <1>1, <1>2, <1>3, <1>4

-----------------------------------------------------------------------------

LEMMA BeginKeeps ==
  ASSUME BoundaryKept, 1 \in Executions, NEW r \in Units, BeginUnit(r)
  PROVE  BoundaryKept'
<1>1. /\ execution' \in [Units -> [Executions -> Status]]
      /\ execution'[r][1] = "running"
      /\ \A k \in Executions \ {1} : execution'[r][k] = execution[r][k]
      /\ \A u \in Units \ {r} : execution'[u] = execution[u]
  BY Recorded DEF BoundaryKept, BeginUnit, Status
<1>2. BoundaryTypeOK'
  <2>1. \A u \in Units : \A k \in written'[u] : execution'[u][k] # "none"
    <3>1. ASSUME NEW u \in Units, NEW k \in written[u]
          PROVE  execution'[u][k] # "none"
      <4>1. k \in Executions /\ execution[u][k] # "none"
        BY DEF BoundaryKept, BoundaryTypeOK
      <4> QED
        BY <1>1, <4>1
    <3> QED
      BY <3>1 DEF BeginUnit
  <2>2. failed' \in [Units -> BOOLEAN] /\ alive' \in [Units -> BOOLEAN]
    BY DEF BoundaryKept, BoundaryTypeOK, BeginUnit
  <2>3. /\ written' = written /\ durable' = durable /\ answer' = answer
    BY DEF BeginUnit
  <2> QED
    BY <1>1, <2>1, <2>2, <2>3 DEF BoundaryKept, BoundaryTypeOK, Status
<1>3. written'[r] = written[r] /\ durable'[r] = durable[r] /\ answer'[r] = answer[r]
  BY DEF BeginUnit
<1>4. /\ \A n \in Executions : execution[r][n] = "none"
      /\ durable[r] = {} /\ answer[r] = "none"
  BY DEF BoundaryKept, BoundaryStage, BeginUnit
<1>5. BoundaryStage(r)'
  <2>1. \A n \in Executions : execution'[r][n] \in {"none", "running"}
    BY <1>1, <1>4
  <2>2. Open(r)'
    BY <1>1 DEF Open, Running
  <2> QED
    BY <1>1, <1>3, <1>4, <2>1, <2>2 DEF BoundaryStage, Whole, Truth
<1>6. \A u \in Units \ {r} : Untouched(u)
  BY <1>1 DEF Untouched, BeginUnit, BoundaryKept, BoundaryTypeOK
<1> QED
  BY <1>2, <1>5, <1>6, OneRequest

LEMMA JoinKeeps ==
  ASSUME BoundaryKept, 1 \in Executions, NEW r \in Units, NEW n \in Executions, Join(r, n)
  PROVE  BoundaryKept'
<1>1. /\ execution' \in [Units -> [Executions -> Status]]
      /\ execution'[r][n] = "running" /\ n # 1
      /\ \A k \in Executions \ {n} : execution'[r][k] = execution[r][k]
      /\ \A u \in Units \ {r} : execution'[u] = execution[u]
  BY Recorded DEF BoundaryKept, Join, Status, Executions
<1>2. BoundaryTypeOK'
  <2>1. \A u \in Units : \A k \in written'[u] : execution'[u][k] # "none"
    BY <1>1 DEF BoundaryKept, BoundaryTypeOK, Join
  <2> QED
    BY <1>1, <2>1 DEF BoundaryKept, BoundaryTypeOK, Join, Status
<1>3. \A u \in Units :
        /\ failed'[u] = failed[u] /\ alive'[u] = alive[u] /\ written'[u] = written[u]
        /\ durable'[u] = durable[u] /\ answer'[u] = answer[u]
  BY DEF Join
<1>4. Open(r) /\ Open(r)'
  BY <1>1 DEF Join, Open, Running
<1>5. BoundaryStage(r)'
  <2>1. execution'[r][1] = "running"
    BY <1>4 DEF Open, Running
  <2>2. durable[r] = {} /\ answer[r] = "none"
    BY <1>4 DEF BoundaryKept, BoundaryStage
  <2>3. ~ failed[r] =>
          \A k \in Executions : execution'[r][k] \in {"ok", "none", "running"}
    BY <1>1, <1>4 DEF BoundaryKept, BoundaryStage
  <2> QED
    BY <1>3, <1>4, <2>1, <2>2, <2>3 DEF BoundaryStage, Whole, Truth
<1>6. \A u \in Units \ {r} : Untouched(u)
  BY <1>1, <1>3 DEF Untouched
<1> QED
  BY <1>2, <1>5, <1>6, OneRequest

LEMMA WriteKeeps ==
  ASSUME BoundaryKept, NEW r \in Units, NEW n \in Executions, Write(r, n)
  PROVE  BoundaryKept'
<1>1. /\ written' \in [Units -> SUBSET Executions]
      /\ written'[r] = written[r] \cup {n}
      /\ \A u \in Units \ {r} : written'[u] = written[u]
  BY DEF BoundaryKept, BoundaryTypeOK, Write
<1>2. execution[r][n] = "running"
  BY DEF Write, Running
<1>3. BoundaryTypeOK'
  BY <1>1, <1>2 DEF BoundaryKept, BoundaryTypeOK, Write
<1>4. Open(r) /\ durable[r] = {} /\ answer[r] = "none"
  BY DEF BoundaryKept, BoundaryStage, Write
<1>5. BoundaryStage(r)'
  BY <1>1, <1>4 DEF BoundaryKept, BoundaryStage, Whole, Truth, Open, Running, Write
<1>6. \A u \in Units \ {r} : Untouched(u)
  BY <1>1 DEF Untouched, Write
<1> QED
  BY <1>3, <1>5, <1>6, OneRequest

LEMMA LeaveKeeps ==
  ASSUME BoundaryKept, 1 \in Executions, NEW r \in Units, NEW n \in Executions,
         NEW outcome \in Outcomes, Leave(r, n, outcome)
  PROVE  BoundaryKept'
<1>1. /\ execution' \in [Units -> [Executions -> Status]]
      /\ execution'[r][n] = outcome /\ n # 1
      /\ \A k \in Executions \ {n} : execution'[r][k] = execution[r][k]
      /\ \A u \in Units \ {r} : execution'[u] = execution[u]
  BY Recorded DEF BoundaryKept, Leave, Status, Executions
<1>2. /\ failed' \in [Units -> BOOLEAN]
      /\ failed'[r] = (failed[r] \/ outcome # "ok")
      /\ \A u \in Units \ {r} : failed'[u] = failed[u]
  BY DEF BoundaryKept, BoundaryTypeOK, Leave
<1>3. outcome # "none"
  BY DEF Outcomes
<1>4. BoundaryTypeOK'
  <2>1. \A u \in Units : \A k \in written'[u] : execution'[u][k] # "none"
    <3> SUFFICES ASSUME NEW u \in Units, NEW k \in written'[u]
                 PROVE  execution'[u][k] # "none"
      OBVIOUS
    <3>1. k \in Executions /\ execution[u][k] # "none"
      BY DEF BoundaryKept, BoundaryTypeOK, Leave
    <3> QED
      BY <1>1, <1>3, <3>1
  <2> QED
    BY <1>1, <1>2, <2>1 DEF BoundaryKept, BoundaryTypeOK, Leave, Status
<1>5. \A u \in Units :
        /\ alive'[u] = alive[u] /\ written'[u] = written[u]
        /\ durable'[u] = durable[u] /\ answer'[u] = answer[u]
  BY DEF Leave
<1>6. execution[r][n] = "running"
  BY DEF Leave, Running
<1>7. Open(r) /\ Open(r)'
  BY <1>1, <1>6 DEF BoundaryKept, BoundaryStage, Open, Running
<1>8. durable[r] = {} /\ answer[r] = "none"
  BY <1>7 DEF BoundaryKept, BoundaryStage
<1>9. Open(r)' /\ ~ failed'[r] =>
        \A k \in Executions : execution'[r][k] \in {"ok", "none", "running"}
  BY <1>1, <1>2, <1>7 DEF BoundaryKept, BoundaryStage
<1>10. BoundaryStage(r)'
  BY <1>1, <1>5, <1>7, <1>8, <1>9 DEF BoundaryStage, Whole, Truth, Open, Running
<1>11. \A u \in Units \ {r} : Untouched(u)
  BY <1>1, <1>2, <1>5 DEF Untouched
<1> QED
  BY <1>4, <1>10, <1>11, OneRequest

\* The outermost execution has ended, and with it the boundary.
LEMMA Finished ==
  ASSUME BoundaryKept, 1 \in Executions, NEW r \in Units, NEW outcome \in Outcomes,
         Finish(r, outcome)
  PROVE  /\ execution' \in [Units -> [Executions -> Status]]
         /\ execution'[r][1] = outcome
         /\ \A k \in Executions \ {1} : execution'[r][k] = execution[r][k]
         /\ \A u \in Units \ {r} : execution'[u] = execution[u]
         /\ \A k \in Executions : execution'[r][k] # "running"
         /\ \A u \in Units : failed'[u] = failed[u] /\ written'[u] = written[u]
<1>1. /\ execution' \in [Units -> [Executions -> Status]]
      /\ execution'[r][1] = outcome
      /\ \A k \in Executions \ {1} : execution'[r][k] = execution[r][k]
      /\ \A u \in Units \ {r} : execution'[u] = execution[u]
  BY Recorded DEF BoundaryKept, Finish, Status
<1>2. outcome # "running"
  BY DEF Outcomes
<1> QED
  BY <1>1, <1>2 DEF Finish, Running

LEMMA RollbackKeeps ==
  ASSUME BoundaryKept, 1 \in Executions, NEW r \in Units, NEW outcome \in Outcomes,
         Rollback(r, outcome)
  PROVE  BoundaryKept'
<1>1. /\ execution' \in [Units -> [Executions -> Status]]
      /\ execution'[r][1] = outcome
      /\ \A k \in Executions \ {1} : execution'[r][k] = execution[r][k]
      /\ \A u \in Units \ {r} : execution'[u] = execution[u]
      /\ \A k \in Executions : execution'[r][k] # "running"
      /\ \A u \in Units : failed'[u] = failed[u] /\ written'[u] = written[u]
  BY Finished DEF Rollback
<1>2. /\ outcome # "none" /\ outcome # "running"
      /\ (IF outcome = "ok" THEN "boundary_error" ELSE outcome)
           \in {"failed", "thrown", "boundary_error"}
  BY DEF Outcomes
<1>3. /\ answer'[r] \in {"failed", "thrown", "boundary_error"}
      /\ \A u \in Units \ {r} : answer'[u] = answer[u]
      /\ answer' \in [Units -> Outcomes \cup {"none", "boundary_error"}]
  BY <1>2 DEF BoundaryKept, BoundaryTypeOK, Rollback, Outcomes
<1>4. /\ alive'[r] = FALSE /\ alive' \in [Units -> BOOLEAN]
      /\ \A u \in Units \ {r} : alive'[u] = alive[u]
  BY DEF BoundaryKept, BoundaryTypeOK, Rollback
<1>5. durable' = durable /\ durable[r] = {}
  BY DEF BoundaryKept, BoundaryStage, Rollback, Finish
<1>6. BoundaryTypeOK'
  <2>1. \A u \in Units : \A k \in written'[u] : execution'[u][k] # "none"
    <3>1. ASSUME NEW u \in Units, NEW k \in written[u]
          PROVE  execution'[u][k] # "none"
      <4>1. k \in Executions /\ execution[u][k] # "none"
        BY DEF BoundaryKept, BoundaryTypeOK
      <4> QED
        BY <1>1, <1>2, <4>1
    <3> QED
      BY <1>1, <3>1
  <2>2. failed' = failed /\ written' = written
    BY DEF Rollback, Finish
  <2> QED
    BY <1>1, <1>3, <1>4, <1>5, <2>1, <2>2 DEF BoundaryKept, BoundaryTypeOK, Status
<1>7. BoundaryStage(r)'
  BY <1>1, <1>2, <1>3, <1>4, <1>5 DEF BoundaryStage, Whole, Truth, Open, Running
<1>8. \A u \in Units \ {r} : Untouched(u)
  BY <1>1, <1>3, <1>4, <1>5 DEF Untouched
<1> QED
  BY <1>6, <1>7, <1>8, OneRequest

LEMMA CommitKeeps ==
  ASSUME BoundaryKept, 1 \in Executions, NEW r \in Units, NEW applied \in BOOLEAN,
         NEW reply \in {"ok", "thrown", "none"}, Commit(r, applied, reply)
  PROVE  BoundaryKept'
<1>1. /\ execution' \in [Units -> [Executions -> Status]]
      /\ execution'[r][1] = "ok"
      /\ \A k \in Executions \ {1} : execution'[r][k] = execution[r][k]
      /\ \A u \in Units \ {r} : execution'[u] = execution[u]
      /\ \A k \in Executions : execution'[r][k] # "running"
      /\ \A u \in Units : failed'[u] = failed[u] /\ written'[u] = written[u]
  BY Finished DEF Commit, Outcomes
<1>2. \A k \in Executions : execution'[r][k] \in {"ok", "none"}
  <2>1. Open(r) /\ ~ failed[r]
    BY DEF Commit, Finish
  <2> QED
    BY <1>1, <2>1 DEF BoundaryKept, BoundaryStage
<1>3. /\ answer'[r] = reply /\ answer' \in [Units -> Outcomes \cup {"none", "boundary_error"}]
      /\ \A u \in Units \ {r} : answer'[u] = answer[u]
  BY DEF BoundaryKept, BoundaryTypeOK, Commit, Outcomes
<1>4. /\ alive'[r] = FALSE /\ alive' \in [Units -> BOOLEAN]
      /\ \A u \in Units \ {r} : alive'[u] = alive[u]
  BY DEF BoundaryKept, BoundaryTypeOK, Commit
<1>5. durable[r] = {}
  BY DEF BoundaryKept, BoundaryStage, Commit, Finish
<1>6. /\ durable'[r] = IF applied THEN written[r] ELSE {}
      /\ durable' \in [Units -> SUBSET Executions]
      /\ \A u \in Units \ {r} : durable'[u] = durable[u]
  BY <1>5 DEF BoundaryKept, BoundaryTypeOK, Commit
<1>7. BoundaryTypeOK'
  <2>1. \A u \in Units : \A k \in written'[u] : execution'[u][k] # "none"
    <3> SUFFICES ASSUME NEW u \in Units, NEW k \in written[u]
                 PROVE  execution'[u][k] # "none"
      BY <1>1
    <3>1. k \in Executions /\ execution[u][k] # "none"
      BY DEF BoundaryKept, BoundaryTypeOK
    <3> QED
      BY <1>1, <3>1
  <2> QED
    BY <1>1, <1>3, <1>4, <1>6, <2>1 DEF BoundaryKept, BoundaryTypeOK, Commit, Finish, Status
<1>8. reply = "ok" => applied
  BY DEF Commit
<1>9. BoundaryStage(r)'
  BY <1>1, <1>2, <1>3, <1>4, <1>6, <1>8 DEF BoundaryStage, Whole, Truth, Open, Running
<1>10. \A u \in Units \ {r} : Untouched(u)
  BY <1>1, <1>3, <1>4, <1>6 DEF Untouched
<1> QED
  BY <1>7, <1>9, <1>10, OneRequest

LEMMA LoseKeeps ==
  ASSUME BoundaryKept, NEW r \in Units, Lose(r)
  PROVE  BoundaryKept'
<1>1. /\ alive'[r] = FALSE /\ alive' \in [Units -> BOOLEAN]
      /\ \A u \in Units \ {r} : alive'[u] = alive[u]
  BY DEF BoundaryKept, BoundaryTypeOK, Lose
<1>2. BoundaryTypeOK'
  BY <1>1 DEF BoundaryKept, BoundaryTypeOK, Lose
<1>3. BoundaryStage(r)'
  BY <1>1 DEF BoundaryKept, BoundaryStage, Whole, Truth, Open, Running, Lose
<1>4. \A u \in Units \ {r} : Untouched(u)
  BY <1>1 DEF Untouched, Lose
<1> QED
  BY <1>2, <1>3, <1>4, OneRequest

LEMMA DieKeeps ==
  ASSUME BoundaryKept, 1 \in Executions, NEW r \in Units, Die(r)
  PROVE  BoundaryKept'
<1> DEFINE Ended == [n \in Executions |->
                       IF execution[r][n] = "running" THEN "dead" ELSE execution[r][n]]
<1>1. /\ execution' = [execution EXCEPT ![r] = Ended]
      /\ execution \in [Units -> [Executions -> Status]]
  BY DEF Die, BoundaryKept, BoundaryTypeOK, Status
<1>2. Ended \in [Executions -> Status]
  BY <1>1 DEF Status
<1>3. /\ execution'[r] = Ended
      /\ \A u \in Units \ {r} : execution'[u] = execution[u]
      /\ execution' \in [Units -> [Executions -> Status]]
  BY <1>1, <1>2
<1>4. \A n \in Executions :
        execution'[r][n] = IF execution[r][n] = "running" THEN "dead" ELSE execution[r][n]
  BY <1>3
<1>5. /\ alive'[r] = FALSE /\ alive' \in [Units -> BOOLEAN]
      /\ \A u \in Units \ {r} : alive'[u] = alive[u]
  BY DEF BoundaryKept, BoundaryTypeOK, Die
<1>6. BoundaryTypeOK'
  <2>1. \A u \in Units : \A k \in written'[u] : execution'[u][k] # "none"
    BY <1>3, <1>4 DEF BoundaryKept, BoundaryTypeOK, Die
  <2> QED
    BY <1>3, <1>5, <2>1 DEF BoundaryKept, BoundaryTypeOK, Die, Status
<1>7. /\ Open(r) /\ durable[r] = {} /\ answer[r] = "none"
      /\ written'[r] = written[r] /\ durable'[r] = durable[r] /\ answer'[r] = answer[r]
  BY DEF BoundaryKept, BoundaryStage, Die
<1>8. execution'[r][1] = "dead" /\ \A n \in Executions : execution'[r][n] # "running"
  BY <1>4, <1>7 DEF Open, Running
<1>9. BoundaryStage(r)'
  BY <1>5, <1>7, <1>8 DEF BoundaryStage, Whole, Truth, Open, Running
<1>10. \A u \in Units \ {r} : Untouched(u)
  BY <1>3, <1>5 DEF Untouched, Die
<1> QED
  BY <1>6, <1>9, <1>10, OneRequest

LEMMA StepKept ==
  ASSUME 1 \in Executions, BoundaryKept, [BoundaryNext]_boundaryVars
  PROVE  BoundaryKept'
<1>1. CASE BoundaryNext
  <2> PICK r \in Units :
        \/ BeginUnit(r) \/ Lose(r) \/ Die(r)
        \/ \E n \in Executions :
             \/ Join(r, n) \/ Write(r, n)
             \/ \E outcome \in Outcomes : Leave(r, n, outcome)
        \/ \E outcome \in Outcomes : Rollback(r, outcome)
        \/ \E applied \in BOOLEAN, reply \in {"ok", "thrown", "none"} :
             Commit(r, applied, reply)
    BY <1>1 DEF BoundaryNext, Outcomes
  <2> QED
    BY BeginKeeps, JoinKeeps, WriteKeeps, LeaveKeeps, RollbackKeeps, CommitKeeps,
       LoseKeeps, DieKeeps
<1>2. CASE UNCHANGED boundaryVars
  <2>1. \A r \in Units : Untouched(r)
    BY <1>2 DEF Untouched, boundaryVars
  <2>2. BoundaryTypeOK'
    BY <1>2 DEF BoundaryKept, BoundaryTypeOK, boundaryVars
  <2> QED
    BY <2>1, <2>2, UntouchedStage DEF BoundaryKept
<1> QED
  BY <1>1, <1>2

-----------------------------------------------------------------------------

LEMMA KeptAlways ==
  ASSUME 1 \in Executions
  PROVE  BoundarySpec => []BoundaryKept
<1>1. BoundaryInit => BoundaryKept
  BY InitKept
<1>2. BoundaryKept /\ [BoundaryNext]_boundaryVars => BoundaryKept'
  BY StepKept
<1> QED
  BY <1>1, <1>2, PTL DEF BoundarySpec

\* transaction-boundary.ts: nothing of a unit of work in which anything failed
\* is ever durable, whoever ignored the failure and at whatever depth.
THEOREM FailuresLeaveNothing ==
  ASSUME 1 \in Executions
  PROVE  BoundarySpec => []NothingOfAFailure
<1>1. BoundaryKept => NothingOfAFailure
  BY DEF BoundaryKept, BoundaryStage, Whole, NothingOfAFailure
<1> QED
  BY <1>1, KeptAlways, PTL

\* transaction-boundary.ts: a unit of work is durable as a whole or not at all,
\* and an answered caller is told which.
THEOREM AnswersAreTrue ==
  ASSUME 1 \in Executions
  PROVE  BoundarySpec => []AnswersMatchTheDatabase
<1>1. BoundaryKept => AnswersMatchTheDatabase
  BY DEF BoundaryKept, BoundaryStage, Truth, AnswersMatchTheDatabase
<1> QED
  BY <1>1, KeptAlways, PTL

-----------------------------------------------------------------------------
(* TenantScope, for any number of chains, users and companies.             *)
(* TenantsAreIsolated is not inductive: what a handler may read next       *)
(* depends on the scopes it is inside of.  ScopesAreSound adds that every  *)
(* scope of a chain is one of the companies its work has a proof of, or    *)
(* the platform, that the platform's scopes lie below those of companies,  *)
(* and that an idle chain has none.                                        *)

\* The marks for no company are not companies.
MarksAreNoTenants == {System, Missing, NoCompany} \cap ScopeTenants = {}

Works ==
  [at : {"idle"}] \cup [at : {"handler"}, rights : SUBSET ScopeTenants, touched : SUBSET ScopeTenants]

\* The work of a chain fits the scopes it is inside of.
Fits(work, inside) ==
  /\ work \in Works
  /\ inside \in Seq(ScopeTenants \cup {System})
  /\ work.at = "idle" => inside = <<>>
  /\ work.at = "handler" =>
       /\ work.touched \subseteq work.rights
       /\ \A i \in 1..Len(inside) : inside[i] \in work.rights \cup {System}
  /\ \A i, j \in 1..Len(inside) : i < j /\ inside[j] = System => inside[i] = System

JobFits(job) ==
  /\ job.rights \in SUBSET ScopeTenants
  /\ job.tenant \in job.rights \cup {NoCompany}

ScopesAreSound ==
  /\ chain \in [Chains -> Works]
  /\ scopes \in [Chains -> Seq(ScopeTenants \cup {System})]
  /\ \A c \in Chains : Fits(chain[c], scopes[c])
  /\ \A job \in queue : JobFits(job)

-----------------------------------------------------------------------------

\* A chain whose work goes on to something that fits leaves the rest sound.
LEMMA GotoSound ==
  ASSUME ScopesAreSound, NEW c \in Chains, NEW work, NEW inside, Fits(work, inside),
         GotoScope(c, work, inside), queue' \in SUBSET queue
  PROVE  ScopesAreSound'
<1>1. /\ work \in Works /\ inside \in Seq(ScopeTenants \cup {System})
      /\ chain \in [Chains -> Works]
      /\ scopes \in [Chains -> Seq(ScopeTenants \cup {System})]
  BY DEF ScopesAreSound, Fits
<1>2. /\ chain' = [chain EXCEPT ![c] = work]
      /\ scopes' = [scopes EXCEPT ![c] = inside]
  BY DEF GotoScope
<1>3. /\ chain' \in [Chains -> Works]
      /\ scopes' \in [Chains -> Seq(ScopeTenants \cup {System})]
  BY <1>1, <1>2
<1>4. ASSUME NEW d \in Chains
      PROVE  Fits(chain'[d], scopes'[d])
  <2>1. CASE d = c
    <3>1. chain'[d] = work /\ scopes'[d] = inside
      BY <1>1, <1>2, <2>1
    <3> QED BY <3>1
  <2>2. CASE d # c
    <3>1. chain'[d] = chain[d] /\ scopes'[d] = scopes[d]
      BY <1>1, <1>2, <2>2
    <3>2. Fits(chain[d], scopes[d])
      BY DEF ScopesAreSound
    <3> QED BY <3>1, <3>2
  <2> QED BY <2>1, <2>2
<1>5. \A job \in queue' : JobFits(job)
  BY DEF ScopesAreSound
<1> QED BY <1>3, <1>4, <1>5 DEF ScopesAreSound

\* A scope inside the others: of a company with a proof, or of the platform where
\* every other is.
LEMMA EnterFits ==
  ASSUME NEW work, NEW inside, Fits(work, inside), work.at = "handler",
         NEW scope \in work.rights \cup {System},
         scope = System => \A i \in 1..Len(inside) : inside[i] = System
  PROVE  Fits(work, Append(inside, scope))
<1> DEFINE new == Append(inside, scope)
<1>1. /\ inside \in Seq(ScopeTenants \cup {System})
      /\ work \in Works
      /\ scope \in ScopeTenants \cup {System}
  BY DEF Fits, Works
<1>2. /\ new \in Seq(ScopeTenants \cup {System})
      /\ Len(new) = Len(inside) + 1 /\ Len(inside) \in Nat
      /\ \A i \in 1..Len(inside) : new[i] = inside[i]
      /\ new[Len(inside) + 1] = scope
  BY <1>1
<1>3. \A i \in 1..Len(new) : new[i] \in work.rights \cup {System}
  BY <1>2 DEF Fits
<1>4. ASSUME NEW i \in 1..Len(new), NEW j \in 1..Len(new), i < j, new[j] = System
      PROVE  new[i] = System
  <2>1. i \in 1..Len(inside)
    BY <1>2, <1>4
  <2>2. CASE j = Len(inside) + 1
    BY <1>2, <1>4, <2>1, <2>2
  <2>3. CASE j \in 1..Len(inside)
    BY <1>2, <1>4, <2>1, <2>3 DEF Fits
  <2> QED BY <1>2, <2>2, <2>3
<1> QED BY <1>1, <1>2, <1>3, <1>4 DEF Fits

\* What a working chain is scoped to, it has a proof of.
LEMMA ScopedIsProved ==
  ASSUME MarksAreNoTenants, ScopesAreSound, NEW c \in Chains, Working(c), Scoped(c)
  PROVE  Current(c) \in chain[c].rights
<1>1. scopes[c] # <<>> /\ Current(c) = scopes[c][Len(scopes[c])]
  BY DEF Scoped, Current, MarksAreNoTenants
<1>2. scopes[c] \in Seq(ScopeTenants \cup {System})
  BY DEF ScopesAreSound
<1>3. Len(scopes[c]) \in 1..Len(scopes[c])
  BY <1>1, <1>2
<1>4. Current(c) \in chain[c].rights \cup {System}
  BY <1>1, <1>3 DEF ScopesAreSound, Fits, Working
<1> QED BY <1>4 DEF Scoped, MarksAreNoTenants

\* A chain without a company is inside of nothing but the platform.
LEMMA UnscopedIsSystem ==
  ASSUME ScopesAreSound, NEW c \in Chains, Working(c), ~ Scoped(c)
  PROVE  \A i \in 1..Len(scopes[c]) : scopes[c][i] = System
<1> SUFFICES ASSUME NEW i \in 1..Len(scopes[c])
             PROVE  scopes[c][i] = System
  OBVIOUS
<1> DEFINE last == Len(scopes[c])
<1>1. scopes[c] \in Seq(ScopeTenants \cup {System})
  BY DEF ScopesAreSound
<1>2. last \in Nat /\ last \in 1..last /\ scopes[c] # <<>>
  BY <1>1
<1>3. scopes[c][last] = System
  <2>1. scopes[c][last] \in ScopeTenants \cup {System}
    BY <1>1, <1>2
  <2>2. scopes[c][last] \notin ScopeTenants
    BY <1>2 DEF Scoped, Current
  <2> QED BY <2>1, <2>2
<1>4. CASE i = last
  BY <1>3, <1>4
<1>5. CASE i < last
  BY <1>2, <1>3, <1>5 DEF ScopesAreSound, Fits
<1> QED BY <1>2, <1>4, <1>5

\* Work that touches the company of its scope still fits.
LEMMA TouchSound ==
  ASSUME MarksAreNoTenants, ScopesAreSound, NEW c \in Chains, Working(c), Scoped(c),
         chain' = [chain EXCEPT ![c] = Touch(c, Current(c))],
         UNCHANGED <<scopes, queue>>
  PROVE  ScopesAreSound'
<1> DEFINE work == Touch(c, Current(c))
<1>1. Current(c) \in chain[c].rights
  BY ScopedIsProved
<1>2. /\ chain[c] \in [at : {"handler"}, rights : SUBSET ScopeTenants, touched : SUBSET ScopeTenants]
      /\ chain[c].touched \subseteq chain[c].rights
  BY DEF ScopesAreSound, Works, Working, Fits
<1>3. /\ work \in [at : {"handler"}, rights : SUBSET ScopeTenants, touched : SUBSET ScopeTenants]
      /\ work.rights = chain[c].rights /\ work.touched \subseteq work.rights
  BY <1>1, <1>2 DEF Touch
<1>4. Fits(work, scopes[c])
  <2>1. Fits(chain[c], scopes[c])
    BY DEF ScopesAreSound
  <2> QED BY <1>2, <1>3, <2>1 DEF Fits, Works
<1>5. GotoScope(c, work, scopes[c])
  <2>1. scopes' = [scopes EXCEPT ![c] = scopes[c]]
    BY DEF ScopesAreSound
  <2> QED BY <2>1 DEF GotoScope
<1> HIDE DEF work
<1> QED BY <1>4, <1>5, GotoSound

-----------------------------------------------------------------------------

LEMMA InitSound == ScopeInit => ScopesAreSound
<1> SUFFICES ASSUME ScopeInit PROVE ScopesAreSound
  OBVIOUS
<1>1. chain \in [Chains -> Works] /\ scopes \in [Chains -> Seq(ScopeTenants \cup {System})]
  BY DEF ScopeInit, IdleChain, Works
<1>2. ASSUME NEW c \in Chains PROVE Fits(chain[c], scopes[c])
  BY DEF ScopeInit, IdleChain, Fits, Works
<1> QED BY <1>1, <1>2 DEF ScopeInit, ScopesAreSound

\* A handler that has only begun fits a single scope it has a proof of, or none.
LEMMA HandlerFits ==
  ASSUME NEW rights \in SUBSET ScopeTenants, NEW inside,
         inside = <<>> \/ \E scope \in rights \cup {System} : inside = <<scope>>
  PROVE  Fits(Handler(rights), inside)
<1>1. Handler(rights) \in Works /\ Handler(rights).at = "handler"
      /\ Handler(rights).rights = rights /\ Handler(rights).touched = {}
  BY DEF Handler, Works
<1>2. CASE inside = <<>>
  BY <1>1, <1>2 DEF Fits
<1>3. ASSUME NEW scope \in rights \cup {System}, inside = <<scope>>
      PROVE  Fits(Handler(rights), inside)
  <2>1. /\ inside \in Seq(ScopeTenants \cup {System}) /\ Len(inside) = 1
        /\ \A i \in 1..Len(inside) : i = 1 /\ inside[i] \in rights \cup {System}
    BY <1>3
  <2> QED BY <1>1, <2>1 DEF Fits
<1> QED BY <1>2, <1>3

LEMMA NextSound ==
  ASSUME MarksAreNoTenants, ScopesAreSound, [ScopeNext]_scopeVars
  PROVE  ScopesAreSound'
<1>1. CASE UNCHANGED scopeVars
  BY <1>1 DEF ScopesAreSound, scopeVars
<1>2. ASSUME NEW c \in Chains, RequestPlatform(c)
      PROVE  ScopesAreSound'
  <2>1. {} \in SUBSET ScopeTenants
    OBVIOUS
  <2>2. Fits(Handler({}), <<>>)
    BY <2>1, HandlerFits
  <2> QED BY <1>2, <2>2, GotoSound DEF RequestPlatform
<1>3. ASSUME NEW c \in Chains, NEW t \in ScopeTenants, NEW user \in ScopeUsers, RequestTenant(c, user, t)
      PROVE  ScopesAreSound'
  <2>1. {t} \in SUBSET ScopeTenants /\ t \in {t} \cup {System}
    OBVIOUS
  <2>2. Fits(Handler({t}), <<t>>)
    BY <2>1, HandlerFits
  <2> QED BY <1>3, <2>2, GotoSound DEF RequestTenant
<1>4. ASSUME NEW c \in Chains, NEW job \in queue, RunJob(c, job)
      PROVE  ScopesAreSound'
  <2> DEFINE inside == IF job.tenant = NoCompany THEN <<System>> ELSE <<job.tenant>>
  <2>1. job.rights \in SUBSET ScopeTenants /\ job.tenant \in job.rights \cup {NoCompany}
    BY DEF ScopesAreSound, JobFits
  <2>2. \E scope \in job.rights \cup {System} : inside = <<scope>>
    BY <2>1
  <2> HIDE DEF inside
  <2>3. Fits(Handler(job.rights), inside)
    BY <2>1, <2>2, HandlerFits
  <2>4. GotoScope(c, Handler(job.rights), inside) /\ queue' \in SUBSET queue
    BY <1>4 DEF RunJob, inside
  <2> QED BY <2>3, <2>4, GotoSound
<1>5. ASSUME NEW c \in Chains, RunAsSystem(c)
      PROVE  ScopesAreSound'
  <2>1. Working(c) /\ ~ Scoped(c) /\ Fits(chain[c], scopes[c])
    BY <1>5 DEF RunAsSystem, ScopesAreSound
  <2>2. Fits(chain[c], Append(scopes[c], System))
    BY <2>1, UnscopedIsSystem, EnterFits DEF Working
  <2> QED BY <1>5, <2>2, GotoSound DEF RunAsSystem, Enter
<1>6. ASSUME NEW c \in Chains, NEW t \in ScopeTenants, EnterNewTenant(c, t)
      PROVE  ScopesAreSound'
  <2> DEFINE work == [chain[c] EXCEPT !.rights = @ \cup {t}]
  <2>1. Working(c) /\ Fits(chain[c], scopes[c])
    BY <1>6 DEF EnterNewTenant, ScopesAreSound
  <2>2. chain[c] \in [at : {"handler"}, rights : SUBSET ScopeTenants, touched : SUBSET ScopeTenants]
    BY <2>1 DEF Fits, Works, Working
  <2>3. /\ work \in [at : {"handler"}, rights : SUBSET ScopeTenants, touched : SUBSET ScopeTenants]
        /\ work.rights = chain[c].rights \cup {t} /\ work.touched = chain[c].touched
        /\ work.at = "handler"
    BY <2>2
  <2>4. Fits(work, scopes[c])
    BY <2>1, <2>2, <2>3 DEF Fits, Works, Working
  <2>5. Fits(work, Append(scopes[c], t))
    BY <2>3, <2>4, EnterFits DEF MarksAreNoTenants
  <2>6. GotoScope(c, work, Append(scopes[c], t)) /\ queue' \in SUBSET queue
    BY <1>6 DEF EnterNewTenant, Enter
  <2> QED BY <2>5, <2>6, GotoSound
<1>7. ASSUME NEW c \in Chains, RunAgain(c)
      PROVE  ScopesAreSound'
  <2>1. Working(c) /\ Scoped(c) /\ Fits(chain[c], scopes[c])
    BY <1>7 DEF RunAgain, ScopesAreSound
  <2>2. Current(c) \in chain[c].rights /\ Current(c) # System
    BY <2>1, ScopedIsProved DEF Scoped, MarksAreNoTenants
  <2>3. Fits(chain[c], Append(scopes[c], Current(c)))
    BY <2>1, <2>2, EnterFits DEF Working
  <2> QED BY <1>7, <2>3, GotoSound DEF RunAgain, Enter
<1>8. ASSUME NEW c \in Chains, LeaveScope(c)
      PROVE  ScopesAreSound'
  <2> DEFINE inside == SubSeq(scopes[c], 1, Len(scopes[c]) - 1)
  <2>1. Working(c) /\ Fits(chain[c], scopes[c]) /\ scopes[c] # <<>>
    BY <1>8 DEF LeaveScope, ScopesAreSound
  <2>2. scopes[c] \in Seq(ScopeTenants \cup {System}) /\ Len(scopes[c]) \in Nat \ {0}
    BY <2>1 DEF Fits
  <2>3. /\ inside \in Seq(ScopeTenants \cup {System}) /\ Len(inside) = Len(scopes[c]) - 1
        /\ \A i \in 1..Len(inside) : inside[i] = scopes[c][i]
    BY <2>2
  <2>4. GotoScope(c, chain[c], inside) /\ queue' \in SUBSET queue
    BY <1>8 DEF LeaveScope
  <2> HIDE DEF inside
  <2>5. \A i \in 1..Len(inside) : i \in 1..Len(scopes[c])
    BY <2>2, <2>3
  <2>6. \A i \in 1..Len(inside) : inside[i] \in chain[c].rights \cup {System}
    BY <2>1, <2>3, <2>5 DEF Fits, Working
  <2>7. ASSUME NEW i \in 1..Len(inside), NEW j \in 1..Len(inside), i < j, inside[j] = System
        PROVE  inside[i] = System
    <3>1. inside[i] = scopes[c][i] /\ inside[j] = scopes[c][j]
      BY <2>3
    <3>2. i \in 1..Len(scopes[c]) /\ j \in 1..Len(scopes[c])
      BY <2>5
    <3> QED BY <2>1, <2>7, <3>1, <3>2 DEF Fits
  <2>8. Fits(chain[c], inside)
    BY <2>1, <2>3, <2>6, <2>7 DEF Fits, Working
  <2> QED BY <2>4, <2>8, GotoSound
<1>9. ASSUME NEW c \in Chains, NEW row \in Rows, GetOrUpdate(c, row)
      PROVE  ScopesAreSound'
  BY <1>9, TouchSound DEF GetOrUpdate
<1>10. ASSUME NEW c \in Chains, NEW t \in ScopeTenants, Find(c, t)
       PROVE  ScopesAreSound'
  BY <1>10, TouchSound DEF Find, Scoped
<1>11. ASSUME NEW c \in Chains, NEW row \in Rows, NEW t \in ScopeTenants, Add(c, row, t)
       PROVE  ScopesAreSound'
  BY <1>11, TouchSound DEF Add, Scoped
<1>12. ASSUME NEW c \in Chains, Audit(c)
       PROVE  ScopesAreSound'
  <2>1. CASE Scoped(c)
    BY <1>12, <2>1, TouchSound DEF Audit
  <2>2. CASE ~ Scoped(c)
    <3>1. chain' = chain
      BY <1>12, <2>2 DEF Audit, ScopesAreSound
    <3> QED BY <1>12, <3>1 DEF Audit, ScopesAreSound
  <2> QED BY <2>1, <2>2
<1>13. ASSUME NEW c \in Chains, Enqueue(c)
       PROVE  ScopesAreSound'
  <2> DEFINE job == [tenant |-> IF Scoped(c) THEN Current(c) ELSE NoCompany,
                     rights |-> chain[c].rights]
  <2>1. Working(c) /\ queue' = queue \cup {job}
    BY <1>13 DEF Enqueue
  <2>2. chain[c].rights \in SUBSET ScopeTenants
    BY <2>1 DEF ScopesAreSound, Works, Working
  <2>3. JobFits(job)
    BY <2>1, <2>2, ScopedIsProved DEF JobFits
  <2> QED BY <1>13, <2>1, <2>3 DEF Enqueue, ScopesAreSound
<1>14. ASSUME NEW c \in Chains, FinishWork(c)
       PROVE  ScopesAreSound'
  <2>1. Fits(IdleChain, <<>>)
    BY DEF Fits, IdleChain, Works
  <2> QED BY <1>14, <2>1, GotoSound DEF FinishWork
<1>15. ASSUME NEW t \in ScopeTenants \cup {NoCompany}, Schedule(t)
       PROVE  ScopesAreSound'
  <2>1. JobFits([tenant |-> t, rights |-> {t} \ {NoCompany}])
    BY DEF JobFits
  <2> QED BY <1>15, <2>1 DEF Schedule, ScopesAreSound
<1> QED
  BY <1>1, <1>2, <1>3, <1>4, <1>5, <1>6, <1>7, <1>8, <1>9, <1>10, <1>11, <1>12,
     <1>13, <1>14, <1>15 DEF ScopeNext

LEMMA SoundIsIsolated == ASSUME ScopesAreSound PROVE TenantsAreIsolated
<1>1. \A c \in Chains : Working(c) => chain[c].touched \subseteq chain[c].rights
  BY DEF ScopesAreSound, Fits, Working
<1>2. \A job \in queue : job.tenant \in job.rights \cup {NoCompany}
  BY DEF ScopesAreSound, JobFits
<1>3. ASSUME NEW c \in Chains, NEW i \in DOMAIN scopes[c], NEW j \in DOMAIN scopes[c],
             i < j, scopes[c][j] = System
      PROVE  scopes[c][i] = System
  <2>1. DOMAIN scopes[c] = 1..Len(scopes[c])
    BY DEF ScopesAreSound
  <2> QED BY <1>3, <2>1 DEF ScopesAreSound, Fits
<1> QED BY <1>1, <1>2, <1>3 DEF TenantsAreIsolated

\* Whatever chains overlap and however deep their scopes nest, work reads, writes and
\* hands on nothing of a company it had no proof of.
THEOREM TenantsStayApart == ASSUME MarksAreNoTenants PROVE ScopeSpec => []TenantsAreIsolated
<1>1. ScopeInit => ScopesAreSound
  BY InitSound
<1>2. ScopesAreSound /\ [ScopeNext]_scopeVars => ScopesAreSound'
  BY NextSound
<1>3. ScopesAreSound => TenantsAreIsolated
  BY SoundIsIsolated
<1> QED BY <1>1, <1>2, <1>3, PTL DEF ScopeSpec

-----------------------------------------------------------------------------
(* RateLimiter, for any number of requests and subjects, any limit and any *)
(* window.  A key counts what is consumed while it lives, which is up to a *)
(* window; so of the units of one window, those younger than the key are   *)
(* no more than its limit, and the older ones no more than the limit of    *)
(* the key before it.  A budget says how many units of each age and below  *)
(* there may be; it is what the counts leave of the past.                  *)

Refusals == [reset : Int, lives : Int]

Gates ==
  [at : {"idle", "handled"}] \cup [at : {"refused"}, told : SUBSET Refusals]
    \cup [at : {"guarded"}, todo : Seq(Subjects) \ {<<>>},
          units : SUBSET (Subjects \X Ages), refusal : SUBSET Refusals]

GuardTypeOK ==
  /\ LimiterTypeOK
  /\ guard \in [Attempts -> Gates]
  /\ recent \in [Subjects -> [Ages -> Nat]]

\* A request that may still be handled, and the units it holds.
Hopeful(r) == Standing(r) = "guarded" /\ guard[r].refusal = {}
Holders(s, age) == {r \in Attempts : Hopeful(r) /\ <<s, age>> \in guard[r].units}

\* The units of a subject by age: of requests handled, and of those that may be.
Share(s, age) == recent[s][age] + Cardinality(Holders(s, age))

\* The ages of the units that the key of a subject has counted are below this.
Born(s) == IF counter[s] = 0 THEN 0 ELSE Window - left[s] + 1

Budgets == [0..Window -> Nat]

\* At most budget[n] units of the subject are younger than n.
Covers(budget, s) ==
  budget[0] = 0 /\ \A n \in Ages : budget[n] + Share(s, n) <= budget[n + 1]

Affordable(budget, s) ==
  /\ Covers(budget, s)
  /\ budget[Born(s)] <= counter[s] /\ budget[Born(s)] <= Limit
  /\ budget[Window] <= budget[Born(s)] + Limit
  /\ counter[s] = 0 => budget[1] = 0

Budgeted ==
  GuardTypeOK /\ \A s \in Subjects : \E budget \in Budgets : Affordable(budget, s)

-----------------------------------------------------------------------------

LEMMA LimiterNumbers ==
  /\ Limit \in Nat /\ Limit >= 1 /\ Window \in Nat /\ Window >= 1
  /\ 0 \in Ages /\ Window - 1 \in Ages
  /\ \A n \in Ages : n \in Nat /\ n + 1 \in 1..Window /\ n \in 0..Window
BY LimiterConstants DEF Ages

\* The least-number principle, from the well-founded order of the numbers.
LEMMA LeastElement ==
  ASSUME NEW T \in SUBSET Nat, T # {}
  PROVE  \E x \in T : \A y \in T : x <= y
<1>1. PICK less : /\ IsWellFoundedOn(less, Nat)
                  /\ \A x, y \in Nat : y < x => <<y, x>> \in less
  <2> DEFINE Less == OpToRel(<, Nat)
  <2>1. IsWellFoundedOn(Less, Nat)
    BY NatLessThanWellFounded
  <2>2. \A x, y \in Nat : y < x => <<y, x>> \in Less
    BY DEF OpToRel
  <2> HIDE DEF Less
  <2> QED
    BY <2>1, <2>2
<1>2. PICK x \in T : \A y \in T : ~ (<<y, x>> \in less)
  BY <1>1, WFMin
<1>3. \A y \in T : ~ (y < x)
  BY <1>1, <1>2
<1>4. \A y \in T : x <= y
  <2> TAKE y \in T
  <2>1. x \in Nat /\ y \in Nat
    OBVIOUS
  <2> QED
    BY <1>3, <2>1
<1> QED
  BY <1>4

\* The counts of every age have a sum: the function that Total chooses exists.
LEMMA SumsExist ==
  ASSUME NEW counts \in [Ages -> Nat]
  PROVE  \E f : f = [n \in 0..Window |-> IF n = 0 THEN 0 ELSE f[n - 1] + counts[n - 1]]
<1> DEFINE Sums(f, m) ==
      f = [n \in 0..m |-> IF n = 0 THEN 0 ELSE f[n - 1] + counts[n - 1]]
           Unsummed == {m \in 0..Window : ~ \E f : Sums(f, m)}
<1>1. ASSUME Unsummed # {} PROVE FALSE
  <2>1. Unsummed \in SUBSET Nat
    BY LimiterNumbers
  <2>2. PICK m \in Unsummed : \A n \in Unsummed : m <= n
    BY <1>1, <2>1, LeastElement
  <2>3. m \in Nat /\ m \in 0..Window /\ ~ \E f : Sums(f, m)
    BY <2>1, <2>2
  <2>4. m # 0
    <3>1. Sums([n \in 0..0 |-> 0], 0)
      OBVIOUS
    <3> QED
      BY <2>3, <3>1
  <2>5. m - 1 \in 0..Window /\ m - 1 \notin Unsummed
    <3>1. m - 1 \in 0..Window /\ m - 1 \in Nat /\ ~ (m <= m - 1)
      BY <2>3, <2>4, LimiterNumbers
    <3> HIDE DEF Unsummed
    <3> QED
      BY <2>2, <3>1
  <2>6. PICK g : Sums(g, m - 1)
    BY <2>5
  <2>7. \A n \in 0..(m - 1) : g[n] = IF n = 0 THEN 0 ELSE g[n - 1] + counts[n - 1]
    BY <2>6
  <2> DEFINE f == [n \in 0..m |-> IF n = m THEN g[m - 1] + counts[m - 1] ELSE g[n]]
  <2>8. \A n \in 0..m : f[n] = IF n = 0 THEN 0 ELSE f[n - 1] + counts[n - 1]
    <3> SUFFICES ASSUME NEW n \in 0..m
                 PROVE  f[n] = IF n = 0 THEN 0 ELSE f[n - 1] + counts[n - 1]
      OBVIOUS
    <3>1. n # 0 => n - 1 \in 0..m /\ n - 1 # m
      BY <2>3
    <3>2. n # m => n \in 0..(m - 1)
      BY <2>3
    <3> QED
      BY <2>4, <2>7, <3>1, <3>2
  <2>9. Sums(f, m)
    BY <2>8
  <2> QED
    BY <2>3, <2>9
<1>2. Window \in 0..Window
  BY LimiterNumbers
<1> QED
  BY <1>1, <1>2

\* What a budget covers is no more than the budget.
LEMMA TotalIsCovered ==
  ASSUME NEW counts \in [Ages -> Nat], NEW budget \in Budgets, budget[0] = 0,
         \A n \in Ages : budget[n] + counts[n] <= budget[n + 1]
  PROVE  Total(counts) \in Nat /\ Total(counts) <= budget[Window]
<1> DEFINE Sums(f) == f = [n \in 0..Window |-> IF n = 0 THEN 0 ELSE f[n - 1] + counts[n - 1]]
           upto == CHOOSE f : Sums(f)
<1>1. Sums(upto)
  BY SumsExist
<1>2. Total(counts) = upto[Window]
  BY DEF Total
<1> HIDE DEF upto
<1>3. \A n \in 0..Window : upto[n] = IF n = 0 THEN 0 ELSE upto[n - 1] + counts[n - 1]
  BY <1>1
<1> DEFINE Over == {n \in 0..Window : ~ (upto[n] \in Nat /\ upto[n] <= budget[n])}
<1>4. ASSUME Over # {} PROVE FALSE
  <2>1. Over \in SUBSET Nat
    BY LimiterNumbers
  <2>2. PICK m \in Over : \A n \in Over : m <= n
    BY <1>4, <2>1, LeastElement
  <2>3. m \in Nat /\ m \in 0..Window /\ ~ (upto[m] \in Nat /\ upto[m] <= budget[m])
    BY <2>1, <2>2
  <2>4. m # 0
    BY <1>3, <2>3 DEF Budgets
  <2>5. m - 1 \in 0..Window /\ m - 1 \in Ages /\ m - 1 \notin Over /\ (m - 1) + 1 = m
    BY <2>2, <2>3, <2>4, LimiterNumbers DEF Ages
  <2>6. upto[m - 1] \in Nat /\ upto[m - 1] <= budget[m - 1]
    BY <2>5
  <2>7. budget[m - 1] + counts[m - 1] <= budget[m] /\ counts[m - 1] \in Nat
    BY <2>5
  <2>8. budget[m - 1] \in Nat /\ budget[m] \in Nat
    BY <2>3, <2>5 DEF Budgets
  <2>9. upto[m] = upto[m - 1] + counts[m - 1]
    BY <1>3, <2>3, <2>4
  <2> QED
    BY <2>3, <2>6, <2>7, <2>8, <2>9
<1>5. Window \in 0..Window
  BY LimiterNumbers
<1> QED
  BY <1>2, <1>4, <1>5

-----------------------------------------------------------------------------

LEMMA HoldersAreFinite ==
  ASSUME NEW s, NEW age
  PROVE  IsFiniteSet(Holders(s, age)) /\ Cardinality(Holders(s, age)) \in Nat
<1>1. Holders(s, age) \subseteq Attempts
  BY DEF Holders
<1> QED
  BY <1>1, LimiterConstants, FS_Subset, FS_CardinalityType

LEMMA ShareIsNat ==
  ASSUME GuardTypeOK, NEW s \in Subjects, NEW age \in Ages
  PROVE  Share(s, age) \in Nat /\ recent[s][age] \in Nat /\ recent[s][age] <= Share(s, age)
<1>1. recent[s][age] \in Nat
  BY DEF GuardTypeOK
<1> QED
  BY <1>1, HoldersAreFinite DEF Share

SharesAreNat == \A s \in Subjects, age \in Ages : Share(s, age) \in Nat

LEMMA SharesCount == GuardTypeOK => SharesAreNat
BY ShareIsNat DEF SharesAreNat

\* What a guarded request carries.
LEMMA GuardedGate ==
  ASSUME GuardTypeOK, NEW r \in Attempts, Standing(r) = "guarded"
  PROVE  /\ guard[r] \in [at : {"guarded"}, todo : Seq(Subjects) \ {<<>>},
                          units : SUBSET (Subjects \X Ages), refusal : SUBSET Refusals]
         /\ Head(guard[r].todo) \in Subjects /\ Tail(guard[r].todo) \in Seq(Subjects)
<1>1. guard[r] \in [at : {"guarded"}, todo : Seq(Subjects) \ {<<>>},
                    units : SUBSET (Subjects \X Ages), refusal : SUBSET Refusals]
  BY DEF GuardTypeOK, Gates, Standing
<1> QED
  BY <1>1, HeadTailProperties

\* A decision about one request adds at most the unit it was about, and that only
\* if it did not refuse.
LEMMA DecidedShare ==
  ASSUME GuardTypeOK, NEW r \in Attempts, Standing(r) = "guarded",
         NEW units, guard[r].units \subseteq units, units \subseteq Subjects \X Ages,
         NEW refusal \in SUBSET Refusals, Decided(r, units, refusal)
  PROVE  /\ guard' \in [Attempts -> Gates] /\ recent' \in [Subjects -> [Ages -> Nat]]
         /\ \A s \in Subjects, age \in Ages :
              Share(s, age)' <= IF refusal = {} /\ <<s, age>> \in units \ guard[r].units
                                  THEN Share(s, age) + 1 ELSE Share(s, age)
<1> DEFINE refused == IF guard[r].refusal = {} THEN refusal ELSE guard[r].refusal
           todo == Tail(guard[r].todo)
           gate == IF todo # <<>>
                     THEN [guard[r] EXCEPT !.todo = todo, !.units = units, !.refusal = refused]
                   ELSE IF refused = {} THEN [at |-> "handled"]
                   ELSE [at |-> "refused", told |-> refused]
           Handled(s, age) == todo = <<>> /\ refused = {} /\ <<s, age>> \in units
<1>1. /\ guard' = [guard EXCEPT ![r] = gate]
      /\ recent' = [s \in Subjects |-> [age \in Ages |->
                      recent[s][age] + (IF Handled(s, age) THEN 1 ELSE 0)]]
  BY DEF Decided
<1>2. /\ guard[r] \in [at : {"guarded"}, todo : Seq(Subjects) \ {<<>>},
                       units : SUBSET (Subjects \X Ages), refusal : SUBSET Refusals]
      /\ todo \in Seq(Subjects)
  BY GuardedGate
<1>3. refused \in SUBSET Refusals
  BY <1>2
<1>4. /\ gate \in Gates
      /\ gate.at = "guarded" <=> todo # <<>>
      /\ todo # <<>> => gate.units = units /\ gate.refusal = refused
  <2> HIDE DEF refused, todo
  <2>1. CASE todo # <<>>
    <3>1. [guard[r] EXCEPT !.todo = todo, !.units = units, !.refusal = refused]
            \in [at : {"guarded"}, todo : Seq(Subjects) \ {<<>>},
                 units : SUBSET (Subjects \X Ages), refusal : SUBSET Refusals]
      BY <1>2, <1>3, <2>1
    <3> QED
      BY <1>2, <2>1, <3>1 DEF Gates
  <2>2. CASE todo = <<>>
    BY <1>3, <2>2 DEF Gates
  <2> QED
    BY <2>1, <2>2
<1>5. (refused = {}) <=> (refusal = {} /\ guard[r].refusal = {})
  OBVIOUS
<1> HIDE DEF gate, todo, refused
<1>6. guard' \in [Attempts -> Gates]
  BY <1>1, <1>4 DEF GuardTypeOK
<1>7. recent' \in [Subjects -> [Ages -> Nat]]
  <2> HIDE DEF Handled
  <2>1. \A s \in Subjects, age \in Ages :
          recent[s][age] + (IF Handled(s, age) THEN 1 ELSE 0) \in Nat
    BY DEF GuardTypeOK
  <2> QED
    BY <1>1, <2>1
<1>8. ASSUME NEW s \in Subjects, NEW age \in Ages
      PROVE  Share(s, age)' <= IF refusal = {} /\ <<s, age>> \in units \ guard[r].units
                                 THEN Share(s, age) + 1 ELSE Share(s, age)
  <2> DEFINE old == Holders(s, age)
             new == Holders(s, age)'
             mine == <<s, age>> \in units
  <2>1. /\ IsFiniteSet(old) /\ Cardinality(old) \in Nat
        /\ Cardinality(old \cup {r}) = IF r \in old THEN Cardinality(old) ELSE Cardinality(old) + 1
        /\ Cardinality(old \ {r}) = IF r \in old THEN Cardinality(old) - 1 ELSE Cardinality(old)
    BY HoldersAreFinite, FS_AddElement, FS_RemoveElement
  <2>2. /\ recent[s][age] \in Nat
        /\ recent'[s][age] = IF Handled(s, age) THEN recent[s][age] + 1 ELSE recent[s][age]
    BY <1>1 DEF GuardTypeOK
  <2>3. \A q \in Attempts \ {r} : q \in new <=> q \in old
    BY <1>1 DEF GuardTypeOK, Holders, Hopeful, Standing
  <2>4. r \in old <=> guard[r].refusal = {} /\ <<s, age>> \in guard[r].units
    BY DEF Holders, Hopeful
  <2>5. r \in new <=> todo # <<>> /\ refused = {} /\ mine
    <3>1. guard'[r] = gate
      BY <1>1 DEF GuardTypeOK
    <3> QED
      BY <1>4, <3>1 DEF Holders, Hopeful, Standing
  <2>6. new \subseteq Attempts /\ old \subseteq Attempts
    BY DEF Holders
  <2>7. /\ Share(s, age) = recent[s][age] + Cardinality(old)
        /\ Share(s, age)' = recent'[s][age] + Cardinality(new)
    BY DEF Share
  <2> HIDE DEF old, new
  <2>8. CASE r \in new
    <3>1. new = old \cup {r} /\ ~ Handled(s, age)
      BY <2>3, <2>5, <2>6, <2>8
    <3>2. r \in old \/ (refusal = {} /\ <<s, age>> \in units \ guard[r].units)
      BY <1>5, <2>4, <2>5, <2>8
    <3> QED
      BY <2>1, <2>2, <2>7, <3>1, <3>2
  <2>9. CASE r \notin new
    <3>1. new = old \ {r}
      BY <2>3, <2>6, <2>9
    <3>2. CASE Handled(s, age)
      <4>1. r \in old \/ (refusal = {} /\ <<s, age>> \in units \ guard[r].units)
        BY <1>5, <2>4, <3>2
      <4> QED
        BY <2>1, <2>2, <2>7, <3>1, <3>2, <4>1
    <3>3. CASE ~ Handled(s, age)
      BY <2>1, <2>2, <2>7, <3>1, <3>3
    <3> QED
      BY <3>2, <3>3
  <2> QED
    BY <2>8, <2>9
<1> QED
  BY <1>6, <1>7, <1>8

-----------------------------------------------------------------------------

\* The types of the keys, and what one unit does to its key.
LEMMA KeyTypes ==
  ASSUME LimiterTypeOK, NEW s \in Subjects
  PROVE  /\ counter[s] \in Nat /\ counter[s] <= Limit + 1
         /\ left[s] \in Nat /\ left[s] <= Window
         /\ counter[s] = 0 <=> left[s] = 0
         /\ Born(s) \in 0..Window /\ (counter[s] # 0 => Born(s) >= 1)
<1>1. /\ counter[s] \in 0..Limit + 1 /\ left[s] \in 0..Window
      /\ counter[s] = 0 <=> left[s] = 0
  BY DEF LimiterTypeOK
<1> QED
  BY <1>1, LimiterNumbers DEF Born

LEMMA CountOne ==
  ASSUME LimiterTypeOK, NEW s \in Subjects, Count(s), phase' = phase
  PROVE  /\ LimiterTypeOK'
         /\ counter'[s] = IF counter[s] > Limit THEN counter[s] ELSE counter[s] + 1
         /\ left'[s] = IF counter[s] = 0 THEN Window ELSE left[s]
         /\ \A u \in Subjects \ {s} : counter'[u] = counter[u] /\ left'[u] = left[u]
<1>1. /\ counter'[s] = IF counter[s] > Limit THEN counter[s] ELSE counter[s] + 1
      /\ left'[s] = IF counter[s] = 0 THEN Window ELSE left[s]
      /\ \A u \in Subjects \ {s} : counter'[u] = counter[u] /\ left'[u] = left[u]
  BY DEF Count, LimiterTypeOK
<1>2. counter'[s] \in 0..Limit + 1 /\ left'[s] \in 0..Window
  BY <1>1, KeyTypes, LimiterNumbers
<1>3. counter'[s] # 0 /\ left'[s] # 0
  BY <1>1, KeyTypes, LimiterNumbers
<1>4. counter' \in [Subjects -> 0..Limit + 1] /\ left' \in [Subjects -> 0..Window]
  BY <1>1, <1>2 DEF Count, LimiterTypeOK
<1> QED
  BY <1>1, <1>3, <1>4 DEF LimiterTypeOK

\* What a budget says, in numbers.
LEMMA BudgetNumbers ==
  ASSUME GuardTypeOK, NEW s \in Subjects, NEW budget \in Budgets, Affordable(budget, s)
  PROVE  /\ \A n \in 0..Window : budget[n] \in Nat
         /\ \A n \in Ages : budget[n] <= budget[n + 1]
         /\ budget[0] = 0 /\ Limit \in Nat
<1>1. \A n \in 0..Window : budget[n] \in Nat
  BY DEF Budgets
<1>2. \A n \in Ages : budget[n] + Share(s, n) <= budget[n + 1] /\ n \in 0..Window
                      /\ n + 1 \in 0..Window
  BY LimiterNumbers DEF Affordable, Covers
<1>3. \A n \in Ages : budget[n] <= budget[n + 1]
  BY <1>1, <1>2, ShareIsNat
<1> QED
  BY <1>1, <1>3, LimiterNumbers DEF Affordable, Covers

\* Where no unit is added the budget stays, whether the key has counted or not.
LEMMA KeepAffordable ==
  ASSUME GuardTypeOK, LimiterTypeOK', NEW s \in Subjects,
         NEW budget \in Budgets, Affordable(budget, s),
         \A age \in Ages : Share(s, age)' \in Nat /\ Share(s, age)' <= Share(s, age),
         \/ counter'[s] = counter[s] /\ left'[s] = left[s]
         \/ /\ counter'[s] = IF counter[s] > Limit THEN counter[s] ELSE counter[s] + 1
            /\ left'[s] = IF counter[s] = 0 THEN Window ELSE left[s]
  PROVE  Affordable(budget, s)'
<1>1. /\ \A n \in 0..Window : budget[n] \in Nat
      /\ budget[0] = 0 /\ Limit \in Nat
      /\ \A n \in Ages : n + 1 \in 0..Window /\ n \in 0..Window
  BY BudgetNumbers, LimiterNumbers
<1>2. Covers(budget, s)'
  <2> SUFFICES ASSUME NEW n \in Ages
               PROVE  budget[n] + Share(s, n)' <= budget[n + 1]
    BY <1>1 DEF Covers, Ages
  <2>1. budget[n] + Share(s, n) <= budget[n + 1] /\ Share(s, n) \in Nat
    BY ShareIsNat DEF Affordable, Covers
  <2> QED
    BY <1>1, <2>1
<1>3. /\ Born(s)' = IF counter'[s] = 0 THEN 0 ELSE Window - left'[s] + 1
      /\ Born(s) = IF counter[s] = 0 THEN 0 ELSE Window - left[s] + 1
  BY DEF Born
<1>4. /\ counter[s] \in Nat /\ left[s] \in Nat /\ Born(s) \in 0..Window
      /\ budget[Born(s)] <= counter[s] /\ budget[Born(s)] <= Limit
      /\ budget[Window] <= budget[Born(s)] + Limit
      /\ counter[s] = 0 => budget[1] = 0
  BY KeyTypes DEF GuardTypeOK, Affordable
<1>5. CASE counter[s] = 0 /\ counter'[s] # 0
  <2>1. counter'[s] = 1 /\ Born(s)' = 1 /\ Born(s) = 0 /\ budget[1] = 0
    BY <1>3, <1>4, <1>5, LimiterNumbers
  <2> QED
    BY <1>1, <1>2, <1>4, <2>1 DEF Affordable
<1>6. CASE ~ (counter[s] = 0 /\ counter'[s] # 0)
  <2>1. counter'[s] \in Nat /\ counter'[s] >= counter[s] /\ Born(s)' = Born(s)
        /\ (counter'[s] = 0 => counter[s] = 0)
    BY <1>1, <1>3, <1>4, <1>6
  <2>2. budget[Born(s)] <= counter'[s]
    BY <1>1, <1>4, <2>1
  <2> QED
    BY <1>2, <1>4, <2>1, <2>2 DEF Affordable
<1> QED
  BY <1>5, <1>6

\* A unit that is counted within the limit raises the budget of every age by one.
LEMMA SpendAffordable ==
  ASSUME GuardTypeOK, NEW s \in Subjects, NEW budget \in Budgets, Affordable(budget, s),
         \A age \in Ages : /\ Share(s, age)' \in Nat
                           /\ Share(s, age)' <= IF age = 0 THEN Share(s, age) + 1
                                                ELSE Share(s, age),
         counter'[s] = IF counter[s] > Limit THEN counter[s] ELSE counter[s] + 1,
         left'[s] = IF counter[s] = 0 THEN Window ELSE left[s],
         counter'[s] <= Limit
  PROVE  \E raised \in Budgets : Affordable(raised, s)'
<1> DEFINE raised == [n \in 0..Window |-> IF n = 0 THEN 0 ELSE budget[n] + 1]
<1>1. /\ \A n \in 0..Window : budget[n] \in Nat
      /\ budget[0] = 0 /\ Limit \in Nat
      /\ \A n \in Ages : n + 1 \in 0..Window /\ n \in 0..Window /\ n + 1 # 0
  BY BudgetNumbers, LimiterNumbers
<1>2. raised \in Budgets
  BY <1>1 DEF Budgets
<1>3. \A n \in 0..Window : raised[n] = IF n = 0 THEN 0 ELSE budget[n] + 1
  OBVIOUS
<1> HIDE DEF raised
<1>4. Covers(raised, s)'
  <2>1. raised[0] = 0
    BY <1>3, LimiterNumbers
  <2> SUFFICES ASSUME NEW n \in Ages
               PROVE  raised[n] + Share(s, n)' <= raised[n + 1]
    BY <2>1 DEF Covers, Ages
  <2>2. budget[n] + Share(s, n) <= budget[n + 1] /\ Share(s, n) \in Nat
    BY ShareIsNat DEF Affordable, Covers
  <2>3. raised[n + 1] = budget[n + 1] + 1
    BY <1>1, <1>3
  <2>4. CASE n = 0
    BY <1>1, <2>1, <2>2, <2>3, <2>4
  <2>5. CASE n # 0
    <3>1. raised[n] = budget[n] + 1
      BY <1>1, <1>3, <2>5
    <3> QED
      BY <1>1, <2>2, <2>3, <2>5, <3>1
  <2> QED
    BY <2>4, <2>5
<1>5. /\ counter[s] \in Nat /\ left[s] \in Nat /\ Born(s) \in 0..Window
      /\ budget[Born(s)] <= counter[s] /\ budget[Born(s)] <= Limit
      /\ budget[Window] <= budget[Born(s)] + Limit
      /\ counter[s] = 0 => budget[1] = 0
      /\ counter[s] # 0 => Born(s) >= 1
  BY KeyTypes DEF GuardTypeOK, Affordable
<1>6. counter'[s] = counter[s] + 1 /\ counter[s] + 1 <= Limit
  BY <1>1, <1>5
<1>7. /\ Born(s)' = IF counter'[s] = 0 THEN 0 ELSE Window - left'[s] + 1
      /\ Born(s) = IF counter[s] = 0 THEN 0 ELSE Window - left[s] + 1
  BY DEF Born
<1>8. raised[Window] = budget[Window] + 1
  BY <1>3, LimiterNumbers
<1>9. CASE counter[s] = 0
  <2>1. Born(s)' = 1 /\ Born(s) = 0
    BY <1>6, <1>7, <1>9, LimiterNumbers
  <2>2. raised[1] = 1
    BY <1>3, <1>5, <1>9, LimiterNumbers
  <2>3. budget[Window] <= Limit /\ budget[Window] \in Nat
    BY <1>1, <1>5, <2>1, LimiterNumbers
  <2>4. Affordable(raised, s)'
    BY <1>1, <1>4, <1>6, <1>8, <1>9, <2>1, <2>2, <2>3 DEF Affordable
  <2> QED
    BY <1>2, <2>4
<1>10. CASE counter[s] # 0
  <2>1. Born(s)' = Born(s) /\ raised[Born(s)] = budget[Born(s)] + 1
        /\ budget[Born(s)] \in Nat /\ budget[Window] \in Nat
    BY <1>1, <1>3, <1>5, <1>6, <1>7, <1>10, LimiterNumbers
  <2>2. Affordable(raised, s)'
    BY <1>1, <1>4, <1>5, <1>6, <1>8, <1>10, <2>1 DEF Affordable
  <2> QED
    BY <1>2, <2>2
<1> QED
  BY <1>9, <1>10

-----------------------------------------------------------------------------

LEMMA InitBudgeted == LimiterInit => Budgeted
<1> SUFFICES ASSUME LimiterInit PROVE Budgeted
  OBVIOUS
<1>1. GuardTypeOK
  BY LimiterNumbers DEF LimiterInit, GuardTypeOK, LimiterTypeOK, Gates
<1>2. ASSUME NEW s \in Subjects PROVE \E budget \in Budgets : Affordable(budget, s)
  <2> DEFINE none == [n \in 0..Window |-> 0]
  <2>1. none \in Budgets /\ \A n \in 0..Window : none[n] = 0
    BY DEF Budgets
  <2> HIDE DEF none
  <2>2. \A age : Holders(s, age) = {}
    BY DEF LimiterInit, Holders, Hopeful, Standing
  <2>3. \A age \in Ages : Share(s, age) = 0
    BY <2>2, FS_EmptySet DEF LimiterInit, Share
  <2>4. counter[s] = 0 /\ Born(s) = 0
    BY DEF LimiterInit, Born
  <2>5. Affordable(none, s)
    BY <2>1, <2>3, <2>4, LimiterNumbers DEF Affordable, Covers
  <2> QED
    BY <2>1, <2>5
<1> QED
  BY <1>1, <1>2 DEF Budgeted

\* Arriving, a request holds nothing.
LEMMA ArriveBudgeted ==
  ASSUME Budgeted, NEW r \in Attempts, NEW a \in Addresses, NEW identities \in Seq(Identities),
         Arrive(r, a, identities)
  PROVE  Budgeted'
<1> DEFINE gate == [at |-> "guarded", todo |-> <<a>> \o identities, units |-> {}, refusal |-> {}]
<1>1. <<a>> \o identities \in Seq(Subjects) /\ <<a>> \o identities # <<>>
  <2>1. <<a>> \in Seq(Subjects) /\ Len(<<a>>) = 1 /\ identities \in Seq(Subjects)
    BY DEF Subjects
  <2>2. <<a>> \o identities \in Seq(Subjects) /\ Len(<<a>> \o identities) = 1 + Len(identities)
    BY <2>1, ConcatProperties
  <2>3. Len(identities) \in Nat
    BY LenProperties
  <2> QED
    BY <2>2, <2>3, EmptySeq
<1>2. gate \in Gates /\ gate.units = {} /\ gate.at = "guarded"
  BY <1>1 DEF Gates
<1>3. /\ guard' = [guard EXCEPT ![r] = gate] /\ Standing(r) # "guarded"
      /\ UNCHANGED <<phase, counter, left, recent>>
  BY DEF Arrive
<1> HIDE DEF gate
<1>4. GuardTypeOK'
  BY <1>2, <1>3 DEF Budgeted, GuardTypeOK, LimiterTypeOK
<1>5. \A s \in Subjects, age \in Ages : Share(s, age)' = Share(s, age)
  <2> SUFFICES ASSUME NEW s \in Subjects, NEW age \in Ages
               PROVE  Holders(s, age)' = Holders(s, age)
    BY <1>3 DEF Share
  <2> QED
    BY <1>2, <1>3 DEF Holders, Hopeful, Standing, Budgeted, GuardTypeOK
<1>6. ASSUME NEW s \in Subjects, NEW budget \in Budgets, Affordable(budget, s)
      PROVE  Affordable(budget, s)'
  <2>1. \A age \in Ages : Share(s, age)' \in Nat /\ Share(s, age)' <= Share(s, age)
    BY <1>5, ShareIsNat DEF Budgeted
  <2> QED
    BY <1>3, <1>4, <1>6, <2>1, KeepAffordable DEF Budgeted, GuardTypeOK
<1> QED
  BY <1>4, <1>6 DEF Budgeted

\* A decision that is a refusal adds nothing, whether the unit was counted or not.
LEMMA RefusedBudgeted ==
  ASSUME Budgeted, GuardTypeOK',
         \A s \in Subjects, age \in Ages : Share(s, age)' <= Share(s, age),
         \A s \in Subjects :
           \/ counter'[s] = counter[s] /\ left'[s] = left[s]
           \/ /\ counter'[s] = IF counter[s] > Limit THEN counter[s] ELSE counter[s] + 1
              /\ left'[s] = IF counter[s] = 0 THEN Window ELSE left[s]
  PROVE  Budgeted'
<1>1. \A s \in Subjects, age \in Ages : Share(s, age)' \in Nat
  <2>1. SharesAreNat'
    BY SharesCount, PTL
  <2> QED
    BY <2>1 DEF SharesAreNat, Subjects, Ages
<1>2. ASSUME NEW s \in Subjects, NEW budget \in Budgets, Affordable(budget, s)
      PROVE  Affordable(budget, s)'
  BY <1>1, <1>2, KeepAffordable DEF Budgeted, GuardTypeOK
<1> QED
  BY <1>2 DEF Budgeted

LEMMA ConsumeBudgeted ==
  ASSUME Budgeted, NEW r \in Attempts, Consume(r)
  PROVE  Budgeted'
<1> DEFINE mine == Head(guard[r].todo)
           units == guard[r].units \cup {<<mine, 0>>}
           refusal == IF counter'[mine] <= Limit THEN {} ELSE {Refusal(left'[mine])}
<1>1. /\ Standing(r) = "guarded" /\ Count(mine) /\ phase' = phase
      /\ Decided(r, units, refusal)
  BY DEF Consume
<1>2. GuardTypeOK /\ LimiterTypeOK
  BY DEF Budgeted, GuardTypeOK
<1>3. mine \in Subjects /\ units \subseteq Subjects \X Ages /\ guard[r].units \subseteq units
  <2>1. mine \in Subjects /\ guard[r].units \subseteq Subjects \X Ages
    BY <1>1, <1>2, GuardedGate
  <2> HIDE DEF mine
  <2> QED
    BY <2>1, LimiterNumbers
<1>4. /\ LimiterTypeOK'
      /\ counter'[mine] = IF counter[mine] > Limit THEN counter[mine] ELSE counter[mine] + 1
      /\ left'[mine] = IF counter[mine] = 0 THEN Window ELSE left[mine]
      /\ \A u \in Subjects \ {mine} : counter'[u] = counter[u] /\ left'[u] = left[u]
  BY <1>1, <1>2, <1>3, CountOne
<1>5. refusal \in SUBSET Refusals
  <2>1. left'[mine] \in Int /\ Window - phase \in Int
    BY <1>2, <1>3, <1>4, LimiterNumbers DEF LimiterTypeOK
  <2> QED
    BY <2>1 DEF Refusals, Refusal
<1>6. /\ guard' \in [Attempts -> Gates] /\ recent' \in [Subjects -> [Ages -> Nat]]
      /\ \A s \in Subjects, age \in Ages :
           Share(s, age)' <= IF refusal = {} /\ <<s, age>> \in units \ guard[r].units
                               THEN Share(s, age) + 1 ELSE Share(s, age)
  <2> HIDE DEF units, refusal
  <2> QED
    BY <1>1, <1>2, <1>3, <1>5, DecidedShare
<1>7. GuardTypeOK'
  BY <1>4, <1>6 DEF GuardTypeOK
<1>8. \A s \in Subjects, age \in Ages : Share(s, age)' \in Nat /\ Share(s, age) \in Nat
  <2>1. SharesAreNat /\ SharesAreNat'
    BY <1>2, <1>7, SharesCount, PTL
  <2> QED
    BY <2>1 DEF SharesAreNat, Subjects, Ages
<1>9. CASE counter'[mine] > Limit
  <2>1. refusal # {}
    BY <1>2, <1>3, <1>4, <1>9, KeyTypes, LimiterNumbers
  <2>2. \A s \in Subjects, age \in Ages : Share(s, age)' <= Share(s, age)
    BY <1>6, <2>1
  <2> QED
    BY <1>4, <1>7, <2>2, RefusedBudgeted
<1>10. CASE counter'[mine] <= Limit
  <2>1. ASSUME NEW s \in Subjects, NEW budget \in Budgets, Affordable(budget, s)
        PROVE  \E after \in Budgets : Affordable(after, s)'
    <3>1. CASE s = mine
      <4>1. \A age \in Ages : Share(s, age)' <= IF age = 0 THEN Share(s, age) + 1
                                                 ELSE Share(s, age)
        <5> SUFFICES ASSUME NEW age \in Ages
                     PROVE  Share(s, age)' <= IF age = 0 THEN Share(s, age) + 1
                                               ELSE Share(s, age)
          OBVIOUS
        <5>1. <<s, age>> \in units \ guard[r].units => age = 0
          OBVIOUS
        <5>2. Share(s, age) \in Nat /\ Share(s, age)' \in Nat
          BY <1>8
        <5> QED
          BY <1>6, <5>1, <5>2
      <4> QED
        BY <1>2, <1>4, <1>8, <1>10, <2>1, <3>1, <4>1, SpendAffordable
    <3>2. CASE s # mine
      <4>1. \A age \in Ages : Share(s, age)' <= Share(s, age)
        <5>1. \A age \in Ages : <<s, age>> \notin units \ guard[r].units
          BY <3>2
        <5> QED
          BY <1>6, <5>1
      <4> QED
        BY <1>2, <1>4, <1>8, <2>1, <3>2, <4>1, KeepAffordable
    <3> QED
      BY <3>1, <3>2
  <2> QED
    BY <1>7, <2>1 DEF Budgeted
<1>11. counter'[mine] \in Nat /\ Limit \in Nat
  BY <1>2, <1>3, <1>4, KeyTypes, LimiterNumbers
<1> QED
  BY <1>9, <1>10, <1>11

LEMMA UnavailableBudgeted ==
  ASSUME Budgeted, NEW r \in Attempts, Unavailable(r)
  PROVE  Budgeted'
<1> DEFINE mine == Head(guard[r].todo)
<1>1. /\ Standing(r) = "guarded" /\ phase' = phase
      /\ Count(mine) \/ UNCHANGED <<counter, left>>
      /\ Decided(r, guard[r].units, {Refusal(0)})
  BY DEF Unavailable
<1>2. GuardTypeOK /\ LimiterTypeOK
  BY DEF Budgeted, GuardTypeOK
<1>3. mine \in Subjects /\ guard[r].units \subseteq Subjects \X Ages
  BY <1>1, <1>2, GuardedGate
<1>4. {Refusal(0)} \in SUBSET Refusals
  BY <1>2, LimiterNumbers DEF Refusals, Refusal, LimiterTypeOK, Ages
<1>5. /\ guard' \in [Attempts -> Gates] /\ recent' \in [Subjects -> [Ages -> Nat]]
      /\ \A s \in Subjects, age \in Ages : Share(s, age)' <= Share(s, age)
  BY <1>1, <1>2, <1>3, <1>4, DecidedShare
<1>6. /\ LimiterTypeOK'
      /\ \A s \in Subjects :
           \/ counter'[s] = counter[s] /\ left'[s] = left[s]
           \/ /\ counter'[s] = IF counter[s] > Limit THEN counter[s] ELSE counter[s] + 1
              /\ left'[s] = IF counter[s] = 0 THEN Window ELSE left[s]
  <2>1. CASE Count(mine)
    BY <1>1, <1>2, <1>3, <2>1, CountOne
  <2>2. CASE UNCHANGED <<counter, left>>
    BY <1>1, <1>2, <2>2 DEF LimiterTypeOK
  <2> QED
    BY <1>1, <2>1, <2>2
<1>7. GuardTypeOK'
  BY <1>5, <1>6 DEF GuardTypeOK
<1> QED
  BY <1>5, <1>6, <1>7, RefusedBudgeted

\* A tick makes every unit older, and drops those that leave the window.
LEMMA TickShare ==
  ASSUME GuardTypeOK, TickWindow
  PROVE  /\ GuardTypeOK'
         /\ \A s \in Subjects : /\ Share(s, 0)' = 0
                                /\ \A n \in Ages : n + 1 \in Ages => Share(s, n + 1)' = Share(s, n)
<1>1. ASSUME NEW r \in Attempts, Standing(r) = "guarded"
      PROVE  /\ guard'[r] \in Gates /\ guard'[r].at = "guarded"
             /\ guard'[r].refusal = guard[r].refusal
             /\ \A s \in Subjects : <<s, 0>> \notin guard'[r].units
             /\ \A s \in Subjects, n \in Ages : n + 1 \in Ages =>
                  (<<s, n + 1>> \in guard'[r].units <=> <<s, n>> \in guard[r].units)
  <2> DEFINE older == {<<u[1], u[2] + 1>> : u \in {v \in guard[r].units : v[2] + 1 < Window}}
  <2>1. guard[r] \in [at : {"guarded"}, todo : Seq(Subjects) \ {<<>>},
                      units : SUBSET (Subjects \X Ages), refusal : SUBSET Refusals]
    BY <1>1, GuardedGate
  <2>2. guard'[r] = [guard[r] EXCEPT !.units = older]
    BY <1>1 DEF TickWindow
  <2>3. \A u \in guard[r].units : u = <<u[1], u[2]>> /\ u[1] \in Subjects /\ u[2] \in Ages
    BY <2>1
  <2>4. \A n \in Ages : n \in Nat /\ (n + 1 \in Ages <=> n + 1 < Window)
    BY LimiterNumbers DEF Ages
  <2>5. older \subseteq Subjects \X Ages
    BY <2>3, <2>4
  <2>6. \A s \in Subjects : <<s, 0>> \notin older
    BY <2>3, <2>4
  <2>7. \A s \in Subjects, n \in Ages : n + 1 \in Ages =>
          (<<s, n + 1>> \in older <=> <<s, n>> \in guard[r].units)
    BY <2>3, <2>4
  <2> HIDE DEF older
  <2>8. /\ [guard[r] EXCEPT !.units = older] \in
             [at : {"guarded"}, todo : Seq(Subjects) \ {<<>>},
              units : SUBSET (Subjects \X Ages), refusal : SUBSET Refusals]
        /\ [guard[r] EXCEPT !.units = older].units = older
        /\ [guard[r] EXCEPT !.units = older].refusal = guard[r].refusal
    BY <2>1, <2>5
  <2> QED
    BY <2>2, <2>6, <2>7, <2>8 DEF Gates
<1>2. \A r \in Attempts : Standing(r) # "guarded" => guard'[r] = guard[r]
  BY DEF TickWindow
<1>3. guard' \in [Attempts -> Gates]
  <2>1. \A r \in Attempts : guard'[r] \in Gates
    BY <1>1, <1>2 DEF GuardTypeOK
  <2>2. guard' = [r \in Attempts |-> guard'[r]]
    BY DEF TickWindow
  <2> QED
    BY <2>1, <2>2
<1>4. /\ \A s \in Subjects : recent'[s][0] = 0
      /\ \A s \in Subjects, n \in Ages : n + 1 \in Ages => recent'[s][n + 1] = recent[s][n]
      /\ recent' \in [Subjects -> [Ages -> Nat]]
  <2>1. \A s \in Subjects, age \in Ages :
          /\ recent'[s][age] = IF age = 0 THEN 0 ELSE recent[s][age - 1]
          /\ age # 0 => age - 1 \in Ages
    BY LimiterNumbers DEF TickWindow, Ages
  <2>2. recent' = [s \in Subjects |-> [age \in Ages |->
                     IF age = 0 THEN 0 ELSE recent[s][age - 1]]]
    BY DEF TickWindow
  <2>3. \A s \in Subjects, age \in Ages :
          (IF age = 0 THEN 0 ELSE recent[s][age - 1]) \in Nat
    BY <2>1 DEF GuardTypeOK
  <2>4. \A n \in Ages : n \in Nat /\ n + 1 # 0 /\ (n + 1) - 1 = n
    BY LimiterNumbers
  <2>5. recent' \in [Subjects -> [Ages -> Nat]]
    BY <2>2, <2>3
  <2>6. \A s \in Subjects : recent'[s][0] = 0
    BY <2>1, LimiterNumbers
  <2>7. ASSUME NEW s \in Subjects, NEW n \in Ages, n + 1 \in Ages
        PROVE  recent'[s][n + 1] = recent[s][n]
    <3>1. PICK age \in Ages : age = n + 1 /\ age # 0 /\ age - 1 = n
      BY <2>4, <2>7
    <3>2. recent'[s][age] = recent[s][age - 1]
      BY <2>1, <3>1
    <3> QED
      BY <3>1, <3>2
  <2> QED
    BY <2>5, <2>6, <2>7
<1>5. LimiterTypeOK'
  <2>1. \A s \in Subjects :
          /\ left'[s] = IF left[s] = 0 THEN 0 ELSE left[s] - 1
          /\ counter'[s] = IF left[s] = 1 THEN 0 ELSE counter[s]
          /\ counter[s] \in 0..Limit + 1 /\ left[s] \in 0..Window
          /\ counter[s] = 0 <=> left[s] = 0
    BY DEF TickWindow, GuardTypeOK, LimiterTypeOK
  <2>2. \A s \in Subjects : /\ left'[s] \in 0..Window /\ counter'[s] \in 0..Limit + 1
                            /\ counter'[s] = 0 <=> left'[s] = 0
    BY <2>1, LimiterNumbers
  <2>3. phase' \in Ages
    BY LimiterNumbers DEF TickWindow, GuardTypeOK, LimiterTypeOK, Ages
  <2>4. /\ left' = [s \in Subjects |-> left'[s]]
        /\ counter' = [s \in Subjects |-> counter'[s]]
    BY DEF TickWindow
  <2> QED
    BY <2>2, <2>3, <2>4 DEF LimiterTypeOK
<1>6. ASSUME NEW s \in Subjects, NEW n \in Ages, n + 1 \in Ages
      PROVE  Holders(s, n + 1)' = Holders(s, n)
  BY <1>1, <1>2, <1>6 DEF Holders, Hopeful, Standing
<1>7. ASSUME NEW s \in Subjects PROVE Holders(s, 0)' = {}
  BY <1>1, <1>2 DEF Holders, Hopeful, Standing
<1>8. \A s \in Subjects, n \in Ages : n + 1 \in Ages => Share(s, n + 1)' = Share(s, n)
  BY <1>4, <1>6 DEF Share
<1>9. \A s \in Subjects : Share(s, 0)' = 0
  BY <1>4, <1>7, FS_EmptySet DEF Share
<1> QED
  BY <1>3, <1>4, <1>5, <1>8, <1>9 DEF GuardTypeOK

\* The budget grows older with the units; a key that expires leaves what it has
\* counted to the past.
LEMMA TickBudgeted == ASSUME Budgeted, TickWindow PROVE Budgeted'
<1>1. GuardTypeOK /\ LimiterTypeOK /\ GuardTypeOK'
  BY TickShare DEF Budgeted, GuardTypeOK
<1>2. ASSUME NEW s \in Subjects, NEW budget \in Budgets, Affordable(budget, s)
      PROVE  \E aged \in Budgets : Affordable(aged, s)'
  <2> DEFINE aged == [n \in 0..Window |-> IF n = 0 THEN 0 ELSE budget[n - 1]]
  <2>1. /\ \A n \in 0..Window : budget[n] \in Nat
        /\ \A n \in Ages : budget[n] <= budget[n + 1]
        /\ budget[0] = 0 /\ Limit \in Nat
    BY <1>1, <1>2, BudgetNumbers
  <2>2. \A n \in 0..Window : aged[n] = IF n = 0 THEN 0 ELSE budget[n - 1]
    OBVIOUS
  <2>3. \A n \in 0..Window : n # 0 => n - 1 \in 0..Window /\ n - 1 \in Ages
    BY LimiterNumbers DEF Ages
  <2>4. aged \in Budgets
    BY <2>1, <2>3 DEF Budgets
  <2> HIDE DEF aged
  <2>5. aged[0] = 0
    BY <2>2, LimiterNumbers
  <2>6. \A n \in Ages : aged[n + 1] = budget[n]
    <3> SUFFICES ASSUME NEW n \in Ages PROVE aged[n + 1] = budget[n]
      OBVIOUS
    <3>1. n + 1 \in 0..Window /\ n + 1 # 0 /\ (n + 1) - 1 = n
      BY LimiterNumbers
    <3> QED
      BY <2>2, <3>1
  <2>7. \A n \in Ages : aged[n] + Share(s, n)' <= aged[n + 1]
    <3> SUFFICES ASSUME NEW n \in Ages PROVE aged[n] + Share(s, n)' <= aged[n + 1]
      OBVIOUS
    <3>1. aged[n + 1] = budget[n] /\ budget[n] \in Nat
      BY <2>1, <2>6, LimiterNumbers
    <3>2. CASE n = 0
      BY <1>1, <2>5, <3>1, <3>2, TickShare
    <3>3. CASE n # 0
      <4>1. PICK m \in Ages : m + 1 = n
        BY <3>3, LimiterNumbers DEF Ages
      <4>2. Share(s, n)' = Share(s, m) /\ aged[n] = budget[m]
        BY <1>1, <2>6, <4>1, TickShare
      <4>3. budget[m] + Share(s, m) <= budget[n]
        BY <1>2, <4>1 DEF Affordable, Covers
      <4> QED
        BY <3>1, <4>2, <4>3
    <3> QED
      BY <3>2, <3>3
  <2>8. Covers(aged, s)'
    BY <2>5, <2>7 DEF Covers, Ages
  <2>9. aged[1] = 0 /\ aged[Window] \in Nat /\ aged[Window] <= budget[Window]
    <3>1. aged[1] = budget[0]
      BY <2>6, LimiterNumbers
    <3>2. PICK last \in Ages : last + 1 = Window
      BY LimiterNumbers
    <3>3. aged[Window] = budget[last] /\ budget[last] <= budget[Window] /\ budget[last] \in Nat
      BY <2>1, <2>6, <3>2, LimiterNumbers
    <3> QED
      BY <2>1, <3>1, <3>3
  <2>10. /\ counter[s] \in Nat /\ left[s] \in Nat /\ left[s] <= Window
         /\ counter[s] = 0 <=> left[s] = 0
         /\ Born(s) \in 0..Window
         /\ budget[Born(s)] <= counter[s] /\ budget[Born(s)] <= Limit
         /\ budget[Window] <= budget[Born(s)] + Limit
         /\ budget[Window] \in Nat /\ budget[Born(s)] \in Nat
    BY <1>1, <1>2, <2>1, KeyTypes, LimiterNumbers DEF Affordable
  <2>11. /\ left'[s] = IF left[s] = 0 THEN 0 ELSE left[s] - 1
         /\ counter'[s] = IF left[s] = 1 THEN 0 ELSE counter[s]
    BY DEF TickWindow
  <2>12. /\ Born(s)' = IF counter'[s] = 0 THEN 0 ELSE Window - left'[s] + 1
         /\ Born(s) = IF counter[s] = 0 THEN 0 ELSE Window - left[s] + 1
    BY DEF Born
  <2>13. CASE left[s] \in {0, 1}
    <3>1. counter'[s] = 0 /\ Born(s)' = 0
      BY <2>10, <2>11, <2>12, <2>13
    <3>2. budget[Window] <= Limit
      <4>1. CASE left[s] = 0
        BY <2>1, <2>10, <2>12, <4>1
      <4>2. CASE left[s] = 1
        <5>1. Born(s) = Window
          BY <2>10, <2>12, <4>2, LimiterNumbers
        <5> QED
          BY <2>10, <5>1
      <4> QED
        BY <2>13, <4>1, <4>2
    <3>3. aged[Window] <= Limit
      BY <2>1, <2>9, <2>10, <3>2
    <3>4. Affordable(aged, s)'
      BY <2>1, <2>5, <2>8, <2>9, <3>1, <3>3 DEF Affordable
    <3> QED
      BY <2>4, <3>4
  <2>14. CASE left[s] \notin {0, 1}
    <3>1. /\ counter'[s] = counter[s] /\ counter[s] # 0
          /\ Born(s)' = Born(s) + 1 /\ Born(s) \in Ages
      BY <2>10, <2>11, <2>12, <2>14, LimiterNumbers DEF Ages
    <3>2. aged[Born(s) + 1] = budget[Born(s)]
      BY <2>6, <3>1
    <3>3. aged[Window] <= budget[Born(s)] + Limit
      BY <2>1, <2>9, <2>10
    <3>4. Affordable(aged, s)'
      BY <2>8, <2>9, <2>10, <3>1, <3>2, <3>3 DEF Affordable
    <3> QED
      BY <2>4, <3>4
  <2> QED
    BY <2>13, <2>14
<1> QED
  BY <1>1, <1>2 DEF Budgeted

LEMMA StepBudgeted == Budgeted /\ [LimiterNext]_limiterVars => Budgeted'
<1> SUFFICES ASSUME Budgeted, [LimiterNext]_limiterVars PROVE Budgeted'
  OBVIOUS
<1>1. CASE UNCHANGED limiterVars
  <2>1. /\ phase' = phase /\ counter' = counter /\ left' = left /\ guard' = guard
        /\ recent' = recent
    BY <1>1 DEF limiterVars
  <2>2. GuardTypeOK'
    BY <2>1 DEF Budgeted, GuardTypeOK, LimiterTypeOK
  <2>3. \A s, age : Share(s, age)' = Share(s, age)
    BY <2>1 DEF Share, Holders, Hopeful, Standing
  <2>4. \A s \in Subjects, age \in Ages : Share(s, age)' <= Share(s, age)
    BY <2>3, ShareIsNat DEF Budgeted
  <2> QED
    BY <2>1, <2>2, <2>4, RefusedBudgeted
<1>2. ASSUME NEW r \in Attempts, NEW a \in Addresses, Arrive(r, a, <<>>) PROVE Budgeted'
  BY <1>2, ArriveBudgeted, EmptySeq
<1>3. ASSUME NEW r \in Attempts, NEW a \in Addresses, NEW i \in Identities,
             Arrive(r, a, <<i>>)
      PROVE  Budgeted'
  <2>1. <<i>> \in Seq(Identities)
    OBVIOUS
  <2> QED
    BY <1>3, <2>1, ArriveBudgeted
<1> QED
  BY <1>1, <1>2, <1>3, TickBudgeted, ConsumeBudgeted, UnavailableBudgeted DEF LimiterNext

\* backend/README.md: "no default allows unlimited attempts".  Over any span as
\* long as a window no subject gets more than twice its limit of requests handled.
THEOREM BurstsStayBounded == LimiterSpec => []BurstsAreBounded
<1>1. Budgeted => BurstsAreBounded
  <2> SUFFICES ASSUME Budgeted, NEW s \in Subjects
               PROVE  Total(recent[s]) <= 2 * Limit
    BY DEF BurstsAreBounded
  <2>1. GuardTypeOK
    BY DEF Budgeted
  <2>2. PICK budget \in Budgets : Affordable(budget, s)
    BY DEF Budgeted
  <2>3. /\ \A n \in 0..Window : budget[n] \in Nat
        /\ budget[0] = 0 /\ Limit \in Nat
    BY <2>1, <2>2, BudgetNumbers
  <2>4. recent[s] \in [Ages -> Nat]
    BY <2>1 DEF GuardTypeOK
  <2>5. \A n \in Ages : budget[n] + recent[s][n] <= budget[n + 1]
    <3> SUFFICES ASSUME NEW n \in Ages PROVE budget[n] + recent[s][n] <= budget[n + 1]
      OBVIOUS
    <3>1. budget[n] + Share(s, n) <= budget[n + 1]
      BY <2>2 DEF Affordable, Covers
    <3>2. budget[n] \in Nat /\ budget[n + 1] \in Nat
      BY <2>3, LimiterNumbers
    <3> QED
      BY <2>1, <3>1, <3>2, ShareIsNat
  <2>6. Total(recent[s]) \in Nat /\ Total(recent[s]) <= budget[Window]
    <3>1. \A counts \in [Ages -> Nat] :
            (\A n \in Ages : budget[n] + counts[n] <= budget[n + 1]) =>
              Total(counts) \in Nat /\ Total(counts) <= budget[Window]
      BY <2>3, TotalIsCovered
    <3> QED
      BY <2>4, <2>5, <3>1
  <2>7. /\ Born(s) \in 0..Window /\ budget[Born(s)] <= Limit
        /\ budget[Window] <= budget[Born(s)] + Limit
    BY <2>1, <2>2, KeyTypes DEF Affordable, GuardTypeOK
  <2>8. budget[Window] \in Nat /\ budget[Born(s)] \in Nat
    BY <2>3, <2>7, LimiterNumbers
  <2> QED
    BY <2>3, <2>6, <2>7, <2>8
<1> QED
  BY InitBudgeted, StepBudgeted, <1>1, PTL DEF LimiterSpec

\* A counter that is set runs out, whatever the guards do.
THEOREM LimiterTypesHold == LimiterSpec => []LimiterTypeOK
<1>1. Budgeted => LimiterTypeOK
  BY DEF Budgeted, GuardTypeOK
<1> QED
  BY InitBudgeted, StepBudgeted, <1>1, PTL DEF LimiterSpec

=============================================================================

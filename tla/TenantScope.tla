----------------------------- MODULE TenantScope -----------------------------
(***************************************************************************)
(* The company that work runs for: proved by the guard of a request,       *)
(* published as the ambient scope of an asynchronous call chain, asked by  *)
(* every repository, stamped on audit records and jobs, and restored by    *)
(* the Worker that runs the job.                                           *)
(*                                                                         *)
(* A handler is the most general one: it asks for any row, names any       *)
(* company, and enters whatever scope some use case enters.  What it gets  *)
(* is left to the checks of the repositories.  A request that the guard    *)
(* refuses runs no handler and is left out.  The reads declared as those   *)
(* of the system, such as the memberships of a user over its companies,    *)
(* are not counted as reads of a company.  Memberships do not change here; *)
(* see Authorization.                                                      *)
(***************************************************************************)
EXTENDS Integers, Sequences, FiniteSets

CONSTANTS
  Chains,      \* the call chains of requests and of jobs
  ScopeUsers, ScopeTenants,
  Members,     \* the pairs of a user and a company with an active membership
  SystemAdmin, \* a user that needs none
  Rows,        \* ids in the tables with a column tenant_id
  NoCompany,
  MaxDepth,    \* bound: scopes of a chain inside each other
  MaxJobs      \* bound: jobs in the queue

VARIABLES
  founded,  \* the companies there are
  owner,    \* the company of each row; NoCompany when there is no row
  chain,    \* what each chain does
  scopes,   \* the scopes each chain is in, the innermost last
  queue     \* the jobs

scopeVars == <<founded, owner, chain, scopes, queue>>

-----------------------------------------------------------------------------

System == "system"
Missing == "missing"
IdleChain == [at |-> "idle"]

\* Mutant of Current: the scope is kept for the process, not for the chain.
CurrentOfAnybody(c) ==
  LET inside == {d \in Chains : scopes[d] # <<>>}
  IN IF inside = {} THEN Missing
     ELSE LET d == CHOOSE d \in inside : \A e \in inside : Len(scopes[e]) <= Len(scopes[d])
          IN scopes[d][Len(scopes[d])]

\* TenantScope.current().
Current(c) == IF scopes[c] = <<>> THEN Missing ELSE scopes[c][Len(scopes[c])]

Scoped(c) == Current(c) \in ScopeTenants
Working(c) == chain[c].at = "handler"

\* rights: the companies the work may touch, by the proof it started from.
\* touched: the companies whose rows it read or wrote.
Handler(rights) == [at |-> "handler", rights |-> rights, touched |-> {}]
Touch(c, t) == [chain[c] EXCEPT !.touched = @ \cup {t}]

ScopeInit ==
  /\ founded = {t \in ScopeTenants : \E u \in ScopeUsers : <<u, t>> \in Members}
  /\ owner \in [Rows -> founded \cup {NoCompany}]
  /\ chain = [c \in Chains |-> IdleChain]
  /\ scopes = [c \in Chains |-> <<>>]
  /\ queue = {}

GotoScope(c, work, inside) ==
  /\ chain' = [chain EXCEPT ![c] = work]
  /\ scopes' = [scopes EXCEPT ![c] = inside]

-----------------------------------------------------------------------------
(* The ways in.                                                            *)

\* A public route, or one that needs a platform permission: no scope.
RequestPlatform(c) ==
  /\ chain[c] = IdleChain
  /\ GotoScope(c, Handler({}), <<>>)
  /\ UNCHANGED <<founded, owner, queue>>

\* A tenant route: the guard finds the active membership, the interceptor runs
\* the handler under its company.  The administrator gets what it claims; anyone
\* else is refused, as under a header that contradicts the route.
RequestTenant(c, user, claim) ==
  /\ chain[c] = IdleChain
  /\ user = SystemAdmin \/ <<user, claim>> \in Members
  /\ GotoScope(c, Handler({claim}), <<claim>>)
  /\ UNCHANGED <<founded, owner, queue>>

\* JobDispatcher: the job runs under the company of its envelope; a payload
\* that names another is refused, and so is a tenant-scoped job without one.  An
\* envelope is delivered again when its attempt is retried or was lost.
RunJob(c, job) ==
  /\ chain[c] = IdleChain
  /\ GotoScope(c, Handler(job.rights), IF job.tenant = NoCompany THEN <<System>> ELSE <<job.tenant>>)
  /\ queue' \in {queue, queue \ {job}}
  /\ UNCHANGED <<founded, owner>>

-----------------------------------------------------------------------------
(* What a handler may do.                                                  *)

Enter(c, work, scope) ==
  /\ Len(scopes[c]) < MaxDepth
  /\ GotoScope(c, work, Append(scopes[c], scope))

\* TenantScope.runAsSystem: refused under the scope of a company.
RunAsSystem(c) ==
  /\ Working(c) /\ ~ Scoped(c)
  /\ Enter(c, chain[c], System)
  /\ UNCHANGED <<founded, owner, queue>>

\* CreateTenantUseCase: the company is stored outside of any scope of a company,
\* then the rest runs under its own.
EnterNewTenant(c, t) ==
  /\ Working(c) /\ ~ Scoped(c) /\ t \notin founded
  /\ founded' = founded \cup {t}
  /\ Enter(c, [chain[c] EXCEPT !.rights = @ \cup {t}], t)
  /\ UNCHANGED <<owner, queue>>

\* MembershipTenantOwnerEnrollment, and the roles that authorize reads under the
\* company it was asked about: a scope inside its own.
RunAgain(c) ==
  /\ Working(c) /\ Scoped(c)
  /\ Enter(c, chain[c], Current(c))
  /\ UNCHANGED <<founded, owner, queue>>

\* The work of the innermost scope settles.
LeaveScope(c) ==
  /\ Working(c) /\ scopes[c] # <<>>
  /\ GotoScope(c, chain[c], SubSeq(scopes[c], 1, Len(scopes[c]) - 1))
  /\ UNCHANGED <<founded, owner, queue>>

\* repository.get: the row of another company is not found.  repository.update of
\* an aggregate, from whatever scope it was loaded in: it is refused.
GetOrUpdate(c, row) ==
  /\ Working(c) /\ Scoped(c) /\ owner[row] = Current(c)
  /\ chain' = [chain EXCEPT ![c] = Touch(c, owner[row])]
  /\ UNCHANGED <<founded, owner, scopes, queue>>

\* A read that names a company, by assertTenantCriterion.
Find(c, t) ==
  /\ Working(c) /\ Current(c) = t
  /\ chain' = [chain EXCEPT ![c] = Touch(c, t)]
  /\ UNCHANGED <<founded, owner, scopes, queue>>

\* repository.add, by assertTenantOwnership.
Add(c, row, t) ==
  /\ Working(c) /\ owner[row] = NoCompany
  /\ Current(c) = t
  /\ owner' = [owner EXCEPT ![row] = t]
  /\ chain' = [chain EXCEPT ![c] = Touch(c, t)]
  /\ UNCHANGED <<founded, scopes, queue>>

\* RecordAuditEntryUseCase: the record is of the scope's company, or of none.
Audit(c) ==
  /\ Working(c)
  /\ chain' = [chain EXCEPT ![c] = IF Scoped(c) THEN Touch(c, Current(c)) ELSE chain[c]]
  /\ UNCHANGED <<founded, owner, scopes, queue>>

\* JobEnqueuer.enqueue: the envelope is of the scope's company, or of none.  Any
\* handler may call it; a company it names itself would win over the scope, but
\* only a schedule names one.
Enqueue(c) ==
  /\ Working(c) /\ Cardinality(queue) < MaxJobs
  /\ queue' = queue \cup {[tenant |-> IF Scoped(c) THEN Current(c) ELSE NoCompany,
                           rights |-> chain[c].rights]}
  /\ UNCHANGED <<founded, owner, chain, scopes>>

\* A schedule is declared for a company, or for none, and runs in no scope.
Schedule(t) ==
  /\ Cardinality(queue) < MaxJobs
  /\ queue' = queue \cup {[tenant |-> t, rights |-> {t} \ {NoCompany}]}
  /\ UNCHANGED <<founded, owner, chain, scopes>>

\* The handler answers or throws.
FinishWork(c) ==
  /\ Working(c)
  /\ GotoScope(c, IdleChain, <<>>)
  /\ UNCHANGED <<founded, owner, queue>>

ScopeNext ==
  \/ \E t \in ScopeTenants \cup {NoCompany} : Schedule(t)
  \/ \E c \in Chains :
       \/ RequestPlatform(c) \/ FinishWork(c)
       \/ \E user \in ScopeUsers, t \in ScopeTenants : RequestTenant(c, user, t)
       \/ \E job \in queue : RunJob(c, job)
       \/ RunAsSystem(c) \/ RunAgain(c) \/ LeaveScope(c) \/ Audit(c) \/ Enqueue(c)
       \/ \E t \in ScopeTenants : EnterNewTenant(c, t) \/ Find(c, t)
       \/ \E row \in Rows :
            GetOrUpdate(c, row) \/ \E t \in ScopeTenants : Add(c, row, t)

ScopeSpec == ScopeInit /\ [][ScopeNext]_scopeVars

-----------------------------------------------------------------------------
(* Properties.                                                             *)

\* However chains overlap, nest their scopes and hand work to each other, work
\* reads, writes and records for those companies only that it had a proof of, or
\* founded itself, the job of a company is from work that had one of it, and work
\* for a company never becomes work of the platform.
TenantsAreIsolated ==
  /\ \A c \in Chains : Working(c) => chain[c].touched \subseteq chain[c].rights
  /\ \A job \in queue : job.tenant \in job.rights \cup {NoCompany}
  /\ \A c \in Chains : \A i, j \in DOMAIN scopes[c] :
       i < j /\ scopes[c][j] = System => scopes[c][i] = System

=============================================================================

# Formal model of the accounting backend

The system is a TypeScript modular monolith (NestJS) in `src/apps/backend/src`:
a multi-tenant accounting service. One code base starts as several processes:
the **API** (HTTP), the **Worker** (the job dispatcher, which also publishes the outbox), the
**Scheduler** (ticks and the promotion of delayed jobs), and the command line
runners for seeding and migrations. They share a MySQL database (InnoDB,
REPEATABLE READ) and a Redis server (a stream, hashes, a sorted set, keys with
a lifetime). They share nothing else, so what can go wrong between them is a
matter of which SQL statements and which Redis commands interleave, which
process dies in between, and which timeouts run out. That is
the granularity of every model here.

1. [Inventory](#1-inventory)
2. [Modules](#2-modules): how state and actions correspond to the code
3. [Runs](#3-runs): questions, bounds and results
4. [Fairness and other assumptions](#4-fairness-and-other-assumptions)
5. [Proofs](#5-proofs)
6. [Where the code and its documentation disagree](#6-where-the-code-and-its-documentation-disagree)
7. [What is not modelled](#7-what-is-not-modelled)
8. [Plan](#8-plan)

`tlc -config MCDelivery_faults.cfg MCDelivery.tla` checks one run, `tlapm
OutboxProofs.tla` one proof module. `PROJECT.json` lists the components, the
runs, the source lines of every definition (`map`), a mutation of the model
for every checked property (`mutants`), the hazards and the theorems.


## 1. Inventory

Paths are relative to `src/apps/backend/src`.

| Component | State it keeps | Operations | What makes it correct |
|---|---|---|---|
| Transactional outbox (`infrastructure/outbox`) | `outbox_events` rows: state, attempts, claim id, last and next attempt | record in the caller's transaction, publish a batch, requeue | only committed events leave; none is lost; one owner per row; bounded attempts; every event settles |
| Background jobs (`infrastructure/jobs`) | Redis stream with a consumer group and its pending entries, delayed set, record per job, idempotency keys | enqueue, claim, reclaim, dispatch, retry, promote | no job is lost; a keyed effect comes about once; bounded attempts; every job finishes |
| Scheduler (`infrastructure/jobs/scheduling`, `processes/scheduler`) | a slot key per schedule | promote, take the slot, enqueue | jobs of a schedule keep their distance, and keep coming |
| Worker (`processes/worker`) | a flag, the dispatches in flight | the loop around outbox and jobs, the shutdown | it keeps its concurrency and stops with nothing in flight |
| Fiscal periods (`modules/accounting`) | periods with state and revision, active pointer per tenant, events | generate, close, reopen, select, guard a posting | no posting into a closed period; transitions follow one another; the active period is open |
| Fiscal years (`modules/accounting`) | years, by company | create | no two years of a company share a day or a label; a refusal has a reason |
| Chart of accounts (`modules/accounting`) | a tree of accounts, by company | add, update, assemble (no use case calls them yet) | the rows are a tree; no change is lost |
| Authentication (`modules/identity`) | users with failure counter and lockout, credentials, sessions | sign in, set a credential, sign out, activate, deactivate, rename | lockouts are earned and stand; an old secret opens nothing; a session ends once |
| Roles, memberships, authorization (`modules/identity`) | users, memberships, roles, permissions, assignments | create, rename, activate, grant, revoke, assign, remove, decide | a key names one row; events tell the rows; a decision rests on what was true |
| Sign-up, bootstrap, presented sessions (`modules/identity`) | as above | sign up, provision, verify | a process that serves has an administrator that can sign in |
| Tenants (`modules/tenant`) | tenants | create, rename, change status | creation enrols the owner |
| Audit trail (`modules/audit`) | append-only records | record | a change and its record commit together |
| Transaction boundary (`shared/transaction`) | ambient transaction, rollback-only mark | begin, join, finish | no partial commit, and the caller is told the truth |
| Optimistic concurrency (`shared/persistence`) | revision of every aggregate | compare and swap | no lost update |
| Tenant scope (`shared/tenant`, `infrastructure/api/tenant`) | the ambient company of a chain of calls | enter, leave, assert, stamp | work touches the companies it had a proof of |
| Rate limiter (`infrastructure/api/rate-limit`) | a counter with a lifetime per subject | consume | bursts are bounded |
| Redis connection, readiness and health (`infrastructure`) | connection state | connect, probe | I/O |
| Seed and migrations (`processes/seed`) | registry of what was created | run, run again | running twice changes nothing |
| Calendar, money, quantity (`shared/time`, `shared/money`, `shared/quantity`) | none | pure functions | a fiscal year is the twelve months of one Jalali year |

Interactions: a use case opens a transaction boundary, changes aggregates by
compare-and-swap of their revision, records events in the outbox and records
in the audit trail, all in that one transaction. The Worker runs the jobs that
the API and the Scheduler enqueue; the publication of the outbox is one of them,
enqueued on a tick. A posting asks the period guard inside of its own
transaction.

The hard behaviours, in order of weight: overlapping publisher runs and
deliveries whose visibility timeout runs out; a process that dies between two
commands; checks on a snapshot whose row another transaction changes; reads
outside of the transaction that acts on them; retries of what was already
done. `PROJECT.json` lists each at its line under `hazards`, with the property
that watches it.


## 2. Modules

| Module | Models | Proofs | Run |
|---|---|---|---|
| `Outbox` | the store's statements and the publisher | `OutboxProofs` | `delivery`, `outbox_...` |
| `OutboxLifecycle` | what `outbox.types.ts` promises of one record | refinement, in `OutboxProofs` | `delivery` |
| `JobQueue` | queue, dispatcher, idempotency guard, promoter | `JobQueueProofs` | `delivery`, `jobs_...` |
| `AtLeastOnce` | what the queue's port promises whoever enqueues a job | refinement, in `JobQueueProofs` | `jobs_careful` |
| `WorkerLoop` | the loop of the Workers and their shutdown | `LoopsProofs` | `progress` |
| `SchedulerLoop` | the turns of the Schedulers and the slots | `LoopsProofs` | `progress` |
| `FiscalPeriods` | periods, pointer and guard in transactions | `FiscalPeriodsProofs` | `progress`, `fiscal_skew` |
| `FiscalRegister` | the same operations, each atomic | refinement, in `FiscalPeriodsProofs` | `progress` |
| `FiscalYears` | overlapping creations of years | `SetupProofs` | `requests` |
| `JalaliCalendar` | the conversions and the plan of a year's periods | `SetupProofs` | `requests` |
| `Accounts` | the chart of accounts under overlapping writes | `SetupProofs` | `requests` |
| `Authentication` | one account under concurrent requests | `AuthenticationProofs` | `requests`, `auth_secret` |
| `Access` | the tables of users, tenants, memberships, roles, assignments | `AccessProofs` | `requests` |
| `AccessLifecycle` | what the aggregates promise of a row | refinement, in `AccessProofs` | `requests` |
| `Authorization` (extends `Access`) | a decision, statement by statement | `AccessProofs` | `requests` |
| `Provisioning` | bootstrap, sign-up and the seed | `SetupProofs` | `requests`, `seed_retry` |
| `TenantScope` | the ambient company of requests and jobs | `HandlingProofs` | `requests` |
| `TransactionBoundary` | nested units of work of a request | `HandlingProofs` | `requests` |
| `RateLimiter` | the guard, the counting script, the window | `HandlingProofs` | `requests`, `limiter_reset` |

`MCOutbox`, `MCJobQueue`, `MCFiscalPeriods` and `MCAuthentication` add constant
functions and symmetry sets to a component. `MCDelivery`, `MCProgress` and
`MCRequests` are *sums*: they extend several components, a variable
`part` picks one of them in the initial state, and the others stay as they
began. The components of a sum do not interact there; one run answers for
all of them. Since they are extended together, their operators have names of
their own: `WorkerNext`, `AccessInit`, `BoundarySpec`. Where components do interact (a use case in a boundary, a decision
among the writes it reads, the seed among sign-ups, the periods of a new year)
the interaction is inside a module, as told below.

Every `Max...` constant of a model that is not a setting of the code is a
bound, and named so where it is declared. Some actions come with a mutated twin
(`DueOrFailed` beside `Due`, `UpdateAnyRevision` beside `Update`); no
specification uses the twin. It states a plausible mistake that the properties
must notice.

### Outbox

*State.* `tx` is the fate of the transaction that inserted each event; `state`,
`attempts`, `last`, `next`, `claimId` are the row's columns; `delivered` is
what the stream has received; `pc`, `now`, `claim`, `batch` are the local
variables of each publisher run (`now` is the instant `publishBatch` takes
once and passes to every statement).

*Actions.* `Record` and `Finish` are the insert and the end of the writer's
transaction. A run goes `Begin`, `ReleaseExhausted`, `ReleaseRecoverable`
(the two updates of `releaseStale`), `ClaimDue`, `ReadClaimed`, then for each
row of its batch `Publish` and `MarkPublished`, or `MarkFailure`. `Abort` is
the death of the run at any point. `MarkPublishedThrows` is an update whose
reply is lost: the code takes its failure path for an event that was published.
`Requeue` is the operator's. One action is one SQL statement or one transport
call, since two runs (two Workers, or a run that outlives its lease) interleave
exactly there.

*Time* is relative: instants are kept as their distance from the present,
`Tick` shifts all of them, and what is older than `Horizon = MaxRun +
Visibility` is as good as `LongAgo`. `MaxRun` bounds how long a run lasts. No
code enforces it, so the models have both `MaxRun < Visibility` and the
opposite. `BackoffDelays` is the set of delays the jitter can yield, capped
last, as `retry.policy.ts` does.

`OutboxLifecycle` is the abstract specification: one record, with the edges the
comment of `OutboxState` draws. `Outbox` implements it under `Timely`, that is
`MaxRun < Visibility` and no lost replies. Without `Timely` it does not (finding 1).

### JobQueue

*State.* `stream`, `cursor`, `pel` are the stream and its consumer group;
`delayed` the sorted set; `record` the hash of each job; `keys` the
idempotency keys; `producer` where an enqueue stands; `entry`, `at` the
delivery in each dispatch slot (a slot is one execution of one Worker);
`hand` what a promoter holds between two commands; `applied` and `finished` are
history: the effects that came about and the jobs that reached an end.

*Actions.* One action is one Redis command or the job's own code.
`Enqueue`/`EnqueueSaved` are `push` (the entry first, then its record);
`Claim` is XREADGROUP, `Reclaim` XAUTOCLAIM; `Start`, `Prepare`, `Execute`,
`ReleaseKey`, `Complete`, `SaveRetrying`, `Delay`, `FailTerminally`,
`Acknowledge` follow `dispatch` command by command; `TakeDue`, `LoadState`,
`Promote`, `PromoteSaved` follow `promoteDue`. `Drop` is a Worker that dies,
or loses a connection, at any of these points; `PromoterDrops` likewise.

*Assumptions* are constants, so that a run says which it makes: `Slow`
(deliveries may outlast the visibility timeout), `LateRecord` (a Worker may be
faster than the producer's second command), `PromoterDies`, `MaxDrops`.

Work is hidden by `LateRecord` too, with no crash at all: the producer's late
`queued` record overwrites `retrying`, and `promoteDue` discards the retry it
takes for outdated. `MCJobQueue_hidden.cfg` with `LateRecord = TRUE`,
`PromoterDies = FALSE`, `MaxDrops = 0` shows it.

`AtLeastOnce` is the abstract specification: of each job the attempts that are owed,
the jobs that are finished and the effects that came about. It has no stream, no
records, no Workers and no crashes. `JobQueue` implements it with `Owed`, which finds
the attempts a job is owed in three places: the entries of the group nobody has
acknowledged (`Entered`), a promoter's hand (`Promoting`), and the record, as long as
it asks for a retry and the job is delayed or being loaded (`Asked`). Most commands
leave what is owed as it is (ZREM, the load and XADD of a promotion only move it from
one place to the next); a dispatch hands attempts over and finishes jobs. An attempt
may be owed beside the one after it, when a Worker dies after it scheduled a retry and
before it acknowledged the entry, and so be executed although the next one was. That
is what at-least-once delivery admits; that an unfinished job is owed nothing,
that an attempt comes out of nowhere, or that something is executed of a job that is
owed nothing is what it excludes. The promise holds for careful processes only
(section 4).

### FiscalPeriods

*State.* `state` and `revision` of each period, `active` the pointer, `postings`
and `events` what was committed; `request`, `at`, `view` the operation of each
transaction, where it stands and the snapshot it reads from; `writer`,
`pointing`, `share` the row locks it holds.

*Actions.* One action is one statement, under InnoDB's rules as the code relies
on them: the snapshot is that of the first read, plain SELECTs read it, an
UPDATE, INSERT or SELECT ... FOR SHARE acts on the latest committed row and
waits for its lock, and locks go with the commit. `Load...` is the first read
of each use case with its early return; `ReadPointer` is the check of
`CloseFiscalPeriod`; `Update` the compare-and-swap of close and reopen;
`Activate` the upsert of the pointer; `Insert` and `Seed` the generation, which
the unique key makes all or none; `Guard` the shared lock that
`DefaultPeriodGuard` takes inside of the posting's transaction; `Commit...`
what each operation makes visible. `Abort` is any failure.

The posting itself is external to this component. It is modelled as a
transaction that calls the guard and commits, which is how the guard's contract
describes its caller. Selections record an event too, and every use case an
audit record; those counters are left out, as they are part of the same commit.

`FiscalRegister` is the abstract specification: the same rows, and operations
that each take one step on the rows as they are. It has no transactions,
snapshots, locks or revisions. `FiscalPeriods` implements it: whichever request
commits could have run alone at that moment. The pointer is where the code
promises less than the use cases ask, and the register says so: `Select` needs a
period that exists, not an open one (finding 4), and `Generate` may move a
pointer that is set. The latter takes two years generated at once for a company
that had none: both see no pointer in their snapshots, and the second to commit
overwrites what the first has set or the company selected since.

### Authentication

*State.* `user` (status, counter, lockout, revision), `credential`, `sessions`,
`trail` (the audit records the properties count: failures, lockouts and
established credentials), and for each request `at` and `held` (what it read or
was given).

*Actions.* Reads outside of a transaction are actions of their own (`FindUser`,
`Verify`, `ReadExisting`, `LoadUser`, the reloads of the retry loop). A
transaction that consists of conditional UPDATEs, inserts and a commit is one
action (`Establish`, `RecordFailure`, `Replace`, `Revoke`, `StoreUser`): each
conditional UPDATE looks at the latest row and its lock keeps others away until
the commit, so no other order of two such transactions can be observed.
`Retry` is the loop that reloads after a lost race, `MAX_LOCKOUT_WRITE_ATTEMPTS`
times.

Two things a reader may not expect are in the code and so in the model. A
sign-in that has verified its secret reloads and clears the counter without
asking again whether the account was locked in the meantime; `LockoutStands`
therefore permits an established sign-in to end a lockout. And a sign-in that
read a clean counter stores its session without a compare-and-swap, so a failure
counted in between stays counted beside the new session, although the comment
of `establish` (`sign-in.use-case.ts:152`) says the two agree.


### TransactionBoundary

*State.* For every request: what became of each of its executions, numbered in
the order they begin (1 is the outermost), the mark `failed`, whether the
connection holds the transaction, which executions have written, which writes
are durable, and what the caller was told.

*Actions.* `Begin` and `Join` are the two branches of `execute`; an execution
writes, fails or ends, also when others it was awaited together with have not;
the end of the outermost one commits or, where the mark is set, rolls back. The
reply of a COMMIT may be lost, and the process may end at any point. Callers are
the most general ones: they pass a failure on or ignore it.

### Access and Authorization

*State.* The five tables are one function from ids to rows, with a revision
each; `pending` is what a request has decided in its snapshot and not yet
written; `projection` the row as a consumer of its published events has it.

*Actions.* One action decides (`Begin` reads, the aggregate answers; a refusal
ends the request), one writes: `Insert`, guarded by the unique keys, or
`Update`, guarded by the revision. The creation of a tenant writes its row and
the membership of its owner as one insert of two rows, since they share the
boundary. A caller may send the revision it expects. The changes of a profile, a name
or a permission are of active rows only; the counter of a sign-in is written whatever
the status, since a wrong secret is counted before the status is looked at.

`AccessLifecycle` is the abstract specification: one row at a time, created in use
and with no permissions, renamed, granted and revoked while it is in use, taken
out of use and put back. It has no requests, so it has no revisions. `Access`
implements it: the aggregate has judged the row that was loaded, and what is
written is one change of the row that is there.

`Authorization` adds one decision that goes through the statements of
`AuthorizeActionUseCase` (user, grant of the platform, memberships, assignments,
each role) while a request of `Access` commits in between. `seen` and `kept`
collect which facts were true at some moment, and which at every moment, of the
decision. `DecisionsAreJustified` says of an *allow* that each fact it rests on
was true at some moment while it was made, and of a *deny* that the facts
that would have allowed it did not stand all the time. That is the most that
statements outside of a transaction can give, and weaker than "there was a
moment at which the answer was right".

### Provisioning

Rows are told apart by email only. Every instance of the API, and the seed,
first looks for the configured administrator, provisions it (user, credential
and grant in one transaction, which the unique email may refuse: `Lose`) or
verifies what it found. The seed then creates its fixtures one transaction at a
time, with `seed_fixtures` written after the tenant; `Die` may come between any
two, and `StartSeed` begins again.

### FiscalYears and JalaliCalendar

A creation reads the years of its snapshot, decides, inserts and commits. The
INSERT runs the overlap trigger and the unique key: it looks at the latest rows
and at those of others that are not committed, for which it waits (see the
assumption under section 4). The generation of the periods in the same
transaction is the one of `FiscalPeriods`, where a year brings its periods with
it.

`JalaliCalendar` computes what `FiscalPeriods` takes for granted. It has the
conversions with their truncating division, the table of leap breaks, and the
generation policy: it asks for a plan of every range and compares the answer
with a reference calendar that counts the leap years of the 33-year cycle. The code's
table of eras agrees with that cycle from 1178 to 1633, and the run and the theorem
stay within. The sum over the eras before a year is a recursive function, and the
table of month lengths is kept as the days before each month.

### Accounts

The aggregate (`Root`, `Child`, the changes of the flags), the table with its
unique code, foreign key and level check, the repository's compare-and-swap of
whole rows, and `assembleTree` as the set of accounts that hang off a root. The
use cases that will call them are not written yet, so a request is what all other
requests of the system are: load, change, write. The type of an account, which
a child has from its parent and which never changes, and its name are left out.

One rule of the aggregate is *not* stated as a property: that a postable account
is a leaf (`account.errors.ts:128`). A loaded account knows of no children
(`account.ts:177-196` sets the count to 0), so `setPostable` refuses nothing
after a reload, and a child can be added to a parent that another request makes
postable meanwhile. The comment there leaves the count to "the application
layer", which does not exist yet.

### TenantScope

*State.* For every chain of calls (a request or a job) what it does, the
companies it has a proof of (`rights`), the scopes it is in, and the companies
whose rows it touched; the owner of every row; the jobs in the queue with the
company they are stamped with.

*Actions.* `RequestTenant` is the authorization guard and the interceptor
behind it, `RequestPlatform` a route without a company, `RunJob` the dispatcher,
`RunAsSystem`, `CreateTenant` and `RunAgain` the ways a use case enters
another scope, `Leave` the way back. A handler is the most general one: it reads
any row, names any company, adds, audits and enqueues, and what it gets is up to
the checks of `tenant-scoped.ts`.

### RateLimiter

A request consumes one unit per subject by one script each (INCR, and PEXPIRE
for the first), awaits it, and is handled if all allow it. A Redis that does
not answer is a refusal, whether or not it has counted the unit. `recent` is
history: what was handled in the last window, by the age of its unit, and
`Total` counts it.

### WorkerLoop and SchedulerLoop

The loops around `JobQueue`. `WorkerLoop` counts entries instead of naming them:
the batch sizes, the barrier over a batch, a command that fails, a Worker that
dies and the shutdown. `SchedulerLoop` keeps how long each slot is taken and
how long ago its job was enqueued, in relative time as in `Outbox`: a schedule
whose payload throws, a command that fails with or without its effect, a
Scheduler that dies with a slot.


## 3. Runs

| Run | Shows | Instance |
|---|---|---|
| `delivery` | *outbox:* `TypeOK`, `OneOwner`, `AttemptsBounded`, `LifecycleSpec` when runs are shorter than the visibility timeout; *jobs:* `KeyedEffectOnce` with every fault switched on | 2 events, 2 publisher runs, 2 attempts, a requeue; 2 jobs that share a keyed effect, 2 slots, slow deliveries, late records, a promoter that dies |
| `outbox_overrun` | `NothingBeforeCommit`, `NothingLost`, and `EventuallySettled` under fairness, in the worst case: overruns and lost replies | 1 event, 2 runs, visibility 1, run 1, a requeue |
| `outbox_terminal` | *violated:* `PublishedIsTerminal` | an overrun, nothing else |
| `jobs_careful` | `JobsTypeOK`, `DeliveryIsOwed` (which contains that no work is hidden), `EventuallyFinished` when deliveries are timely, pushes are not overtaken and promoters finish; a Worker still dies | 2 jobs, one of them keyed, 2 slots |
| `jobs_skipped` | *violated:* `CompletedMeansApplied` | a Worker dies once |
| `jobs_hidden` | *violated:* `WorkIsNeverHidden` | a promoter dies once |
| `progress` | *periods:* `TypeOK`, `TransitionsMatchEvents`, `FrameHasActivePeriod`, `ClosedPeriodsAreFrozen`, `RegisterSpec`, `EveryRequestEnds`; *Workers:* `BatchesAreDrained`, `ShutdownEnds`; *Schedulers:* `JobsKeepTheirDistance`, `SchedulersGoOn` | 2 years of a period, 2 transactions, 1 posting; 2 Workers of concurrency 2 with 4 jobs; 2 Schedulers with 2 schedules of intervals 3 and 2, the payload of the first always throws; 2 failures each |
| `fiscal_skew` | *violated:* `ActivePeriodIsOpen` | 1 year of 2 periods, 2 transactions |
| `requests` | everything requests meet in, see below | 1.1 million states |
| `auth_secret` | *violated:* `OldSecretsOpenNothing` | 2 requests, 2 secrets |
| `seed_retry` | *violated:* `RetriesCompleteTheSeed` | 1 user, 1 company, 2 runs of the seed |
| `limiter_reset` | *violated:* `ToldWhenTheWindowResets` | 2 requests, window of 2 ticks, limit 1 |

The parts of `requests`:

| Part | Properties | Instance |
|---|---|---|
| account | `TypeOK`, `LockoutsAreEarned`, `ChangesAreCounted`, `SessionsEndOnce`, `LockoutStands` | 2 requests, 2 secrets, threshold 2, clock to 2 |
| boundary | `NothingOfAFailure`, `AnswersMatchTheDatabase` | 1 request of up to 4 executions |
| access | `OneRowPerKey`, `AssignmentsStayInTheirCompany`, `EventsTellTheRow`, `RowLifecycleSpec` | 2 requests, 5 commits, 2 companies, 2 ids in the other tables, 1 user |
| decisions | `DecisionsAreJustified` | 1 writer with 2 commits beside 1 decision; a user with a role in each of 2 companies |
| provisioning | `ProvisioningIsRepeatable` | 2 instances, one of them the seed, 2 seeded users, 1 company of 2 pieces, 3 runs |
| years | `YearsAreApart`, `AnswersAreJustified` | 2 creations, 2 companies, 2 labels, 2 Jalali years and a range across them |
| calendar | `PeriodsTileTheYear` | 100 years, 18 to 23 March: every range around each Nowruz |
| chart | `ChartsStand` | 2 requests, 3 codes, 3 writes |
| scope | `TenantsAreIsolated` | 2 chains, 2 companies, a member of one and the administrator, scopes 2 deep, 1 job |
| limiter | `BurstsAreBounded` | 2 requests of one address and one identity, limit 1, window 2 |

Types are checked of the core of each sum and proved of the tables
(`AccessTypeOK`) and the limiter (`LimiterTypeOK`); the other components carry
theirs in their inductive invariants.

Why the bounds are enough:

- Every race listed under the hazards is between two actors: two publisher
  runs, two deliveries, two transactions, two requests, two Schedulers. A third
  would meet the same guards. Where a component has a proof module this bound
  is lifted for its safety properties.
- Two attempts distinguish "may be retried" from "the last one", which is where
  the budget is decided. Claim ids are fresh names: three (four with two events)
  allow a release and a second claim while the first run is alive.
  `outbox_overrun` explores only the lowest fresh id, since which one a claim gets
  makes no difference.
- A threshold of two failures is the least at which a counter and a lockout
  differ; a clock to 2 lets a lockout of duration 1 begin, expire and be
  followed by a fresh window. Two revisions of a period make a close, a reopen
  and a transaction whose snapshot is behind both.
- A stream of 6 entries (2 in `delivery`, where every slow delivery may
  append) leaves room for each job's attempts and for duplicates of them.
- Four executions are a request whose inner calls nest and follow each other.
  Five commits build an assignment from nothing (user, company with its owner,
  role, membership, assignment) and leave `DecisionsAreJustified` to start from a
  staffed company.
- Three runs of the seed are one that dies, one that completes, one that
  repeats. Three accounts are a grandchild; with two, one write is left for a
  change that races.
- A scope two deep is the nesting the code has. A hundred years are three cycles
  of 33 leap years.

`CHECK_DEADLOCK FALSE` is set where the bounds let the system stop: producers
that have enqueued all their jobs, an account at its last revision, a seed that
has run as often as it may. Symmetry is used in runs without liveness only.


## 4. Fairness and other assumptions

`Fairness` of `Outbox`: the clock advances, a run begins again whenever it is idle,
and a run that is alive takes its next step (weak fairness, the Worker's loop
and timer). The first three statements of a run are strongly fair: a run may die
at any of them, but not at the same one for ever. The failure of a transport or
of a mark is not assumed away: a row whose publication always fails settles as
failed by its budget, which is what `EventuallySettled` says.

`JobsFairness`: Workers and promoters keep polling and a command that is
due is issued. Workers die at most `MaxDrops` times. An execution is assumed to
return, with an effect or without; the code has no timeout for one that hangs.

`Careful` of `JobQueueProofs`, the constants of `jobs_careful`: a live delivery ends
within the visibility timeout (`~Slow`), a push writes its record before somebody
claims its entry (`~LateRecord`), and a promoter that has taken a job adds its next
attempt (`~PromoterDies`). The code enforces none of them. The first is a matter of
configuration, the second of two consecutive commands of one client, and without
the third `jobs_hidden` finds the lost job. `KeyedEffectOnce` assumes none of them.

`FiscalPeriods`: strong fairness of a transaction's steps, since InnoDB serves
the queue of a row lock in order and a waiting statement is not overtaken for
ever. `EveryRequestEnds` is thus about deadlock: a generation holds its period
rows while it waits for the pointer, and no operation waits for a period while
it holds the pointer.

`WorkerFairness`: the loop of a Worker goes on, and no execution lasts for
ever. The second half is an assumption the code does not enforce: `settle`
awaits every dispatch of a batch, and a job that never returns holds the loop and
the shutdown of its Worker. `ShutdownEnds` says no more than that nothing *else*
does.

`SchedulerFairness`: time passes and a Scheduler that runs goes on. Each
turn lasts at most `MaxLag` ticks, without which no distance between two jobs
could be promised. `SchedulesGoOn` (`SchedulersGoOn` in the run) needs more: the interval of a schedule is
longer than the back-off after a failed turn and the turn itself. Otherwise a
schedule whose payload always throws is met at every turn and those behind it
starve. The instance has such a schedule, with intervals long enough.

`Authentication` and the other parts of `requests` have no liveness property:
each request ends by its own code, retry loops being bounded.

*Assumptions about MySQL and Redis.* One statement, and one Redis command or
script, is atomic. InnoDB's snapshot is that of the first read; writes and
locking reads act on the latest row. The SELECT inside of the overlap trigger
is one of them: MySQL documents that a statement reading another table as part of
an INSERT sets next-key locks under REPEATABLE READ, and `FiscalYears` rests
on it. If it were a plain read, two overlapping years could both commit.


## 5. Proofs

Each theorem holds for every value of the constants that satisfies the `ASSUME` of
its module, which TLC evaluates in every run, and the hypothesis that the theorem
itself names, if any. The assumptions on constants say what the configuration of
the code enforces (limits, windows, intervals and concurrency are positive), that a
schedule or an attempt is one of finitely many, and that the values standing for
"nobody" and "nothing" are none of the others. All proofs are by the same argument:
an inductive invariant, shown by one lemma for each action. The invariants of the
loops, the limiter, the provisioning and the chart were checked by TLC on the
instances of section 3 before they were proved.

| Module | Theorem | Property |
|---|---|---|
| `OutboxProofs` | `TypeCorrect` | `TypeOK` |
| | `PublishesCommittedOnly`, `NoEventIsLost` | `NothingBeforeCommit`, `NothingLost` |
| | `EveryRecordHasOneOwner`, `BudgetIsKept` | `OneOwner`, `AttemptsBounded`, assuming `Timely` |
| | `RunsFollowTheLifecycle` | `LifecycleSpec` (refinement), assuming `Timely` |
| `JobQueueProofs` | `TypeCorrect` | `JobsTypeOK`, with the attempt budget |
| | `OneCallerWinsAKey` | `KeyedEffectOnce` |
| | `NoWorkIsHidden` | `WorkIsNeverHidden`, assuming `Careful` |
| | `TheQueueOwesEveryJob` | `DeliveryIsOwed` (refinement), assuming `Careful` |
| `FiscalPeriodsProofs` | `TypeCorrect` | `TypeOK` |
| | `TransitionsAreRecorded`, `GenerationIsIdempotent`, `PointerIsSeeded` | `TransitionsMatchEvents`, `GeneratedOnce`, `FrameHasActivePeriod` |
| | `PostingsRespectPeriods` | `ClosedPeriodsAreFrozen` (an action property) |
| | `RequestsActAtOnce` | `RegisterSpec` (refinement) |
| `AuthenticationProofs` | `TypeCorrect` | `TypeOK` |
| | `EveryLockoutIsEarned`, `NoChangeIsOverwritten`, `NoSessionEndsTwice` | `LockoutsAreEarned`, `ChangesAreCounted`, `SessionsEndOnce` |
| | `LockoutsStand` | `LockoutStands` (an action property) |
| `AccessProofs` | `KeysAreUnique`, `AssignmentsStay`, `EventsTell` | `OneRowPerKey`, `AssignmentsStayInTheirCompany`, `EventsTellTheRow`, assuming `DisjointTables` |
| | `RowsLiveTheirLives` | `RowLifecycleSpec` (refinement), assuming `DisjointTables` |
| | `AccessTypesHold` | `AccessTypeOK`, assuming `DisjointTables` |
| | `DecisionsRestOnFacts` | `DecisionsAreJustified` of `Authorization`, assuming `DisjointTables` |
| `SetupProofs` | `YearsStayApart`, `AnswersStayJustified` | `YearsAreApart`, `AnswersAreJustified` |
| | `PeriodsAlwaysTile` | `PeriodsTileTheYear`, for years within 1969 to 2249 and days 1 to 31 of March |
| | `ProvisioningStaysRepeatable` | `ProvisioningIsRepeatable` |
| | `ChartsAlwaysStand` | `ChartsStand` |
| `HandlingProofs` | `FailuresLeaveNothing`, `AnswersAreTrue` | `NothingOfAFailure`, `AnswersMatchTheDatabase`, for at least one execution |
| | `TenantsStayApart` | `TenantsAreIsolated`, assuming `MarksAreNoTenants` |
| | `BurstsStayBounded`, `LimiterTypesHold` | `BurstsAreBounded`, `LimiterTypeOK` |
| `LoopsProofs` | `BatchesDrain` | `BatchesAreDrained` |
| | `JobsStayApart` | `JobsKeepTheirDistance` (an action property) |

**Outbox.** `RunInv` adds to the types what the publisher's loop knows: a run
that publishes has a row left in its batch. `DeliveryInv` adds that rows in a
batch belong to committed transactions and that a row to be marked published
has been delivered; that is why nothing is lost even when two runs settle one
row. `LeaseInv` is the heart: a row tagged with a living run's claim id is being
published since that run's instant, and what is left of a run's batch is tagged
with its claim id; runs are younger than the visibility timeout, so what
`releaseStale` calls stale belongs to no living run (`StaleIsOrphaned`). Ownership, the budget and the refinement follow.

**JobQueue.** `KeyInv`: of the deliveries that share a key at most one is
between winning the key and giving it back, and once an effect has come about
the key stays set and nobody is in between. No timing is assumed, since SET NX
decides. `WorkInv` follows each job to whoever will act on it next: it waits in
the stream, is left in the group, is dispatched or promoted (`Kept`, whatever its
record says), or it is being retried, and then its record must still ask for that
(`Retried`), since a promoter drops a job whose record says anything else. The
two cases hold together because a push that writes its record late writes that of
an entry nobody has claimed (`RecordsAreEarly`), and because an entry is dispatched
by one slot at a time (`EntriesAreApart`). `Careful` (section 4) makes these two
hold, and a promoter add the attempt it took.

The refinement adds `OwedInv`. `SlotsArePending`: a dispatch has its entry in the group
until it has recorded the end of its job or handed it to a retry, so what it executes
is owed. `RetriesFollow`: a record that asks for a retry belongs to an attempt whose
entry is there still, about to be delayed or left behind by a dispatch that broke off,
or the attempt it asks for is on its way. Without it a ZADD could bring an attempt
about that follows from nothing: the record may have been written by a dispatch that
is long gone. `OnlyAddedJobs`: nothing is left of a job before it is added. From
`WorkInv` then follows that an added job that is not finished is owed an attempt
(`OwedRemains`), and each command is a step of the abstract queue or none
(`StepDelivers`). TLC checked the parts of `OwedInv` on the instance of `jobs_careful`
before they were proved.

**FiscalPeriods.** `Inv` joins `Held` (who has written a row holds its lock
and saw the latest committed state of it, by the revision), `SharedIsOpen` (the
state of a period under a shared lock is open), `Judged` and `Pointed` (what
each operation's early returns established of its snapshot) and
`PointerIsDefined`. The shared lock of the guard against the exclusive lock of
the update gives `PostingsRespectPeriods`; the revision in the WHERE clause
gives `TransitionsAreRecorded`.

The refinement rests on the same invariant. Every step but a commit leaves the rows
alone (`RowsOrCommit`), and a commit is a step of the register (`CommitIsAtomic`):
by `Judged` the state that a close or reopen saw is the state now, by `Held` no
period of the year has come about beside a generation, by `SharedIsOpen` the period
of a posting is open still, and by `Pointed` a generation leaves a pointer behind.
`GeneratedOnce` is not run on its own: the register generates a year at most once,
and the theorem states it.

**FiscalYears.** `Reserved` says what each stage of a creation may rely on:
one that has passed the trigger meets no committed year (`FreeOfYears`) and no
year that another has inserted and not committed (`FreeOfOthers`). Without the
second, the commit of one would invalidate the check of the other.

**JalaliCalendar.** The property is arithmetic, so the proof is about the operators
and the one step applies it. Dates and Julian day numbers are joined by the days
since 1 March: from there on months have the same lengths in every year, so the
conversion of a number gives the date whose number it is (`DateOfNumber`,
`MonthAndDayAfter`, `DayHasItsNumber`). In the era that begins in 1210, where every
year of the theorem lies, the code's year has a closed form (`YearInfo`), which needs
one value of the recursive sum over the eras (`EarlierEras`: a table satisfies the
recursion, so the function does). That the years also begin where the cycle of 33
says needs the number of leap years in any span, another induction by
`LeastElement` (`LeapYearsCount`). A day of a Jalali year then converts in both
directions (`DayOfYear`), also in the months before March where the code looks at
the leap position of the year that follows; the months fill the year
(`MonthsOfTheYear`, `MonthBounds`), and a range that begins before Nowruz falls into
the year before and cannot be the whole of it (`PlanOfRange`). The hypotheses of the
theorem bound the years from 1969 to 2249: the reference counts from the Nowruz of
1348, in March 1969, and the years to 2249 lie in one era of the code's table, which
the code goes on from only in 1635.

**Authentication.** `AccountInv` adds to the types and `LockoutsAreEarned` that
what a request holds *is* the account whenever the revision is unchanged
(`Fresh`), and that what was read lies in the past. `QuietStep` and `LastStep`
cover the steps that write nothing, or that end a request; each writing action
has a lemma of its own. `LockoutsStand` needs the same invariant, and the case
split of `StepCases`.

**Access.** `Sound` adds to the types and the three properties what each
pending request has decided: a loaded row is the stored one whenever the
revision is unchanged, and what is to be inserted is of its company. An update
by revision therefore never overwrites what it has not seen, and the projection
follows. `DisjointTables` says that an id names a row of one table.

The refinement adds `Lawful`, what the method of the aggregate has allowed of the
row that was loaded (`Legal`), and `Shaped`, that the rows that are absent look
alike. An insert enters rows (`InsertLives`); an update applies to the stored row
what was allowed of the loaded one, since by `Sound` the two are the same when the
revision is (`UpdateLives`).

**Authorization.** `DecisionInv` holds next to `Sound`. `Contemporary`: what the
decision has seen is of rows that exist, what was so all along is so now. `Founded`:
each membership and role it still has to look at it came to by rows it saw active.
`Thorough`: a role that has conferred the permission all along is among those still
to be looked at, or has been granted. Both need that memberships and assignments
keep what they refer to (`RowsStay`), which is why `Updatable` says that no request
renames them. It is proved in `AccessProofs`, on top of the tables.

**Provisioning.** `Administered` concerns the processes: a grant is of a user that
is there, and the step that makes a process serve has just found or created user,
credential and grant. `Seedable` concerns the seed, whose promise spans two runs. It
states what a run has behind it at each of its steps (`Behind`), so that a run that
is done leaves everything complete, and of a run after such a one that it finds all
(`FindsAll`): no step of it creates.

**Accounts.** `Charted` says that every level is that of the parent plus one, that
codes differ, that the answers tell the rows, and of each loaded account that it
is the stored one whenever the revision is unchanged and has its place in any case.
From levels to a tree there is an induction, since the assembly of the tree is a
recursive function: of the accounts that are not reached, one of the least level
would have a parent that is reached. The induction is written as the least-number
principle (`LeastElement`), which follows from the library's facts on well-founded
orders and takes a set, where the induction theorems of the library take an
operator that the provers cannot instantiate.

**RateLimiter.** The units handled lie in at most two lifetimes of the counter
within any window, each worth at most the limit; but how many lie at which age is
left open. `Budgeted` therefore says that there *is* a budget, a function of age
that grows by at least what was handled at each age (`Covers`), that reaches no more
than the counter at the age the counter was born and no more than another limit
beyond. A tick shifts the budget, a request that is handled raises it from its age
on, and the end of a lifetime begins a new one. That the sum of all ages is within
the budget is an induction by `LeastElement` (`TotalIsCovered`).

**WorkerLoop.** `Draining`: a Worker has something in flight only while it settles
(`OneBatchAtATime`), so a loop that claims or stops has nothing.

**SchedulerLoop.** `Spaced` joins three facts. A slot outlasts the turn that took
it (`SlotOutlastsTurn`); who is about to enqueue for a schedule finds its last job long
enough ago, and nobody else is about to do so unless the interval is within the lag
of a turn, where there is nothing to promise (`OneEnqueuesAtATime`); and the time
since the last job and what is left of the slot make up the interval but for the
lag of one turn (`SlotMakesUpInterval`). A Scheduler that dies with a
slot only makes the distance longer.

**TransactionBoundary.** `Stage` describes a request by the state of its
outermost execution. The mark is set as soon as an execution has failed, and
stays set as long as the boundary is open, which is why a caller that ignores a
failure cannot commit.

**TenantScope.** `Sound` is about the stack: every scope a chain is in is the
platform or a company it has a proof of, platform scopes lie below those of
companies, what was touched is within the rights, and a queued job carries the
rights of who enqueued it.

**Only model-checked.** The liveness properties (`EventuallySettled`,
`EventuallyFinished`, `EveryRequestEnds`, `ShutdownEnds`, `SchedulersGoOn`): the
provers at hand treat neither ENABLED nor fairness. Years before 1969 or after 2249
are in no theorem about the calendar. The violated properties are shown by
their runs.


## 6. Where the code and its documentation disagree

1. **`outbox_terminal`.** The store marks rows by id alone
   (`drizzle-outbox-store.ts:129`). A run that outlasts the visibility timeout
   moves a row that another run published back to retrying or failed, while
   `outbox.types.ts:37` calls published terminal. `AttemptsBounded` falls in
   the same way. Nothing is lost (`outbox_overrun`), but an event is sent again
   or shown as failed.
2. **`jobs_skipped`.** The idempotency key is set before the execution
   (`job-dispatcher.ts:196`) and released by the failure path only. A Worker
   that dies in the execution leaves it set, and the redelivery is recorded
   completed although nothing was done; `job-dispatcher.ts:61` says that only a
   *completed* execution causes a skip.
3. **`jobs_hidden`.** `promoteDue` removes the job from the delayed set before
   it adds the entry (`redis-job-queue.ts:167`). A promoter that dies in between
   loses the job; `job-dispatcher.ts:54` says a crash never hides work.
4. **`fiscal_skew`.** A close reads the pointer and writes the period, a
   selection reads the period and writes the pointer, neither locks what it
   reads. Both commit and the active period is closed, against
   `active-period.repository.ts:8`.
5. **`auth_secret`.** The secret of a sign-in is verified before its
   transaction (`sign-in.use-case.ts:118`). A change of the credential in
   between revokes the sessions that are there, and the sign-in adds one for the
   old secret, against `set-user-credential.use-case.ts:30`.
6. **`seed_retry`.** The seed creates a user and sets its credential in two
   transactions, and takes a user it finds for complete
   (`development-seed.runner.ts:190`). A run that dies in between leaves a user
   that no later run gives a credential; the backend's README says that
   re-running completes the missing pieces. The property also asks for one tenant
   of every company. A run that dies after `CreateTenant` and before the registry knows the
   tenant (line 298) makes the next one create a second, which violates that part by
   a longer path; the shortest, which TLC reports, is that of the credential.
7. **`limiter_reset`.** The reset a refused client is told is the next multiple
   of the window on the clock (`redis-rate-limiter.ts:83`), but a counter lives
   for a window from its own first unit. Who waits as told is refused again.

Met on the way, and not shown by a run of their own: the comment of
`sign-in.use-case.ts:152` against `:169` (section 2, Authentication); the leaf
rule of accounts (section 2, Accounts); the pointer that a generation moves for a
company that has selected a period meanwhile, against
`generate-fiscal-periods.use-case.ts:194` (section 2, FiscalPeriods);
`tenant-scope.ts:47`, which says that fire-and-forget work runs outside of the scope
it was started in, while `AsyncLocalStorage` keeps the store for promises nobody
awaits (harmless to `TenantsAreIsolated`: such work still belongs to the chain that
began it); and `businessDateToJalali`, which refuses the last days of the Jalali year
3177, those after 31 December 3798, although `jalali-calendar.ts:36` gives 1 to 3177
as its range.


## 7. What is not modelled

- *Outbox:* the redaction of failure texts and the log lines of a batch.
- *Jobs:* the trimming of the stream (approximate, at 100,000 entries), the
  lifetimes of records and keys, malformed entries, executions that never return.
- *Fiscal periods and years:* authorization of the requests and audit records.
- *Authentication:* unknown emails and their equal timing, the audit of refused
  requests, the validation of a presented session (one read).
- *Access:* the listings, the selection of an active company (it grants nothing).
- *Audit trail:* filters and listings. A record is a row like any other of the
  transaction it is recorded in; the company it is stamped with is in `TenantScope`.
- *Accounts:* use cases, which are not written.
- *Calendar, money, quantity:* time zones, which the runtime looks up; money,
  quantity and decimals, which are exact integer arithmetic without state.
- *Optimistic concurrency:* the limit of a revision at 2^31 - 1, and the
  translation of driver errors.
- *Elsewhere:* HTTP, configuration, logging, storage, the Redis connection and
  the health probes are wiring and I/O; controllers translate requests to the
  commands that the modelled use cases take; messages, errors and identifiers
  are values; the modules under `modules/` that hold no code beyond a placeholder
  (sales, purchase, payroll, tax and others) have nothing to model; the Next.js
  frontend holds no state the server relies on, and the tooling and scripts
  beside it do not take part in the running system. Together these are by far the
  larger part of the repository's lines.


## 8. Plan

Written, in the order of weight: `Outbox`, `OutboxLifecycle`, `JobQueue`, `AtLeastOnce`,
`FiscalPeriods`, `Authentication`, `TransactionBoundary`, `Access`,
`AccessLifecycle`, `Authorization`, `Provisioning`, `FiscalYears`,
`SchedulerLoop`, `WorkerLoop`, `RateLimiter`, `TenantScope`, `JalaliCalendar`,
`Accounts`, and the proofs listed above. What would come next:

1. The lifetimes of job records and keys, and the trimming of the stream.
2. `Accounts` once use cases write accounts: the leaf rule across requests is
   the property to state then.

---------------------------- MODULE Provisioning ----------------------------
(***************************************************************************)
(* How the first identities come to be.  Every instance of the API, and    *)
(* the seed command, first runs BootstrapSystemAdmin, which provisions the *)
(* configured administrator or verifies the one it finds.  People sign up  *)
(* meanwhile.  The development seed then creates its users and companies   *)
(* piece by piece, each piece in a transaction of its own; it may die      *)
(* between any two and is run again.                                       *)
(***************************************************************************)
EXTENDS Integers

CONSTANTS
  Admin,       \* the configured email of the administrator
  SeedUsers,   \* the emails of the seeded users
  SeedCompanies,   \* the fixture keys of the seeded companies
  Pieces,      \* what a company needs beyond its owner: memberships, roles,
               \* permissions, assignments, the fiscal year
  People,      \* emails that people sign up with, or are given an account for
  Instances,   \* processes that bootstrap
  Seeder,      \* the one that is the seed command
  MaxRuns      \* bound: how often the seed is run

VARIABLES
  users, credentials, grants,   \* emails of rows, by table
  instance,    \* where each process is in its bootstrap
  created,     \* how many tenants were created for each company
  has,         \* the pieces each of these tenants has
  registry,    \* seed_fixtures: the tenant recorded for a company, or 0
  run,         \* the run of the seed under way, or the last one
  runs         \* how many there have been

provisioningVars == <<users, credentials, grants, instance, created, has, registry, run, runs>>

-----------------------------------------------------------------------------

Emailed == {Admin} \cup SeedUsers
Tables == <<users, credentials, grants>>
Seeded == <<created, has, registry, run, runs>>

ProvisioningInit ==
  /\ users = {} /\ credentials = {} /\ grants = {}
  /\ instance = [i \in Instances |-> "start"]
  /\ created = [c \in SeedCompanies |-> 0]
  /\ has = [c \in SeedCompanies |-> [n \in 1..MaxRuns |-> {}]]
  /\ registry = [c \in SeedCompanies |-> 0]
  /\ run = [step |-> "none"] /\ runs = 0

\* SignUp: the user and the credential commit together.
SignUp(email) ==
  /\ email \in People \ users
  /\ users' = users \cup {email}
  /\ credentials' = credentials \cup {email}
  /\ UNCHANGED <<grants, instance, Seeded>>

\* CreateUser and SetUserCredential, asked for one by one.
CreateUserAlone(email) ==
  /\ email \in People \ users
  /\ users' = users \cup {email}
  /\ UNCHANGED <<credentials, grants, instance, Seeded>>

SetUserCredential(email) ==
  /\ email \in People \cap users
  /\ credentials' = credentials \cup {email}
  /\ UNCHANGED <<users, grants, instance, Seeded>>

-----------------------------------------------------------------------------

Advance(i, from, to) == instance[i] = from /\ instance' = [instance EXCEPT ![i] = to]

\* findByEmail, before the boundary and again inside it.
Look(i) ==
  /\ Advance(i, "start", IF Admin \in users THEN "verify" ELSE "provision")
  /\ UNCHANGED <<Tables, Seeded>>

\* The user, its credential and the grant commit together.
Provision(i) ==
  /\ Advance(i, "provision", "created") /\ Admin \notin users
  /\ users' = users \cup {Admin}
  /\ credentials' = credentials \cup {Admin}
  /\ grants' = grants \cup {Admin}
  /\ UNCHANGED Seeded

\* Mutant of LoseRace: whoever won the email will do.
LoseContent(i) ==
  /\ Advance(i, "provision", "verified") /\ Admin \in users
  /\ UNCHANGED <<Tables, Seeded>>

\* The unique email refuses the insert: somebody else's user is verified.
LoseRace(i) ==
  /\ Advance(i, "provision", "verify") /\ Admin \in users
  /\ UNCHANGED <<Tables, Seeded>>

VerifyAdmin(i) ==
  /\ Advance(i, "verify", "verified")
  /\ Admin \in grants /\ Admin \in credentials
  /\ UNCHANGED <<Tables, Seeded>>

\* An identity that is not a complete administrator is refused, and the process
\* ends; or it fails, or dies, for another reason.
Stop(i) ==
  /\ instance[i] \in {"provision", "verify"}
  /\ instance' = [instance EXCEPT ![i] = "stopped"]
  /\ UNCHANGED <<Tables, Seeded>>

Restart(i) ==
  /\ i # Seeder
  /\ instance[i] \in {"stopped", "created", "verified"}
  /\ instance' = [instance EXCEPT ![i] = "start"]
  /\ UNCHANGED <<Tables, Seeded>>

-----------------------------------------------------------------------------

Done == run.step = "done"
Seeding == run.step \notin {"none", "done", "dead"}

\* The seed command starts, and its bootstrap with it.
StartSeed ==
  /\ ~ Seeding /\ runs < MaxRuns
  /\ instance' = [instance EXCEPT ![Seeder] = "start"]
  /\ run' = [step |-> "users", left |-> SeedUsers, companies |-> SeedCompanies,
             at |-> Admin, tenant |-> 0, loaded |-> registry,
             new |-> FALSE, again |-> Done]
  /\ runs' = runs + 1
  /\ UNCHANGED <<Tables, created, has, registry>>

Seeds(step) ==
  /\ run.step = step /\ instance[Seeder] \in {"created", "verified"}
  /\ UNCHANGED <<instance, runs, grants>>

ReuseUser(email) ==
  /\ Seeds("users") /\ email \in run.left /\ email \in users
  /\ run' = [run EXCEPT !.left = @ \ {email}]
  /\ UNCHANGED <<users, credentials, created, has, registry>>

\* ensureUser of an email not found: the user commits, then its credential.
SeedUser(email) ==
  /\ Seeds("users") /\ email \in run.left /\ email \notin users
  /\ users' = users \cup {email}
  /\ run' = [run EXCEPT !.step = "credential", !.at = email,
                        !.left = @ \ {email}, !.new = TRUE]
  /\ UNCHANGED <<credentials, created, has, registry>>

SeedCredential ==
  /\ Seeds("credential")
  /\ credentials' = credentials \cup {run.at}
  /\ run' = [run EXCEPT !.step = "users"]
  /\ UNCHANGED <<users, created, has, registry>>

UsersSeeded ==
  /\ Seeds("users") /\ run.left = {}
  /\ run' = [run EXCEPT !.step = "companies"]
  /\ UNCHANGED <<users, credentials, created, has, registry>>

\* The tenant that the registry knew when the run began, if it knew one.
ReuseTenant(c) ==
  /\ Seeds("companies") /\ c \in run.companies /\ run.loaded[c] # 0
  /\ run' = [run EXCEPT !.step = "pieces", !.at = c, !.tenant = run.loaded[c],
                        !.companies = @ \ {c}]
  /\ UNCHANGED <<users, credentials, created, has, registry>>

\* CreateTenant commits the tenant and its owner's membership.
SeedTenant(c) ==
  /\ Seeds("companies") /\ c \in run.companies /\ run.loaded[c] = 0
  /\ created' = [created EXCEPT ![c] = @ + 1]
  /\ run' = [run EXCEPT !.step = "record", !.at = c, !.tenant = created'[c],
                        !.companies = @ \ {c}, !.new = TRUE]
  /\ UNCHANGED <<users, credentials, has, registry>>

\* Mutant of RecordTenant: the registry is left to a later version.
ForgetTenant ==
  /\ Seeds("record")
  /\ run' = [run EXCEPT !.step = "pieces"]
  /\ UNCHANGED <<users, credentials, created, has, registry>>

\* registry.record, in a statement of its own.
RecordTenant ==
  /\ Seeds("record")
  /\ registry' = [registry EXCEPT ![run.at] = run.tenant]
  /\ run' = [run EXCEPT !.step = "pieces"]
  /\ UNCHANGED <<users, credentials, created, has>>

\* What the tenant lacks is created, each piece in its own transaction.
SeedPiece(piece) ==
  /\ Seeds("pieces") /\ piece \notin has[run.at][run.tenant]
  /\ has' = [has EXCEPT ![run.at][run.tenant] = @ \cup {piece}]
  /\ run' = [run EXCEPT !.new = TRUE]
  /\ UNCHANGED <<users, credentials, created, registry>>

TenantSeeded ==
  /\ Seeds("pieces") /\ has[run.at][run.tenant] = Pieces
  /\ run' = [run EXCEPT !.step = "companies"]
  /\ UNCHANGED <<users, credentials, created, has, registry>>

FinishSeed ==
  /\ Seeds("companies") /\ run.companies = {}
  /\ run' = [run EXCEPT !.step = "done"]
  /\ UNCHANGED <<users, credentials, created, has, registry>>

\* The run throws, or its process dies.
DieSeeding ==
  /\ Seeding
  /\ run' = [run EXCEPT !.step = "dead"]
  /\ instance' = [instance EXCEPT ![Seeder] = "stopped"]
  /\ UNCHANGED <<Tables, created, has, registry, runs>>

ProvisioningNext ==
  \/ \E email \in Emailed :
       \/ SignUp(email) \/ CreateUserAlone(email) \/ SetUserCredential(email)
       \/ ReuseUser(email) \/ SeedUser(email)
  \/ \E i \in Instances :
       \/ Look(i) \/ Provision(i) \/ LoseRace(i) \/ VerifyAdmin(i) \/ Stop(i) \/ Restart(i)
  \/ StartSeed \/ SeedCredential \/ UsersSeeded \/ RecordTenant
  \/ \E c \in SeedCompanies : ReuseTenant(c) \/ SeedTenant(c)
  \/ \E piece \in Pieces : SeedPiece(piece)
  \/ TenantSeeded \/ FinishSeed \/ DieSeeding

ProvisioningSpec == ProvisioningInit /\ [][ProvisioningNext]_provisioningVars

-----------------------------------------------------------------------------
(* Properties.                                                             *)

\* A process that goes on to serve has an administrator that can sign in:
\* whoever won the race for the email, and whatever people do with it.
ServingMeansAdministrator ==
  \A i \in Instances : instance[i] \in {"created", "verified"} =>
    Admin \in users /\ Admin \in credentials /\ Admin \in grants

\* backend README: after a run that completed, "a second run changes nothing".
RepeatsCreateNothing == run.step # "none" /\ run.again => ~ run.new

\* Both of these.
ProvisioningIsRepeatable == ServingMeansAdministrator /\ RepeatsCreateNothing

\* backend README: the seed is retry-safe; "re-running after a partial failure
\* completes the missing pieces".  A run that is done leaves every user with its
\* credential, and of every company one tenant with all its pieces.
RetriesCompleteTheSeed ==
  Done => /\ SeedUsers \subseteq credentials
          /\ \A c \in SeedCompanies :
               created[c] = 1 /\ has[c][registry[c]] = Pieces

=============================================================================

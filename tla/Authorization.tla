--------------------------- MODULE Authorization ---------------------------
(***************************************************************************)
(* Decisions on access while it is administered.  AuthorizeActionUseCase   *)
(* reads the user, the grant of the platform, the memberships, their       *)
(* assignments, and each role with its permissions, by statements of their *)
(* own outside a transaction, so between any two of them a request of      *)
(* Access may commit.                                                      *)
(*                                                                         *)
(* One decision at a time: decisions write nothing that decisions read.    *)
(***************************************************************************)
EXTENDS Access

CONSTANT NoTenant   \* the target of a request for a platform permission

VARIABLES
  admins,     \* the users with a grant of system-admin
  decision    \* the decision under way, or the last one made

decisionVars == <<row, revision, pending, projection, writes, admins, decision>>

-----------------------------------------------------------------------------

\* What permissions rest on; a decision asks nothing of tenants.
Facts ==
  {<<"active", id>> : id \in {i \in Ids \ Tenants : Active(i)}}
    \cup {<<"admin", user>> : user \in admins}
    \cup {<<"grants", g[1], g[2]>> :
             g \in {g \in Roles \X Permissions :
                     Exists(g[1]) /\ g[2] \in row[g[1]].permissions}}

\* The decision goes on with these fields; the facts are those of this moment.
Go(fields) ==
  decision' = [field \in DOMAIN decision |->
    IF field \in DOMAIN fields THEN fields[field] ELSE decision[field]]

Over == decision.step \in {"idle", "allow", "deny", "conflict"}

AuthorizationInit == AccessInit /\ admins = {} /\ decision = [step |-> "idle"]

Begun(user, target, permission) ==
  [step |-> "user", user |-> user, target |-> target, permission |-> permission,
   memberships |-> {}, roles |-> {}, current |-> NoTenant, granted |-> FALSE,
   seen |-> Facts, kept |-> Facts]

Authorize(user, target, permission) ==
  /\ Over
  /\ decision' = Begun(user, target, permission)
  /\ UNCHANGED <<accessVars, admins>>

\* Mutant of ReadUser: an account that was deactivated is still a subject.
ReadAnyUser ==
  /\ decision.step = "user"
  /\ Go([step |-> IF Exists(decision.user) THEN "admin" ELSE "deny"])
  /\ UNCHANGED <<accessVars, admins>>

\* users.get: an account that is missing or inactive is no subject.
ReadUser ==
  /\ decision.step = "user"
  /\ Go([step |-> IF Active(decision.user) THEN "admin" ELSE "deny"])
  /\ UNCHANGED <<accessVars, admins>>

\* hasSystemAdmin: an administrator holds the whole catalog.
ReadAdmin ==
  /\ decision.step = "admin"
  /\ Go([step |-> IF decision.user \in admins THEN "allow" ELSE "memberships"])
  /\ UNCHANGED <<accessVars, admins>>

\* A request whose tenant header contradicts its path.
DenyConflict ==
  /\ decision.step = "admin" /\ decision.target # NoTenant
  /\ Go([step |-> "conflict"])
  /\ UNCHANGED <<accessVars, admins>>

\* findByUserAndTenant, or findByUserId for a platform permission.
ReadMemberships ==
  /\ decision.step = "memberships"
  /\ LET found == {m \in Memberships :
                     /\ Active(m) /\ row[m].key = decision.user
                     /\ decision.target \in {NoTenant, row[m].tenant}}
     IN Go([step |-> "assignments", memberships |-> found])
  /\ UNCHANGED <<accessVars, admins>>

\* findByMembershipId of one membership after the other.
ReadAssignments(m) ==
  /\ decision.step = "assignments" /\ m \in decision.memberships
  /\ Go([step |-> "roles", memberships |-> decision.memberships \ {m},
         roles |-> {r \in Roles : \E a \in Assignments :
                      Active(a) /\ HoldsPair(a, m, r)}])
  /\ UNCHANGED <<accessVars, admins>>

\* roles.get reads the row, and by another statement the permissions; what an
\* inactive role holds is not looked at.
ReadRole(r) ==
  /\ decision.step = "roles" /\ r \in decision.roles
  /\ Go([step |-> IF Active(r) THEN "permissions" ELSE "roles", current |-> r,
         roles |-> decision.roles \ {r}])
  /\ UNCHANGED <<accessVars, admins>>

ReadPermissions ==
  /\ decision.step = "permissions"
  /\ Go([step |-> "roles",
         granted |-> decision.granted
           \/ decision.permission \in row[decision.current].permissions])
  /\ UNCHANGED <<accessVars, admins>>

NextMembership ==
  /\ decision.step = "roles" /\ decision.roles = {}
  /\ Go([step |-> "assignments"])
  /\ UNCHANGED <<accessVars, admins>>

\* decideAuthorization on the evidence; a refusal is audited.
Decide ==
  /\ decision.step = "assignments" /\ decision.memberships = {}
  /\ Go([step |-> IF decision.granted THEN "allow" ELSE "deny"])
  /\ UNCHANGED <<accessVars, admins>>

\* The facts a decision under way has been contemporary with.
Witness ==
  decision' =
    IF Over THEN decision
    ELSE [decision EXCEPT !.seen = @ \cup Facts', !.kept = @ \cap Facts']

\* A request commits while the decision is under way.
AdministerGrants ==
  /\ AccessNext /\ UNCHANGED admins
  /\ Witness

\* The bootstrap grants system-admin; nothing takes it back.
GrantSystemAdmin(user) ==
  /\ Exists(user) /\ admins' = admins \cup {user}
  /\ UNCHANGED accessVars
  /\ Witness

DecisionNext ==
  \/ \E user \in Persons, target \in Tenants \cup {NoTenant}, permission \in Permissions :
       Authorize(user, target, permission)
  \/ ReadUser \/ ReadAdmin \/ DenyConflict \/ ReadMemberships
  \/ \E m \in Memberships : ReadAssignments(m)
  \/ \E r \in Roles : ReadRole(r)
  \/ ReadPermissions \/ NextMembership \/ Decide
  \/ AdministerGrants
  \/ \E user \in Persons : GrantSystemAdmin(user)

AuthorizationSpec == AuthorizationInit /\ [][DecisionNext]_decisionVars

-----------------------------------------------------------------------------
(* Properties.                                                             *)

\* These facts confer the permission: the subject is active, and is a system
\* administrator or holds, by an active assignment of an active membership of
\* the target, an active role with the permission.
Conferred(facts, user, target, permission) ==
  /\ <<"active", user>> \in facts
  /\ \/ <<"admin", user>> \in facts
     \/ \E m \in Memberships, a \in Assignments, r \in Roles :
          /\ {<<"active", m>>, <<"active", a>>, <<"active", r>>,
              <<"grants", r, permission>>} \subseteq facts
          /\ row[m].key = user /\ row[a].key = <<m, r>>
          /\ target \in {NoTenant, row[m].tenant}

\* Whatever commits while a decision reads, it allows only what rests on facts
\* that each were true at some moment of it, and denies nothing that was
\* conferred by one role from its first moment to its last.  (The facts an allow
\* rests on need not have been true together.)
DecisionsAreJustified ==
  /\ decision.step = "allow" =>
       Conferred(decision.seen, decision.user, decision.target, decision.permission)
  /\ decision.step = "deny" =>
       ~ Conferred(decision.kept, decision.user, decision.target, decision.permission)

=============================================================================

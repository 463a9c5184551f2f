------------------------------- MODULE Access -------------------------------
(***************************************************************************)
(* The administration of access: users, tenants, memberships, roles with   *)
(* their permissions and the assignments of roles to memberships, written  *)
(* by overlapping requests.  A request reads in the snapshot of its        *)
(* transaction, decides on the aggregate it loaded, and then writes whole  *)
(* rows: inserts that the unique keys guard, or an update guarded by the   *)
(* revision.                                                               *)
(*                                                                         *)
(* The five tables are one function from ids to rows.  The key of a row is *)
(* the email of a user, the name of a tenant or a role, the user of a      *)
(* membership, the pair of an assignment.                                  *)
(***************************************************************************)
EXTENDS Integers

CONSTANTS
  Persons, Tenants, Memberships, Roles, Assignments,   \* ids of rows, by table
  Emails, Names, Permissions,
  Writers,
  MaxCommits                       \* bound: committed requests

VARIABLES
  row,         \* the committed row of each id, but for its revision
  revision,    \* its revision; 0 when there is no row
  pending,     \* what each request has decided and not yet written
  projection,  \* the row as a consumer of its published events has it
  writes       \* how many requests have committed

accessVars == <<row, revision, pending, projection, writes>>

-----------------------------------------------------------------------------

Ids == Persons \cup Tenants \cup Memberships \cup Roles \cup Assignments
Keys == Emails \cup Names \cup Persons \cup (Memberships \X Roles)
Platform == "platform"
Statuses == {"active", "inactive"}
Row == [tenant : Tenants \cup {Platform}, key : Keys, status : Statuses,
        permissions : SUBSET Permissions]
NoRow == [status |-> "none"]
Idle == [step |-> "idle"]

Exists(id) == revision[id] > 0
Active(id) == Exists(id) /\ row[id].status = "active"

SameTable(a, b) ==
  \E table \in {Persons, Memberships, Roles, Assignments} : a \in table /\ b \in table

\* The unique keys users_email, memberships_user_tenant, roles_tenant_name and
\* membership_roles_pair; tenants have none.
Taken(id, r) ==
  \E other \in Ids \ {id} :
    /\ SameTable(id, other) /\ Exists(other)
    /\ row[other].tenant = r.tenant /\ row[other].key = r.key

\* The factories of the aggregates.
Created(tenant, key) ==
  [tenant |-> tenant, key |-> key, status |-> "active", permissions |-> {}]

\* What a method of an aggregate does to it, and what its event says.
Applied(r, change) ==
  [tenant |-> r.tenant,
   key |-> IF change.what = "rename" THEN change.to ELSE r.key,
   status |-> IF change.what = "status" THEN change.to ELSE r.status,
   permissions |->
     IF change.what = "grant" THEN r.permissions \cup {change.to}
     ELSE IF change.what = "revoke" THEN r.permissions \ {change.to}
     ELSE r.permissions]

Change(what, to) == [what |-> what, to |-> to]

AccessInit ==
  /\ row = [id \in Ids |-> NoRow]
  /\ revision = [id \in Ids |-> 0]
  /\ pending = [t \in Writers |-> Idle]
  /\ projection = [id \in Ids |-> NoRow]
  /\ writes = 0

-----------------------------------------------------------------------------

\* The factory has generated the id: a UUID nobody else holds.
Fresh(id) ==
  /\ ~ Exists(id)
  /\ \A t \in Writers :
       pending[t].step = "insert" => id \notin DOMAIN pending[t].new

\* One new row.
Only(id, r) == [one \in {id} |-> r]

\* new: the rows that the request will insert, by id.
Prepare(t, new) ==
  /\ \A id \in DOMAIN new : Fresh(id)
  /\ pending' = [pending EXCEPT ![t] = [step |-> "insert", new |-> new]]
  /\ UNCHANGED <<row, revision, projection, writes>>

\* repository.get, and then the method of the aggregate.
Load(t, id, change, expected) ==
  /\ pending' = [pending EXCEPT ![t] =
       [step |-> "update", id |-> id, loaded |-> row[id],
        seen |-> revision[id], change |-> change, expected |-> expected]]
  /\ UNCHANGED <<row, revision, projection, writes>>

CreateUser(t, id, email) ==
  /\ id \in Persons /\ ~ Taken(id, Created(Platform, email))
  /\ Prepare(t, Only(id, Created(Platform, email)))

\* The email, of which the sign-in is by; the display name is left out.
UpdateUser(t, id, email, expected) ==
  /\ id \in Persons /\ Active(id) /\ row[id].key # email
  /\ Load(t, id, Change("rename", email), expected)

\* A sign-in writes the counter of its failures at the revision it loaded, and
\* publishes nothing.  A wrong secret is counted before the status is looked at, and
\* whoever loads the user again to write does not look at it.
CountSignIn(t, id) ==
  /\ id \in Persons /\ Exists(id)
  /\ Load(t, id, Change("count", "count"), revision[id])

\* The tenant and the membership of its owner commit together.
CreateTenant(t, id, name, m, owner) ==
  /\ id \in Tenants /\ m \in Memberships /\ Exists(owner)
  /\ Prepare(t, [new \in {id, m} |-> Created(id, IF new = id THEN name ELSE owner)])

\* The name it has already is written again.
UpdateTenant(t, id, name, expected) ==
  /\ id \in Tenants /\ Active(id)
  /\ Load(t, id, Change("rename", name), expected)

CreateMembership(t, id, tenant, user) ==
  /\ id \in Memberships /\ Exists(tenant) /\ Exists(user)
  /\ ~ Taken(id, Created(tenant, user))
  /\ Prepare(t, Only(id, Created(tenant, user)))

\* The name is left to the unique key.
CreateRole(t, id, tenant, name) ==
  /\ id \in Roles /\ Exists(tenant)
  /\ Prepare(t, Only(id, Created(tenant, name)))

\* The aggregate refuses the status it has.
SetStatus(t, id, to, expected) ==
  /\ Exists(id) /\ row[id].status # to
  /\ Load(t, id, Change("status", to), expected)

ChangeUserStatus(t, id, to, expected) == id \in Persons /\ SetStatus(t, id, to, expected)
ChangeTenantStatus(t, id, to, expected) == id \in Tenants /\ SetStatus(t, id, to, expected)
ChangeMembershipStatus(t, id, to, expected) ==
  id \in Memberships /\ SetStatus(t, id, to, expected)
ChangeRoleStatus(t, id, to, expected) == id \in Roles /\ SetStatus(t, id, to, expected)

\* A role that has the name already is answered without a write.
UpdateRole(t, id, name, expected) ==
  /\ id \in Roles /\ Active(id) /\ row[id].key # name
  /\ Load(t, id, Change("rename", name), expected)

GrantRolePermission(t, id, permission, expected) ==
  /\ id \in Roles /\ Active(id) /\ permission \notin row[id].permissions
  /\ Load(t, id, Change("grant", permission), expected)

RevokeRolePermission(t, id, permission, expected) ==
  /\ id \in Roles /\ Active(id) /\ permission \in row[id].permissions
  /\ Load(t, id, Change("revoke", permission), expected)

SameTenant(m, r) == Exists(m) /\ Exists(r) /\ row[m].tenant = row[r].tenant
HoldsPair(id, m, r) == Exists(id) /\ row[id].key = <<m, r>>
Unassigned(m, r) == \A id \in Assignments : ~ HoldsPair(id, m, r)

\* Mutant of AssignRole: the role is looked up in any company.
AssignAnyRole(t, id, m, r) ==
  /\ id \in Assignments /\ Exists(m) /\ Active(r) /\ Unassigned(m, r)
  /\ Prepare(t, Only(id, Created(row[m].tenant, <<m, r>>)))

\* A pair that was assigned before is activated again at the revision it was
\* loaded with; a pair never seen becomes a new row.
AssignRole(t, id, m, r) ==
  /\ id \in Assignments /\ SameTenant(m, r) /\ Active(r)
  /\ \/ /\ HoldsPair(id, m, r) /\ row[id].status = "inactive"
        /\ Load(t, id, Change("status", "active"), revision[id])
     \/ /\ Unassigned(m, r)
        /\ Prepare(t, Only(id, Created(row[m].tenant, <<m, r>>)))

RemoveRole(t, id, expected) ==
  /\ id \in Assignments /\ Active(id)
  /\ Load(t, id, Change("status", "inactive"), expected)

-----------------------------------------------------------------------------

\* The state with the rows of new inserted at Revision.initial.
Inserted(t, new) ==
  /\ row' = [id \in Ids |-> IF id \in DOMAIN new THEN new[id] ELSE row[id]]
  /\ revision' = [id \in Ids |-> IF id \in DOMAIN new THEN 1 ELSE revision[id]]
  /\ projection' =
       [id \in Ids |-> IF id \in DOMAIN new THEN new[id] ELSE projection[id]]
  /\ pending' = [pending EXCEPT ![t] = Idle]
  /\ writes' = writes + 1

\* Mutant of Insert: the tables have no unique key.
InsertAnyway(t) ==
  /\ pending[t].step = "insert"
  /\ Inserted(t, pending[t].new)

\* repository.add, the events that tell of the new rows, and the commit.
Insert(t) ==
  /\ pending[t].step = "insert"
  /\ \A id \in DOMAIN pending[t].new : ~ Taken(id, pending[t].new[id])
  /\ Inserted(t, pending[t].new)

\* The loaded aggregate is written as a whole, permissions included; the event
\* tells only of the change.
Written(t, p) ==
  /\ row' = [row EXCEPT ![p.id] = Applied(p.loaded, p.change)]
  /\ revision' = [revision EXCEPT ![p.id] = p.expected + 1]
  /\ projection' = [projection EXCEPT ![p.id] = Applied(@, p.change)]
  /\ pending' = [pending EXCEPT ![t] = Idle]
  /\ writes' = writes + 1

\* Mutant of Update: UPDATE ... WHERE id = ?.
UpdateUnguarded(t) ==
  /\ pending[t].step = "update"
  /\ Written(t, pending[t])

\* UPDATE ... WHERE revision = expected, the event and the commit.
Update(t) ==
  /\ pending[t].step = "update"
  /\ LET p == pending[t] IN
       /\ revision[p.id] = p.expected
       /\ ~ Taken(p.id, Applied(p.loaded, p.change))
       /\ Written(t, p)

\* A conflict, an error or a crash: the transaction rolls back.
Fail(t) ==
  /\ pending[t] # Idle
  /\ pending' = [pending EXCEPT ![t] = Idle]
  /\ UNCHANGED <<row, revision, projection, writes>>

Create(t, id) ==
  \/ \E email \in Emails : CreateUser(t, id, email)
  \/ \E name \in Names, m \in Memberships, owner \in Persons :
       CreateTenant(t, id, name, m, owner)
  \/ \E tenant \in Tenants :
       \/ \E user \in Persons : CreateMembership(t, id, tenant, user)
       \/ \E name \in Names : CreateRole(t, id, tenant, name)
  \/ \E m \in Memberships, r \in Roles : AssignRole(t, id, m, r)

\* The client states a revision it has read, so one the row has had by now.
Modify(t, id) ==
  \/ CountSignIn(t, id)
  \/ \E expected \in 1..revision[id] :
       \/ \E email \in Emails : UpdateUser(t, id, email, expected)
       \/ \E to \in Statuses :
            \/ ChangeUserStatus(t, id, to, expected)
            \/ ChangeTenantStatus(t, id, to, expected)
            \/ ChangeMembershipStatus(t, id, to, expected)
            \/ ChangeRoleStatus(t, id, to, expected)
       \/ \E name \in Names :
            \/ UpdateTenant(t, id, name, expected)
            \/ UpdateRole(t, id, name, expected)
       \/ \E permission \in Permissions :
            \/ GrantRolePermission(t, id, permission, expected)
            \/ RevokeRolePermission(t, id, permission, expected)
       \/ RemoveRole(t, id, expected)

\* A new request.
BeginChange(t) ==
  /\ pending[t] = Idle /\ writes < MaxCommits
  /\ \E id \in Ids : Create(t, id) \/ Modify(t, id)

AccessNext == \E t \in Writers : BeginChange(t) \/ Insert(t) \/ Update(t) \/ Fail(t)

AccessSpec == AccessInit /\ [][AccessNext]_accessVars

-----------------------------------------------------------------------------
(* Properties.                                                             *)

Changes ==
  [what : {"status"}, to : Statuses] \cup [what : {"rename"}, to : Names \cup Emails]
    \cup [what : {"grant", "revoke"}, to : Permissions]
    \cup [what : {"count"}, to : {"count"}]

Inserts == {p \in {pending[t] : t \in Writers} : p.step = "insert"}
Updates == {p \in {pending[t] : t \in Writers} : p.step = "update"}

\* Rows and requests keep their types, and a row has a revision.
AccessTypeOK ==
  /\ DOMAIN row = Ids /\ DOMAIN projection = Ids
  /\ revision \in [Ids -> Nat]
  /\ \A id \in Ids : row[id] \in (IF Exists(id) THEN Row ELSE {NoRow})
  /\ DOMAIN pending = Writers
  /\ \A t \in Writers : pending[t].step \in {"idle", "insert", "update"}
  /\ \A p \in Inserts :
       DOMAIN p.new \subseteq Ids /\ \A id \in DOMAIN p.new : p.new[id] \in Row
  /\ \A p \in Updates :
       /\ p.id \in Ids /\ p.loaded \in Row /\ p.change \in Changes
       /\ p.seen \in Nat /\ p.expected \in 1..p.seen

\* However requests overlap, an email names one user, a user has one membership
\* of a company, a name names one role of a company, and a pair has one
\* assignment.
OneRowPerKey ==
  \A id \in Ids : Exists(id) => ~ Taken(id, row[id])

\* An assignment joins a membership and a role of its own company.
AssignmentsStayInTheirCompany ==
  \A id \in Assignments, m \in Memberships, r \in Roles :
    HoldsPair(id, m, r) => SameTenant(m, r) /\ row[id].tenant = row[m].tenant

\* No two requests that overlap join their changes in one, or bring back what
\* either took out of use: each row goes through the life of its aggregate.
RowLifecycle == INSTANCE AccessLifecycle
RowLifecycleSpec == RowLifecycle!Spec

\* The events of a row tell all that happened to it: a consumer that applies
\* them one by one, each telling one change, has what the row has.  No write
\* takes back what an event has told, and none goes untold.
EventsTellTheRow == projection = row

=============================================================================

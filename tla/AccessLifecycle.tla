-------------------------- MODULE AccessLifecycle --------------------------
(***************************************************************************)
(* What the aggregates promise of a row, however requests come to it: it   *)
(* is created in use and with no permissions, changes one thing at a time, *)
(* and out of use it changes in nothing but in being put into use again.   *)
(*                                                                         *)
(* There are no requests here, no revisions and no failures.               *)
(***************************************************************************)
CONSTANTS Persons, Tenants, Memberships, Roles, Assignments, Permissions

VARIABLE row    \* of each id

Ids == Persons \cup Tenants \cup Memberships \cup Roles \cup Assignments
Absent == [status |-> "none"]
InUse(id) == row[id].status = "active"

\* Whatever the tables hold.
Init == DOMAIN row = Ids

Enters(id) ==
  row[id] = Absent /\ row'[id].status = "active" /\ row'[id].permissions = {}

Activates(id) ==
  row[id].status = "inactive" /\ row'[id] = [row[id] EXCEPT !.status = "active"]

Deactivates(id) ==
  InUse(id) /\ row'[id] = [row[id] EXCEPT !.status = "inactive"]

Renames(id) ==
  /\ id \in Persons \cup Tenants \cup Roles
  /\ InUse(id) /\ row'[id] = [row[id] EXCEPT !.key = row'[id].key]

Grants(id) ==
  /\ id \in Roles /\ InUse(id)
  /\ \E permission \in Permissions \ row[id].permissions :
       row'[id] = [row[id] EXCEPT !.permissions = @ \cup {permission}]

Revokes(id) ==
  /\ id \in Roles /\ InUse(id)
  /\ \E permission \in row[id].permissions :
       row'[id] = [row[id] EXCEPT !.permissions = @ \ {permission}]

Change(id) ==
  \/ Activates(id) \/ Deactivates(id)
  \/ Renames(id) \/ Grants(id) \/ Revokes(id)

\* Rows enter together, as a company and its owner do; any other changes alone.
Next ==
  /\ DOMAIN row' = Ids
  /\ LET changed == {id \in Ids : row'[id] # row[id]}
     IN  \A id \in changed : Enters(id) \/ (changed = {id} /\ Change(id))

Spec == Init /\ [][Next]_row

=============================================================================

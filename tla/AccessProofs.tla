---------------------------- MODULE AccessProofs ----------------------------
(***************************************************************************)
(* Proofs about Access and Authorization, for any number of users,         *)
(* companies and requests that overlap.                                    *)
(*                                                                         *)
(* Access: what a request has decided stays good for its write, or the     *)
(* write is refused: an insert names ids that nobody else has, and an      *)
(* update still has the row it loaded as long as the revision is the one   *)
(* it saw.  Between the two, rows are only added, and a company keeps what *)
(* it has.                                                                 *)
(*                                                                         *)
(* Authorization: a decision that reads while requests commit holds facts  *)
(* it has seen, about rows that stay and keep what they refer to, and has  *)
(* passed over nothing that was so from its first moment on.               *)
(***************************************************************************)
EXTENDS Authorization, TLAPS

\* The ids of the five tables are told apart.
DisjointTables ==
  /\ Persons \cap (Tenants \cup Memberships \cup Roles \cup Assignments) = {}
  /\ Tenants \cap (Memberships \cup Roles \cup Assignments) = {}
  /\ Memberships \cap (Roles \cup Assignments) = {}
  /\ Roles \cap Assignments = {}

\* The rows whose keys name other rows; no method of their aggregates renames them.
References == Memberships \cup Assignments

RowsTyped ==
  /\ DOMAIN row = Ids
  /\ revision \in [Ids -> Nat]
  /\ \A id \in Ids : Exists(id) => row[id] \in Row

\* A new assignment is of a membership and a role of its company.
InCompany(r) ==
  \A m \in Memberships, o \in Roles :
    r.key = <<m, o>> => SameTenant(m, o) /\ r.tenant = row[m].tenant

\* What an insert may rely on.
Insertable(new) ==
  /\ DOMAIN new \subseteq Ids
  /\ \A id \in DOMAIN new : new[id] \in Row /\ ~ Exists(id)
  /\ \A a, b \in DOMAIN new : a # b => ~ SameTable(a, b)
  /\ \A id \in DOMAIN new \cap Assignments : InCompany(new[id])

\* What an update may rely on.
Updatable(p) ==
  /\ p.id \in Ids /\ p.loaded \in Row /\ p.change \in Changes
  /\ p.seen \in Nat /\ p.expected \in 1..p.seen
  /\ p.seen <= revision[p.id]
  /\ p.seen = revision[p.id] => p.loaded = row[p.id]
  /\ p.id \in References => p.change.what # "rename"

Decided(t) ==
  /\ pending[t].step = "insert" => Insertable(pending[t].new)
  /\ pending[t].step = "update" => Updatable(pending[t])

\* No two requests insert one id.
OwnIds ==
  \A t, u \in Writers :
    t # u /\ pending[t].step = "insert" /\ pending[u].step = "insert" =>
      DOMAIN pending[t].new \cap DOMAIN pending[u].new = {}

Tables ==
  /\ RowsTyped /\ OneRowPerKey /\ AssignmentsStayInTheirCompany /\ EventsTellTheRow

Sound ==
  /\ Tables
  /\ DOMAIN pending = Writers
  /\ \A t \in Writers : Decided(t)
  /\ OwnIds

-----------------------------------------------------------------------------
(* Rows are only added, and keep their company.                            *)

Grows ==
  \A id \in Ids :
    /\ Exists(id) => Exists(id)' /\ row'[id].tenant = row[id].tenant
    /\ revision[id] <= revision'[id]
    /\ revision'[id] = revision[id] => row'[id] = row[id]

LEMMA InCompanyStays ==
  ASSUME NEW r, InCompany(r), Grows
  PROVE  InCompany(r)'
BY DEF InCompany, Grows, SameTenant, Ids

LEMMA InsertableStays ==
  ASSUME NEW new, Insertable(new), Grows, \A id \in DOMAIN new : ~ Exists(id)'
  PROVE  Insertable(new)'
<1>1. \A id \in DOMAIN new \cap Assignments : InCompany(new[id])'
  BY InCompanyStays DEF Insertable
<1>2. \A a, b \in DOMAIN new : a # b => ~ SameTable(a, b)'
  BY DEF Insertable, SameTable
<1> QED
  BY <1>1, <1>2 DEF Insertable

LEMMA UpdatableStays ==
  ASSUME NEW p, Updatable(p), Grows, RowsTyped, RowsTyped'
  PROVE  Updatable(p)'
<1>1. revision[p.id] \in Nat /\ revision'[p.id] \in Nat /\ p.seen \in Nat
  BY DEF Updatable, RowsTyped
<1>2. revision[p.id] <= revision'[p.id]
  BY DEF Updatable, Grows
<1>3. p.seen <= revision'[p.id]
  BY <1>1, <1>2 DEF Updatable
<1>4. p.seen = revision'[p.id] => p.loaded = row'[p.id]
  <2> SUFFICES ASSUME p.seen = revision'[p.id] PROVE p.loaded = row'[p.id]
    OBVIOUS
  <2>1. p.seen = revision[p.id] /\ revision'[p.id] = revision[p.id]
    BY <1>1, <1>2 DEF Updatable
  <2> QED
    BY <2>1 DEF Updatable, Grows
<1>5. /\ p.id \in Ids /\ p.loaded \in Row /\ p.change \in Changes
      /\ p.seen \in Nat /\ p.expected \in 1..p.seen
      /\ p.id \in References => p.change.what # "rename"
  BY DEF Updatable
<1> QED
  BY <1>3, <1>4, <1>5 DEF Updatable

-----------------------------------------------------------------------------
(* Requests that decide.                                                   *)

LEMMA InitSound ==
  ASSUME AccessInit
  PROVE  Sound
<1>1. \A id \in Ids : revision[id] = 0
  BY DEF AccessInit
<1>2. \A id \in Ids : ~ Exists(id)
  BY <1>1 DEF Exists
<1>3. RowsTyped /\ EventsTellTheRow
  BY <1>2 DEF AccessInit, RowsTyped, EventsTellTheRow
<1>4. OneRowPerKey
  BY <1>2 DEF OneRowPerKey
<1>5. AssignmentsStayInTheirCompany
  BY <1>2 DEF AssignmentsStayInTheirCompany, HoldsPair, Ids
<1>6. Idle.step = "idle"
  BY DEF Idle
<1>7. DOMAIN pending = Writers /\ \A t \in Writers : pending[t].step = "idle"
  BY <1>6 DEF AccessInit
<1> QED
  BY <1>3, <1>4, <1>5, <1>7 DEF Sound, Tables, Decided, OwnIds

\* While the tables stand, what was decided stands.
LEMMA DecidedStands ==
  ASSUME Sound, NEW t \in Writers, UNCHANGED <<row, revision>>,
         pending'[t] = pending[t]
  PROVE  Decided(t)'
BY DEF Sound, Decided, Insertable, Updatable, InCompany, SameTenant, SameTable, Exists

LEMMA TablesStand ==
  ASSUME Sound, UNCHANGED <<row, revision, projection>>
  PROVE  Tables'
BY DEF Sound, Tables, RowsTyped, OneRowPerKey, AssignmentsStayInTheirCompany,
       EventsTellTheRow, Exists, Taken, HoldsPair, SameTenant, SameTable

LEMMA PrepareSound ==
  ASSUME Sound, NEW t \in Writers, NEW new, Insertable(new), Prepare(t, new)
  PROVE  Sound'
<1>1. Tables'
  BY TablesStand DEF Prepare
<1>2. /\ DOMAIN pending' = Writers
      /\ pending'[t] = [step |-> "insert", new |-> new]
      /\ \A u \in Writers \ {t} : pending'[u] = pending[u]
  BY DEF Sound, Prepare
<1>3. pending'[t].step = "insert" /\ pending'[t].new = new
  BY <1>2
<1>4. Insertable(new)'
  BY DEF Prepare, Insertable, InCompany, SameTenant, SameTable, Exists
<1>5. Decided(t)'
  BY <1>3, <1>4 DEF Decided
<1>6. \A u \in Writers \ {t} : Decided(u)'
  BY <1>2, DecidedStands DEF Prepare
<1>7. \A u \in Writers \ {t} :
        pending[u].step = "insert" => DOMAIN new \cap DOMAIN pending[u].new = {}
  BY DEF Prepare, Fresh
<1>8. OwnIds'
  BY <1>2, <1>3, <1>7 DEF Sound, OwnIds
<1> QED
  BY <1>1, <1>2, <1>5, <1>6, <1>8 DEF Sound

LEMMA LoadSound ==
  ASSUME Sound, NEW t \in Writers, NEW id \in Ids, NEW change \in Changes,
         NEW expected \in 1..revision[id],
         id \in References => change.what # "rename",
         Load(t, id, change, expected)
  PROVE  Sound'
<1> DEFINE p == [step |-> "update", id |-> id, loaded |-> row[id],
                 seen |-> revision[id], change |-> change, expected |-> expected]
<1>1. Tables'
  BY TablesStand DEF Load
<1>2. /\ DOMAIN pending' = Writers /\ pending'[t] = p
      /\ \A u \in Writers \ {t} : pending'[u] = pending[u]
  BY DEF Sound, Load
<1>3. /\ p.step = "update" /\ p.id = id /\ p.loaded = row[id] /\ p.seen = revision[id]
      /\ p.change = change /\ p.expected = expected
  OBVIOUS
<1> HIDE DEF p
<1>4. revision[id] \in Nat /\ Exists(id) /\ row[id] \in Row
  BY DEF Sound, Tables, RowsTyped, Exists
<1>5. /\ p.id \in Ids /\ p.loaded \in Row /\ p.change \in Changes
      /\ p.seen \in Nat /\ p.expected \in 1..p.seen
      /\ p.seen <= revision'[p.id]
      /\ p.seen = revision'[p.id] => p.loaded = row'[p.id]
      /\ p.id \in References => p.change.what # "rename"
  BY <1>3, <1>4 DEF Load
<1>6. Decided(t)'
  BY <1>2, <1>3, <1>5 DEF Decided, Updatable
<1>7. \A u \in Writers \ {t} : Decided(u)'
  BY <1>2, DecidedStands DEF Load
<1>8. OwnIds'
  BY <1>2, <1>3 DEF Sound, OwnIds
<1> QED
  BY <1>1, <1>2, <1>6, <1>7, <1>8 DEF Sound

LEMMA FailSound ==
  ASSUME Sound, NEW t \in Writers, Fail(t)
  PROVE  Sound'
<1>1. Tables'
  BY TablesStand DEF Fail
<1>2. /\ DOMAIN pending' = Writers /\ pending'[t].step = "idle"
      /\ \A u \in Writers \ {t} : pending'[u] = pending[u]
  BY DEF Sound, Fail, Idle
<1>3. \A u \in Writers : Decided(u)'
  BY <1>2, DecidedStands DEF Fail, Decided
<1>4. OwnIds'
  BY <1>2 DEF Sound, OwnIds
<1> QED
  BY <1>1, <1>2, <1>3, <1>4 DEF Sound

-----------------------------------------------------------------------------
(* Requests that write.                                                    *)

LEMMA SameTableSymmetric ==
  ASSUME NEW a, NEW b, SameTable(a, b)
  PROVE  SameTable(b, a)
BY DEF SameTable

\* A committed insert: the new rows are there, the others as they were.
LEMMA InsertedRows ==
  ASSUME Sound, NEW t \in Writers, Insert(t)
  PROVE  LET new == pending[t].new IN
         /\ Insertable(new)
         /\ DOMAIN row' = Ids
         /\ \A id \in DOMAIN new : row'[id] = new[id] /\ revision'[id] = 1
         /\ \A id \in Ids \ DOMAIN new : row'[id] = row[id] /\ revision'[id] = revision[id]
         /\ revision' \in [Ids -> Nat]
<1>1. Insertable(pending[t].new)
  BY DEF Sound, Decided, Insert
<1>2. DOMAIN pending[t].new \subseteq Ids
  BY <1>1 DEF Insertable
<1>3. \A id \in Ids : revision[id] \in Nat
  BY DEF Sound, Tables, RowsTyped
<1> QED
  BY <1>1, <1>2, <1>3 DEF Insert, Inserted

LEMMA InsertGrows ==
  ASSUME Sound, NEW t \in Writers, Insert(t)
  PROVE  /\ Grows
         /\ \A id \in Ids : Exists(id)' <=> Exists(id) \/ id \in DOMAIN pending[t].new
<1> DEFINE new == pending[t].new
<1>1. /\ Insertable(new)
      /\ \A id \in DOMAIN new : row'[id] = new[id] /\ revision'[id] = 1
      /\ \A id \in Ids \ DOMAIN new : row'[id] = row[id] /\ revision'[id] = revision[id]
  BY InsertedRows
<1>2. \A id \in Ids : revision[id] \in Nat
  BY DEF Sound, Tables, RowsTyped
<1> HIDE DEF new
<1>3. \A id \in DOMAIN new : id \in Ids /\ ~ Exists(id)
  BY <1>1 DEF Insertable
<1>4. \A id \in DOMAIN new : revision[id] = 0
  BY <1>2, <1>3 DEF Exists
<1>5. ASSUME NEW id \in Ids
      PROVE  /\ Exists(id) => Exists(id)' /\ row'[id].tenant = row[id].tenant
             /\ revision[id] <= revision'[id]
             /\ revision'[id] = revision[id] => row'[id] = row[id]
             /\ Exists(id)' <=> Exists(id) \/ id \in DOMAIN new
  <2>1. CASE id \in DOMAIN new
    BY <1>1, <1>4, <2>1 DEF Exists
  <2>2. CASE id \notin DOMAIN new
    BY <1>1, <1>2, <2>2 DEF Exists
  <2> QED
    BY <2>1, <2>2
<1> QED
  BY <1>5 DEF Grows, new

LEMMA InsertTables ==
  ASSUME Sound, NEW t \in Writers, Insert(t)
  PROVE  Tables'
<1> DEFINE new == pending[t].new
<1>1. /\ Insertable(new) /\ DOMAIN row' = Ids
      /\ \A id \in DOMAIN new : row'[id] = new[id] /\ revision'[id] = 1
      /\ \A id \in Ids \ DOMAIN new : row'[id] = row[id] /\ revision'[id] = revision[id]
      /\ revision' \in [Ids -> Nat]
  BY InsertedRows
<1>2. /\ Grows
      /\ \A id \in Ids : Exists(id)' <=> Exists(id) \/ id \in DOMAIN new
  BY InsertGrows
<1>3. \A id \in DOMAIN new : ~ Taken(id, new[id])
  BY DEF Insert
<1>4. projection = row
  BY DEF Sound, Tables, EventsTellTheRow
<1>5. EventsTellTheRow'
  BY <1>4 DEF Insert, Inserted, EventsTellTheRow
<1> HIDE DEF new
<1>6. RowsTyped'
  <2>1. ASSUME NEW id \in Ids, Exists(id)' PROVE row'[id] \in Row
    BY <1>1, <1>2, <2>1 DEF Insertable, Sound, Tables, RowsTyped
  <2> QED
    BY <1>1, <2>1 DEF RowsTyped
<1>7. OneRowPerKey'
  <2> SUFFICES ASSUME NEW id \in Ids, NEW other \in Ids \ {id},
                      Exists(id)', Exists(other)', SameTable(id, other),
                      row'[other].tenant = row'[id].tenant,
                      row'[other].key = row'[id].key
               PROVE  FALSE
    BY DEF OneRowPerKey, Taken, SameTable
  <2>1. CASE id \in DOMAIN new /\ other \in DOMAIN new
    BY <1>1, <2>1 DEF Insertable
  <2>2. CASE id \in DOMAIN new /\ other \notin DOMAIN new
    BY <1>1, <1>2, <1>3, <2>2 DEF Taken
  <2>3. CASE id \notin DOMAIN new /\ other \in DOMAIN new
    BY <1>1, <1>2, <1>3, <2>3, SameTableSymmetric DEF Taken
  <2>4. CASE id \notin DOMAIN new /\ other \notin DOMAIN new
    BY <1>1, <1>2, <2>4 DEF Sound, Tables, OneRowPerKey, Taken
  <2> QED
    BY <2>1, <2>2, <2>3, <2>4
<1>8. AssignmentsStayInTheirCompany'
  <2> SUFFICES ASSUME NEW id \in Assignments, NEW m \in Memberships, NEW o \in Roles,
                      Exists(id)', row'[id].key = <<m, o>>
               PROVE  SameTenant(m, o)' /\ row'[id].tenant = row'[m].tenant
    BY DEF AssignmentsStayInTheirCompany, HoldsPair
  <2>1. id \in Ids /\ m \in Ids /\ o \in Ids
    BY DEF Ids
  <2>2. SameTenant(m, o) /\ row'[id].tenant = row[m].tenant
    <3>1. CASE id \in DOMAIN new
      BY <1>1, <3>1 DEF Insertable, InCompany
    <3>2. CASE id \notin DOMAIN new
      BY <1>1, <1>2, <2>1, <3>2
      DEF Sound, Tables, AssignmentsStayInTheirCompany, HoldsPair
    <3> QED
      BY <3>1, <3>2
  <2> QED
    BY <1>2, <2>1, <2>2 DEF Grows, SameTenant
<1> QED
  BY <1>5, <1>6, <1>7, <1>8 DEF Tables

LEMMA InsertSound ==
  ASSUME Sound, NEW t \in Writers, Insert(t)
  PROVE  Sound'
<1>1. Tables'
  BY InsertTables
<1>2. /\ DOMAIN pending' = Writers /\ pending'[t].step = "idle"
      /\ \A u \in Writers \ {t} : pending'[u] = pending[u]
  BY DEF Sound, Insert, Inserted, Idle
<1>3. /\ Grows /\ RowsTyped /\ RowsTyped'
      /\ \A id \in Ids : Exists(id)' <=> Exists(id) \/ id \in DOMAIN pending[t].new
  BY <1>1, InsertGrows DEF Sound, Tables
<1>4. ASSUME NEW u \in Writers \ {t} PROVE Decided(u)'
  <2>1. CASE pending[u].step = "insert"
    <3>1. Insertable(pending[u].new)
      BY <2>1 DEF Sound, Decided
    <3>2. DOMAIN pending[u].new \cap DOMAIN pending[t].new = {}
      BY <2>1 DEF Sound, OwnIds, Insert
    <3>3. \A id \in DOMAIN pending[u].new : ~ Exists(id)'
      BY <1>3, <3>1, <3>2 DEF Insertable
    <3>4. Insertable(pending[u].new)'
      <4> DEFINE new == pending[u].new
      <4>1. Insertable(new) /\ \A id \in DOMAIN new : ~ Exists(id)'
        BY <3>1, <3>3
      <4>2. pending'[u].new = new
        BY <1>2
      <4> HIDE DEF new
      <4> SUFFICES \A n : n = new => Insertable(n)'
        BY <4>2
      <4> QED
        BY <1>3, <4>1, InsertableStays
    <3> QED
      BY <1>2, <2>1, <3>4 DEF Decided
  <2>2. CASE pending[u].step = "update"
    <3>1. Updatable(pending[u])
      BY <2>2 DEF Sound, Decided
    <3>2. \A p : p = pending[u] => Updatable(p)'
      BY <1>3, <3>1, UpdatableStays
    <3> QED
      BY <1>2, <2>2, <3>2 DEF Decided
  <2>3. CASE pending[u].step \notin {"insert", "update"}
    BY <1>2, <2>3 DEF Decided
  <2> QED
    BY <2>1, <2>2, <2>3
<1>5. Decided(t)'
  BY <1>2 DEF Decided
<1>6. OwnIds'
  BY <1>2 DEF Sound, OwnIds
<1> QED
  BY <1>1, <1>2, <1>4, <1>5, <1>6 DEF Sound

\* A method of an aggregate leaves its company, and its key but for a rename.
LEMMA AppliedTyped ==
  ASSUME NEW r \in Row, NEW change \in Changes
  PROVE  /\ Applied(r, change) \in Row
         /\ Applied(r, change).tenant = r.tenant
         /\ change.what # "rename" => Applied(r, change).key = r.key
<1>1. CASE change.what = "rename"
  <2>1. change.to \in Keys
    BY <1>1 DEF Changes, Keys
  <2> QED
    BY <1>1, <2>1 DEF Applied, Row
<1>2. CASE change.what = "status"
  <2>1. change.to \in Statuses
    BY <1>2 DEF Changes
  <2> QED
    BY <1>2, <2>1 DEF Applied, Row
<1>3. CASE change.what \in {"grant", "revoke"}
  <2>1. change.to \in Permissions
    BY <1>3 DEF Changes
  <2> QED
    BY <1>3, <2>1 DEF Applied, Row
<1>4. CASE change.what \notin {"rename", "status", "grant", "revoke"}
  BY <1>4 DEF Applied, Row
<1> QED
  BY <1>1, <1>2, <1>3, <1>4

\* A committed update: the row it wrote was the row it had loaded, and the
\* others are as they were.
LEMMA UpdateRows ==
  ASSUME Sound, NEW t \in Writers, Update(t)
  PROVE  LET p == pending[t] IN
         /\ Updatable(p) /\ Exists(p.id) /\ row[p.id] \in Row
         /\ p.loaded = row[p.id]
         /\ DOMAIN row' = Ids /\ revision' \in [Ids -> Nat]
         /\ row'[p.id] = Applied(row[p.id], p.change)
         /\ revision'[p.id] = revision[p.id] + 1
         /\ \A id \in Ids \ {p.id} : row'[id] = row[id] /\ revision'[id] = revision[id]
<1> DEFINE p == pending[t]
<1>1. Updatable(p)
  BY DEF Sound, Decided, Update
<1>2. /\ revision[p.id] = p.expected
      /\ row' = [row EXCEPT ![p.id] = Applied(p.loaded, p.change)]
      /\ revision' = [revision EXCEPT ![p.id] = p.expected + 1]
  BY DEF Update, Written
<1>3. DOMAIN row = Ids /\ revision \in [Ids -> Nat]
  BY DEF Sound, Tables, RowsTyped
<1>4. p.id \in Ids /\ p.seen \in Nat /\ p.expected \in 1..p.seen /\ p.seen <= revision[p.id]
  BY <1>1 DEF Updatable
<1> HIDE DEF p
<1>5. p.seen = revision[p.id] /\ revision[p.id] > 0
  BY <1>2, <1>3, <1>4
<1>6. Exists(p.id) /\ p.loaded = row[p.id]
  BY <1>1, <1>5 DEF Exists, Updatable
<1>7. row[p.id] \in Row
  BY <1>4, <1>6 DEF Sound, Tables, RowsTyped
<1> QED
  BY <1>1, <1>2, <1>3, <1>4, <1>6, <1>7 DEF p

LEMMA UpdateGrows ==
  ASSUME Sound, NEW t \in Writers, Update(t)
  PROVE  Grows /\ \A id \in Ids : Exists(id)' <=> Exists(id)
<1> DEFINE p == pending[t]
<1>1. /\ Updatable(p) /\ Exists(p.id) /\ row[p.id] \in Row
      /\ row'[p.id] = Applied(row[p.id], p.change)
      /\ revision'[p.id] = revision[p.id] + 1
      /\ \A id \in Ids \ {p.id} : row'[id] = row[id] /\ revision'[id] = revision[id]
  BY UpdateRows
<1> HIDE DEF p
<1>2. \A id \in Ids : revision[id] \in Nat
  BY DEF Sound, Tables, RowsTyped
<1>3. row'[p.id].tenant = row[p.id].tenant
  BY <1>1, AppliedTyped DEF Updatable
<1>4. ASSUME NEW id \in Ids
      PROVE  /\ Exists(id) => Exists(id)' /\ row'[id].tenant = row[id].tenant
             /\ revision[id] <= revision'[id]
             /\ revision'[id] = revision[id] => row'[id] = row[id]
             /\ Exists(id)' <=> Exists(id)
  <2>1. CASE id = p.id
    BY <1>1, <1>2, <1>3, <2>1 DEF Exists
  <2>2. CASE id # p.id
    BY <1>1, <1>2, <2>2 DEF Exists
  <2> QED
    BY <2>1, <2>2
<1> QED
  BY <1>4 DEF Grows

LEMMA UpdateTables ==
  ASSUME Sound, NEW t \in Writers, Update(t)
  PROVE  Tables'
<1> DEFINE p == pending[t]
<1>1. /\ Updatable(p) /\ Exists(p.id) /\ row[p.id] \in Row /\ p.loaded = row[p.id]
      /\ DOMAIN row' = Ids /\ revision' \in [Ids -> Nat]
      /\ row'[p.id] = Applied(row[p.id], p.change)
      /\ \A id \in Ids \ {p.id} : row'[id] = row[id]
  BY UpdateRows
<1>2. Grows /\ \A id \in Ids : Exists(id)' <=> Exists(id)
  BY UpdateGrows
<1>3. ~ Taken(p.id, row'[p.id])
  BY <1>1 DEF Update
<1>4. projection = row
  BY DEF Sound, Tables, EventsTellTheRow
<1>5. EventsTellTheRow'
  BY <1>1, <1>4 DEF Update, Written, EventsTellTheRow
<1> HIDE DEF p
<1>6. /\ p.id \in Ids /\ row'[p.id] \in Row
      /\ p.id \in Assignments => row'[p.id].key = row[p.id].key
  BY <1>1, AppliedTyped DEF Updatable, References
<1>7. RowsTyped'
  <2>1. ASSUME NEW id \in Ids, Exists(id)' PROVE row'[id] \in Row
    BY <1>1, <1>2, <1>6, <2>1 DEF Sound, Tables, RowsTyped
  <2> QED
    BY <1>1, <2>1 DEF RowsTyped
<1>8. OneRowPerKey'
  <2> SUFFICES ASSUME NEW id \in Ids, NEW other \in Ids \ {id},
                      Exists(id)', Exists(other)', SameTable(id, other),
                      row'[other].tenant = row'[id].tenant,
                      row'[other].key = row'[id].key
               PROVE  FALSE
    BY DEF OneRowPerKey, Taken, SameTable
  <2>1. CASE id = p.id
    BY <1>1, <1>2, <1>3, <2>1 DEF Taken
  <2>2. CASE other = p.id
    BY <1>1, <1>2, <1>3, <2>2, SameTableSymmetric DEF Taken
  <2>3. CASE id # p.id /\ other # p.id
    BY <1>1, <1>2, <2>3 DEF Sound, Tables, OneRowPerKey, Taken
  <2> QED
    BY <2>1, <2>2, <2>3
<1>9. AssignmentsStayInTheirCompany'
  <2> SUFFICES ASSUME NEW id \in Assignments, NEW m \in Memberships, NEW o \in Roles,
                      Exists(id)', row'[id].key = <<m, o>>
               PROVE  SameTenant(m, o)' /\ row'[id].tenant = row'[m].tenant
    BY DEF AssignmentsStayInTheirCompany, HoldsPair
  <2>1. id \in Ids /\ m \in Ids /\ o \in Ids
    BY DEF Ids
  <2>2. Exists(id) /\ row[id].key = <<m, o>>
    BY <1>1, <1>2, <1>6, <2>1
  <2>3. SameTenant(m, o) /\ row[id].tenant = row[m].tenant
    BY <2>2 DEF Sound, Tables, AssignmentsStayInTheirCompany, HoldsPair
  <2> QED
    BY <1>2, <2>1, <2>2, <2>3 DEF Grows, SameTenant
<1> QED
  BY <1>5, <1>7, <1>8, <1>9 DEF Tables

LEMMA UpdateSound ==
  ASSUME Sound, NEW t \in Writers, Update(t)
  PROVE  Sound'
<1>1. Tables'
  BY UpdateTables
<1>2. /\ DOMAIN pending' = Writers /\ pending'[t].step = "idle"
      /\ \A u \in Writers \ {t} : pending'[u] = pending[u]
  BY DEF Sound, Update, Written, Idle
<1>3. /\ Grows /\ RowsTyped /\ RowsTyped'
      /\ \A id \in Ids : Exists(id)' <=> Exists(id)
  BY <1>1, UpdateGrows DEF Sound, Tables
<1>4. ASSUME NEW u \in Writers \ {t} PROVE Decided(u)'
  <2>1. \A n : n = pending[u].new /\ Insertable(n) => Insertable(n)'
    BY <1>3, InsertableStays DEF Insertable
  <2>2. \A p : p = pending[u] /\ Updatable(p) => Updatable(p)'
    BY <1>3, UpdatableStays
  <2> QED
    BY <1>2, <2>1, <2>2 DEF Sound, Decided
<1>5. Decided(t)'
  BY <1>2 DEF Decided
<1>6. OwnIds'
  BY <1>2 DEF Sound, OwnIds
<1> QED
  BY <1>1, <1>2, <1>4, <1>5, <1>6 DEF Sound

-----------------------------------------------------------------------------
(* Each request.                                                           *)

LEMMA OnlyInsertable ==
  ASSUME NEW t \in Writers, NEW id \in Ids, NEW r \in Row,
         id \in Assignments => InCompany(r),
         Prepare(t, Only(id, r))
  PROVE  Insertable(Only(id, r))
<1>1. DOMAIN Only(id, r) = {id} /\ Only(id, r)[id] = r
  BY DEF Only
<1>2. ~ Exists(id)
  BY <1>1 DEF Prepare, Fresh
<1> QED
  BY <1>1, <1>2 DEF Insertable

LEMMA CreatedTyped ==
  ASSUME NEW tenant \in Tenants \cup {Platform}, NEW key \in Keys
  PROVE  Created(tenant, key) \in Row
BY DEF Created, Row, Statuses

LEMMA PairsInKeys ==
  ASSUME NEW m \in Memberships, NEW r \in Roles
  PROVE  <<m, r>> \in Keys
BY DEF Keys

\* The methods of the aggregates that a request may call.
LEMMA ChangeTyped ==
  /\ \A to \in Statuses : Change("status", to) \in Changes
  /\ \A to \in Names \cup Emails : Change("rename", to) \in Changes
  /\ \A to \in Permissions :
       Change("grant", to) \in Changes /\ Change("revoke", to) \in Changes
  /\ Change("count", "count") \in Changes
BY DEF Change, Changes

LEMMA CreateTenantSound ==
  ASSUME DisjointTables, Sound, NEW t \in Writers, NEW id, NEW name \in Names,
         NEW m, NEW owner \in Persons, CreateTenant(t, id, name, m, owner)
  PROVE  Sound'
<1> DEFINE new == [n \in {id, m} |-> Created(id, IF n = id THEN name ELSE owner)]
<1>1. id \in Tenants /\ m \in Memberships /\ Prepare(t, new)
  BY DEF CreateTenant
<1>2. id \in Ids /\ m \in Ids /\ id \notin Assignments /\ m \notin Assignments
  BY <1>1 DEF Ids, DisjointTables
<1>3. DOMAIN new = {id, m}
  OBVIOUS
<1>4. \A n \in {id, m} : new[n] \in Row
  BY <1>1, CreatedTyped DEF Keys
<1>5. ~ SameTable(id, m) /\ ~ SameTable(m, id)
  BY <1>1 DEF SameTable, DisjointTables
<1> HIDE DEF new
<1>6. ~ Exists(id) /\ ~ Exists(m)
  BY <1>1, <1>3 DEF Prepare, Fresh
<1>7. Insertable(new)
  BY <1>2, <1>3, <1>4, <1>5, <1>6 DEF Insertable
<1> QED
  BY <1>1, <1>7, PrepareSound

LEMMA AssignRoleSound ==
  ASSUME Sound, NEW t \in Writers, NEW id, NEW m \in Memberships, NEW r \in Roles,
         AssignRole(t, id, m, r)
  PROVE  Sound'
<1>1. id \in Ids /\ id \in Assignments /\ m \in Ids /\ SameTenant(m, r)
  BY DEF AssignRole, Ids
<1>2. CASE /\ HoldsPair(id, m, r)
           /\ Load(t, id, Change("status", "active"), revision[id])
  <2>1. Exists(id)
    BY <1>2 DEF HoldsPair
  <2>2. revision[id] \in 1..revision[id]
    BY <1>1, <2>1 DEF Exists, Sound, Tables, RowsTyped
  <2>3. Change("status", "active").what # "rename"
    BY DEF Change
  <2>4. Change("status", "active") \in Changes
    BY ChangeTyped DEF Statuses
  <2> HIDE DEF Change
  <2> QED
    BY <1>1, <1>2, <2>2, <2>3, <2>4, LoadSound
<1>3. CASE Prepare(t, Only(id, Created(row[m].tenant, <<m, r>>)))
  <2> DEFINE new == Created(row[m].tenant, <<m, r>>)
  <2>1. row[m] \in Row
    BY <1>1 DEF Sound, Tables, RowsTyped, SameTenant
  <2>2. new \in Row
    BY <2>1, PairsInKeys, CreatedTyped DEF Row
  <2>3. InCompany(new)
    BY <1>1 DEF InCompany, Created
  <2> HIDE DEF new
  <2>4. Insertable(Only(id, new))
    BY <1>1, <1>3, <2>2, <2>3, OnlyInsertable DEF new
  <2> QED
    BY <1>3, <2>4, PrepareSound DEF new
<1> QED
  BY <1>2, <1>3 DEF AssignRole

LEMMA CreateSound ==
  ASSUME DisjointTables, Sound, NEW t \in Writers, NEW id \in Ids, Create(t, id)
  PROVE  Sound'
<1>1. ASSUME NEW email \in Emails, CreateUser(t, id, email) PROVE Sound'
  <2>1. Created(Platform, email) \in Row /\ id \notin Assignments
    BY <1>1, CreatedTyped DEF CreateUser, Keys, DisjointTables
  <2> QED
    BY <1>1, <2>1, OnlyInsertable, PrepareSound DEF CreateUser
<1>2. ASSUME NEW name \in Names, NEW m \in Memberships, NEW owner \in Persons,
             CreateTenant(t, id, name, m, owner)
      PROVE  Sound'
  BY <1>2, CreateTenantSound
<1>3. ASSUME NEW tenant \in Tenants, NEW user \in Persons,
             CreateMembership(t, id, tenant, user)
      PROVE  Sound'
  <2>1. Created(tenant, user) \in Row /\ id \notin Assignments
    BY <1>3, CreatedTyped DEF CreateMembership, Keys, DisjointTables
  <2> QED
    BY <1>3, <2>1, OnlyInsertable, PrepareSound DEF CreateMembership
<1>4. ASSUME NEW tenant \in Tenants, NEW name \in Names, CreateRole(t, id, tenant, name)
      PROVE  Sound'
  <2>1. Created(tenant, name) \in Row /\ id \notin Assignments
    BY <1>4, CreatedTyped DEF CreateRole, Keys, DisjointTables
  <2> QED
    BY <1>4, <2>1, OnlyInsertable, PrepareSound DEF CreateRole
<1> QED
  BY <1>1, <1>2, <1>3, <1>4, AssignRoleSound DEF Create

LEMMA ModifySound ==
  ASSUME DisjointTables, Sound, NEW t \in Writers, NEW id \in Ids, Modify(t, id)
  PROVE  Sound'
<1> DEFINE Loads(change) ==
      \E expected \in 1..revision[id] : Load(t, id, change, expected)
<1>1. ASSUME NEW change \in Changes, Loads(change),
             id \in References => change.what # "rename"
      PROVE  Sound'
  BY <1>1, LoadSound
<1>2. ASSUME Loads(Change("count", "count")) PROVE Sound'
  BY <1>1, <1>2, ChangeTyped DEF Change
<1>3. ASSUME NEW to \in Statuses, Loads(Change("status", to)) PROVE Sound'
  BY <1>1, <1>3, ChangeTyped DEF Change
<1>4. ASSUME NEW to \in Names \cup Emails, Loads(Change("rename", to)),
             id \notin References
      PROVE  Sound'
  BY <1>1, <1>4, ChangeTyped
<1>5. ASSUME NEW to \in Permissions, Loads(Change("grant", to)) PROVE Sound'
  BY <1>1, <1>5, ChangeTyped DEF Change
<1>6. ASSUME NEW to \in Permissions, Loads(Change("revoke", to)) PROVE Sound'
  BY <1>1, <1>6, ChangeTyped DEF Change
<1>7. CASE CountSignIn(t, id)
  <2>1. revision[id] \in 1..revision[id]
    BY <1>7 DEF CountSignIn, Exists, Sound, Tables, RowsTyped
  <2> QED
    BY <1>2, <1>7, <2>1 DEF CountSignIn
<1>8. ASSUME NEW expected \in 1..revision[id], NEW email \in Emails,
             UpdateUser(t, id, email, expected)
      PROVE  Sound'
  BY <1>4, <1>8 DEF UpdateUser, DisjointTables, References
<1>9. ASSUME NEW expected \in 1..revision[id], NEW to \in Statuses,
             SetStatus(t, id, to, expected)
      PROVE  Sound'
  BY <1>3, <1>9 DEF SetStatus
<1>10. ASSUME NEW expected \in 1..revision[id], NEW name \in Names,
              UpdateTenant(t, id, name, expected) \/ UpdateRole(t, id, name, expected)
       PROVE  Sound'
  BY <1>4, <1>10 DEF UpdateTenant, UpdateRole, DisjointTables, References
<1>11. ASSUME NEW expected \in 1..revision[id], NEW permission \in Permissions,
              GrantRolePermission(t, id, permission, expected)
       PROVE  Sound'
  BY <1>5, <1>11 DEF GrantRolePermission
<1>12. ASSUME NEW expected \in 1..revision[id], NEW permission \in Permissions,
              RevokeRolePermission(t, id, permission, expected)
       PROVE  Sound'
  BY <1>6, <1>12 DEF RevokeRolePermission
<1>13. ASSUME NEW expected \in 1..revision[id], RemoveRole(t, id, expected)
       PROVE  Sound'
  BY <1>3, <1>13 DEF RemoveRole, Statuses
<1> QED
  BY <1>7, <1>8, <1>9, <1>10, <1>11, <1>12, <1>13
  DEF Modify, ChangeUserStatus, ChangeTenantStatus, ChangeMembershipStatus, ChangeRoleStatus

LEMMA StepSound ==
  ASSUME DisjointTables, Sound, [AccessNext]_accessVars
  PROVE  Sound'
<1>1. ASSUME NEW t \in Writers, BeginChange(t) PROVE Sound'
  BY <1>1, CreateSound, ModifySound DEF BeginChange
<1>2. CASE UNCHANGED accessVars
  <2>1. Tables'
    BY <1>2, TablesStand DEF accessVars
  <2>2. \A t \in Writers : Decided(t)'
    BY <1>2, DecidedStands DEF accessVars
  <2> QED
    BY <1>2, <2>1, <2>2 DEF accessVars, Sound, OwnIds
<1> QED
  BY <1>1, <1>2, InsertSound, UpdateSound, FailSound DEF AccessNext

LEMMA AlwaysSound ==
  ASSUME DisjointTables
  PROVE  AccessSpec => []Sound
<1>1. AccessInit => Sound
  BY InitSound
<1>2. Sound /\ [AccessNext]_accessVars => Sound'
  BY StepSound
<1> QED
  BY <1>1, <1>2, PTL DEF AccessSpec

-----------------------------------------------------------------------------
(* The theorems.                                                           *)

\* However many requests overlap, the unique keys keep what the checks before
\* them cannot: an email names one user, a user has one membership of a company,
\* a name names one role of it, a pair has one assignment.
THEOREM KeysAreUnique ==
  ASSUME DisjointTables
  PROVE  AccessSpec => []OneRowPerKey
<1>1. Sound => OneRowPerKey
  BY DEF Sound, Tables
<1> QED
  BY <1>1, AlwaysSound, PTL

\* An assignment that AssignRoleToMembership decided on joins a membership and a
\* role of its company still when it is written, and ever after.
THEOREM AssignmentsStay ==
  ASSUME DisjointTables
  PROVE  AccessSpec => []AssignmentsStayInTheirCompany
<1>1. Sound => AssignmentsStayInTheirCompany
  BY DEF Sound, Tables
<1> QED
  BY <1>1, AlwaysSound, PTL

\* With the compare-and-swap of the revision no write takes back what the event
\* of another has told: the row is what its events tell of it.
THEOREM EventsTell ==
  ASSUME DisjointTables
  PROVE  AccessSpec => []EventsTellTheRow
<1>1. Sound => EventsTellTheRow
  BY DEF Sound, Tables
<1> QED
  BY <1>1, AlwaysSound, PTL

-----------------------------------------------------------------------------
(* Types.                                                                  *)

\* What Sound leaves open: an id without a revision has no row, and a request is
\* at one of its steps.
Shaped ==
  /\ \A id \in Ids : ~ Exists(id) => row[id] = NoRow
  /\ \A t \in Writers : pending[t].step \in {"idle", "insert", "update"}

\* A decision leaves the rows alone and its request before its write.
Decides ==
  /\ UNCHANGED <<row, revision>>
  /\ \A t \in Writers : \/ pending'[t] = pending[t]
                        \/ pending'[t].step \in {"insert", "update"}

LEMMA PrepareDecides ==
  ASSUME DOMAIN pending = Writers, NEW t, NEW new, Prepare(t, new)
  PROVE  Decides
BY DEF Prepare, Decides

LEMMA LoadDecides ==
  ASSUME DOMAIN pending = Writers,
         NEW t, NEW id, NEW change, NEW expected, Load(t, id, change, expected)
  PROVE  Decides
BY DEF Load, Decides

LEMMA BeginDecides ==
  ASSUME DOMAIN pending = Writers, NEW t, BeginChange(t)
  PROVE  Decides
<1>1. PICK id \in Ids : Create(t, id) \/ Modify(t, id)
  BY DEF BeginChange
<1>2. CASE Create(t, id)
  BY <1>2, PrepareDecides, LoadDecides
  DEF Create, CreateUser, CreateTenant, CreateMembership, CreateRole, AssignRole
<1>3. CASE Modify(t, id)
  BY <1>3, LoadDecides
  DEF Modify, CountSignIn, UpdateUser, ChangeUserStatus, ChangeTenantStatus,
      ChangeMembershipStatus, ChangeRoleStatus, SetStatus, UpdateTenant, UpdateRole,
      GrantRolePermission, RevokeRolePermission, RemoveRole
<1> QED
  BY <1>1, <1>2, <1>3

LEMMA StepShaped ==
  ASSUME Sound, Shaped, [AccessNext]_accessVars
  PROVE  Shaped'
<1>1. Idle.step = "idle" /\ DOMAIN pending = Writers /\ DOMAIN row = Ids
      /\ revision \in [Ids -> Nat]
  BY DEF Idle, Sound, Tables, RowsTyped
<1>2. ASSUME NEW t \in Writers, BeginChange(t) PROVE Shaped'
  <2>1. Decides
    BY <1>1, <1>2, BeginDecides
  <2> QED
    BY <2>1 DEF Decides, Shaped, Exists
<1>3. ASSUME NEW t \in Writers, Insert(t) PROVE Shaped'
  BY <1>1, <1>3 DEF Insert, Inserted, Shaped, Exists
<1>4. ASSUME NEW t \in Writers, Update(t) PROVE Shaped'
  <2>1. pending[t].id \in Ids /\ pending[t].expected \in Nat
    BY <1>4 DEF Update, Sound, Decided, Updatable
  <2> QED
    BY <1>1, <1>4, <2>1 DEF Update, Written, Shaped, Exists
<1>5. ASSUME NEW t \in Writers, Fail(t) PROVE Shaped'
  BY <1>1, <1>5 DEF Fail, Shaped, Exists
<1>6. CASE UNCHANGED accessVars
  BY <1>6 DEF accessVars, Shaped, Exists
<1> QED
  BY <1>2, <1>3, <1>4, <1>5, <1>6 DEF AccessNext

\* Rows and requests keep their types, and a row has a revision exactly when it
\* has been inserted.
THEOREM AccessTypesHold ==
  ASSUME DisjointTables
  PROVE  AccessSpec => []AccessTypeOK
<1>1. AccessInit => Shaped
  BY DEF AccessInit, Shaped, Idle
<1>2. Sound /\ Shaped /\ [AccessNext]_accessVars => Shaped'
  BY StepShaped
<1>3. Sound /\ Shaped => AccessTypeOK
  <2> SUFFICES ASSUME Sound, Shaped PROVE AccessTypeOK
    OBVIOUS
  <2>1. \A p \in Inserts : DOMAIN p.new \subseteq Ids
                           /\ \A id \in DOMAIN p.new : p.new[id] \in Row
    BY DEF Inserts, Sound, Decided, Insertable
  <2>2. \A p \in Updates :
          /\ p.id \in Ids /\ p.loaded \in Row /\ p.change \in Changes
          /\ p.seen \in Nat /\ p.expected \in 1..p.seen
    BY DEF Updates, Sound, Decided, Updatable
  <2>3. \A id \in Ids : row[id] \in (IF Exists(id) THEN Row ELSE {NoRow})
    BY DEF Sound, Tables, RowsTyped, Shaped
  <2> QED
    BY <2>1, <2>2, <2>3
    DEF AccessTypeOK, Sound, Tables, RowsTyped, EventsTellTheRow, Shaped
<1> QED
  BY <1>1, <1>2, <1>3, AlwaysSound, PTL DEF AccessSpec

-----------------------------------------------------------------------------
(* The life of a row.                                                      *)

\* What the method of the aggregate has allowed, of the row that was loaded.
Legal(p) ==
  /\ p.change.what = "status" => p.loaded.status # p.change.to
  /\ p.change.what \in {"rename", "grant", "revoke"} => p.loaded.status = "active"
  /\ p.change.what \in {"grant", "revoke"} => p.id \in Roles
  /\ p.change.what = "grant" => p.change.to \notin p.loaded.permissions
  /\ p.change.what = "revoke" => p.change.to \in p.loaded.permissions

Lawful ==
  \A t \in Writers :
    /\ pending[t].step = "insert" =>
         \A id \in DOMAIN pending[t].new :
           pending[t].new[id].status = "active" /\ pending[t].new[id].permissions = {}
    /\ pending[t].step = "update" => Legal(pending[t])

LEMMA PrepareLawful ==
  ASSUME DOMAIN pending = Writers, Lawful, NEW t \in Writers, NEW new, Prepare(t, new),
         \A id \in DOMAIN new : new[id].status = "active" /\ new[id].permissions = {}
  PROVE  Lawful'
<1>1. /\ pending'[t].step = "insert" /\ pending'[t].new = new
      /\ \A u \in Writers \ {t} : pending'[u] = pending[u]
  BY DEF Prepare
<1> QED
  BY <1>1 DEF Lawful, Legal

LEMMA LoadLawful ==
  ASSUME DOMAIN pending = Writers, Lawful, NEW t \in Writers, NEW id, NEW change,
         NEW expected, Load(t, id, change, expected),
         change.what = "status" => row[id].status # change.to,
         change.what \in {"rename", "grant", "revoke"} => row[id].status = "active",
         change.what \in {"grant", "revoke"} => id \in Roles,
         change.what = "grant" => change.to \notin row[id].permissions,
         change.what = "revoke" => change.to \in row[id].permissions
  PROVE  Lawful'
<1>1. /\ pending'[t].step = "update" /\ pending'[t].id = id
      /\ pending'[t].loaded = row[id] /\ pending'[t].change = change
      /\ \A u \in Writers \ {t} : pending'[u] = pending[u]
  BY DEF Load
<1>2. Legal(pending[t])'
  BY <1>1 DEF Legal
<1>3. \A u \in Writers \ {t} : Legal(pending[u])' <=> Legal(pending[u])
  BY <1>1 DEF Legal
<1> QED
  BY <1>1, <1>2, <1>3 DEF Lawful

LEMMA BeginLawful ==
  ASSUME DOMAIN pending = Writers, Lawful, NEW t \in Writers, BeginChange(t)
  PROVE  Lawful'
<1> PICK id \in Ids : Create(t, id) \/ Modify(t, id)
  BY DEF BeginChange
<1>1. \A what, to : Change(what, to).what = what /\ Change(what, to).to = to
  BY DEF Change
<1>2. ASSUME NEW tenant, NEW key, NEW one, Prepare(t, Only(one, Created(tenant, key)))
      PROVE  Lawful'
  <2>1. \A k \in DOMAIN Only(one, Created(tenant, key)) :
          /\ Only(one, Created(tenant, key))[k].status = "active"
          /\ Only(one, Created(tenant, key))[k].permissions = {}
    BY DEF Only, Created
  <2> QED
    BY <1>2, <2>1, PrepareLawful
<1>3. ASSUME NEW name, NEW m, NEW owner, CreateTenant(t, id, name, m, owner)
      PROVE  Lawful'
  <2> DEFINE new == [n \in {id, m} |-> Created(id, IF n = id THEN name ELSE owner)]
  <2>1. \A k \in DOMAIN new : new[k].status = "active" /\ new[k].permissions = {}
    BY DEF Created
  <2>2. Prepare(t, new)
    BY <1>3 DEF CreateTenant
  <2> HIDE DEF new
  <2> QED
    BY <2>1, <2>2, PrepareLawful
<1>4. ASSUME NEW to \in Statuses, NEW expected, row[id].status # to,
             Load(t, id, Change("status", to), expected)
      PROVE  Lawful'
  BY <1>1, <1>4, LoadLawful
<1>5. CASE Create(t, id)
  <2>1. ASSUME NEW m, NEW r, AssignRole(t, id, m, r) PROVE Lawful'
    BY <1>2, <1>4, <2>1 DEF AssignRole, Statuses
  <2> QED
    BY <1>2, <1>3, <1>5, <2>1 DEF Create, CreateUser, CreateMembership, CreateRole
<1>6. CASE Modify(t, id)
  <2>1. ASSUME NEW to, NEW expected, Active(id), Load(t, id, Change("rename", to), expected)
        PROVE  Lawful'
    BY <1>1, <2>1, LoadLawful DEF Active
  <2>2. ASSUME NEW expected, Load(t, id, Change("count", "count"), expected)
        PROVE  Lawful'
    BY <1>1, <2>2, LoadLawful
  <2>3. ASSUME NEW to, NEW expected, GrantRolePermission(t, id, to, expected)
        PROVE  Lawful'
    BY <1>1, <2>3, LoadLawful DEF GrantRolePermission, Active
  <2>4. ASSUME NEW to, NEW expected, RevokeRolePermission(t, id, to, expected)
        PROVE  Lawful'
    BY <1>1, <2>4, LoadLawful DEF RevokeRolePermission, Active
  <2>5. ASSUME NEW expected, RemoveRole(t, id, expected) PROVE Lawful'
    BY <1>4, <2>5 DEF RemoveRole, Active, Statuses
  <2> QED
    BY <1>4, <1>6, <2>1, <2>2, <2>3, <2>4, <2>5
    DEF Modify, CountSignIn, UpdateUser, UpdateTenant, UpdateRole, SetStatus,
        ChangeUserStatus, ChangeTenantStatus, ChangeMembershipStatus, ChangeRoleStatus
<1> QED
  BY <1>5, <1>6

LEMMA StepLawful ==
  ASSUME Sound, Lawful, [AccessNext]_accessVars
  PROVE  Lawful'
<1>1. DOMAIN pending = Writers /\ Idle.step = "idle"
  BY DEF Sound, Idle
<1>2. ASSUME NEW t \in Writers, pending' = [pending EXCEPT ![t] = Idle] PROVE Lawful'
  <2>1. pending'[t].step = "idle" /\ \A u \in Writers \ {t} : pending'[u] = pending[u]
    BY <1>1, <1>2
  <2> QED
    BY <2>1 DEF Lawful, Legal
<1>3. CASE UNCHANGED accessVars
  BY <1>3 DEF accessVars, Lawful, Legal
<1> QED
  BY <1>1, <1>2, <1>3, BeginLawful
  DEF AccessNext, Insert, Inserted, Update, Written, Fail

LEMMA InsertLives ==
  ASSUME Sound, Shaped, Lawful, NEW t \in Writers, Insert(t)
  PROVE  RowLifecycle!Next
<1> DEFINE new == pending[t].new
<1>1. /\ Insertable(new) /\ DOMAIN row' = Ids
      /\ \A id \in DOMAIN new : row'[id] = new[id]
      /\ \A id \in Ids \ DOMAIN new : row'[id] = row[id]
  BY InsertedRows
<1>2. \A id \in DOMAIN new : new[id].status = "active" /\ new[id].permissions = {}
  BY DEF Lawful, Insert
<1> HIDE DEF new
<1>3. \A id \in DOMAIN new : RowLifecycle!Enters(id)
  BY <1>1, <1>2 DEF Insertable, Shaped, NoRow, RowLifecycle!Enters, RowLifecycle!Absent
<1>4. RowLifecycle!Ids = Ids
  BY DEF RowLifecycle!Ids, Ids
<1>5. \A id \in {i \in RowLifecycle!Ids : row'[i] # row[i]} : RowLifecycle!Enters(id)
  BY <1>1, <1>3, <1>4
<1> QED
  BY <1>1, <1>4, <1>5 DEF RowLifecycle!Next

\* What was applied to the loaded row is applied to the stored one.
LEMMA AppliedLives ==
  ASSUME NEW id \in Ids, NEW change \in Changes, row[id] \in Row,
         row'[id] = Applied(row[id], change),
         id \in References => change.what # "rename",
         change.what = "status" => row[id].status # change.to,
         change.what \in {"rename", "grant", "revoke"} => row[id].status = "active",
         change.what \in {"grant", "revoke"} => id \in Roles,
         change.what = "grant" => change.to \notin row[id].permissions,
         change.what = "revoke" => change.to \in row[id].permissions
  PROVE  row'[id] = row[id] \/ RowLifecycle!Change(id)
<1>r. PICK r \in Row : r = row[id]
  OBVIOUS
<1>1. CASE change.what = "status"
  <2>1. change.to \in Statuses /\ r.status \in Statuses /\ r.status # change.to
    BY <1>r, <1>1 DEF Changes, Row
  <2>2. row'[id] = [r EXCEPT !.status = change.to]
    BY <1>r, <1>1 DEF Applied, Row
  <2>3. \/ r.status = "inactive" /\ change.to = "active"
        \/ r.status = "active" /\ change.to = "inactive"
    BY <2>1 DEF Statuses
  <2> QED
    BY <1>r, <2>2, <2>3
    DEF RowLifecycle!Change, RowLifecycle!Activates, RowLifecycle!Deactivates,
        RowLifecycle!InUse
<1>2. CASE change.what = "rename"
  <2>1. id \in Persons \cup Tenants \cup Roles /\ r.status = "active"
    BY <1>r, <1>2 DEF References, Ids
  <2>2. row'[id] = [r EXCEPT !.key = row'[id].key]
    BY <1>r, <1>2 DEF Applied, Row
  <2> QED
    BY <1>r, <2>1, <2>2 DEF RowLifecycle!Change, RowLifecycle!Renames, RowLifecycle!InUse
<1>3. CASE change.what = "grant"
  <2>1. change.to \in Permissions \ r.permissions /\ id \in Roles /\ r.status = "active"
    BY <1>r, <1>3 DEF Changes
  <2>2. row'[id] = [r EXCEPT !.permissions = r.permissions \cup {change.to}]
    BY <1>r, <1>3 DEF Applied, Row
  <2> QED
    BY <1>r, <2>1, <2>2 DEF RowLifecycle!Change, RowLifecycle!Grants, RowLifecycle!InUse
<1>4. CASE change.what = "revoke"
  <2>1. change.to \in r.permissions /\ id \in Roles /\ r.status = "active"
    BY <1>r, <1>4
  <2>2. row'[id] = [r EXCEPT !.permissions = r.permissions \ {change.to}]
    BY <1>r, <1>4 DEF Applied, Row
  <2> QED
    BY <1>r, <2>1, <2>2 DEF RowLifecycle!Change, RowLifecycle!Revokes, RowLifecycle!InUse
<1>5. CASE change.what \notin {"status", "rename", "grant", "revoke"}
  <2>1. row'[id] = r
    BY <1>r, <1>5 DEF Applied, Row
  <2> QED
    BY <1>r, <2>1
<1> QED
  BY <1>1, <1>2, <1>3, <1>4, <1>5

LEMMA UpdateLives ==
  ASSUME Sound, Lawful, NEW t \in Writers, Update(t)
  PROVE  RowLifecycle!Next
<1> PICK p : p = pending[t]
  OBVIOUS
<1>1. Updatable(p) /\ Legal(p) /\ revision[p.id] = p.expected /\ DOMAIN row = Ids
  BY DEF Update, Sound, Decided, Lawful, Tables, RowsTyped
<1>2. row' = [row EXCEPT ![p.id] = Applied(p.loaded, p.change)]
  BY DEF Update, Written
<1>3. p.loaded = row[p.id]
  <2>1. revision[p.id] \in Nat /\ p.seen \in Nat /\ p.expected \in 1..p.seen
        /\ p.seen <= revision[p.id]
    BY <1>1 DEF Updatable, Sound, Tables, RowsTyped
  <2>2. p.seen = revision[p.id]
    BY <1>1, <2>1
  <2> QED
    BY <1>1, <2>2 DEF Updatable
<1>4. /\ p.id \in Ids /\ p.change \in Changes /\ row[p.id] \in Row
      /\ p.id \in References => p.change.what # "rename"
  BY <1>1, <1>3 DEF Updatable
<1>5. row'[p.id] = Applied(row[p.id], p.change)
  BY <1>1, <1>2, <1>3, <1>4
<1>6. row'[p.id] = row[p.id] \/ RowLifecycle!Change(p.id)
  BY <1>1, <1>3, <1>4, <1>5, AppliedLives DEF Legal
<1>7. DOMAIN row' = Ids /\ \A id \in Ids : id # p.id => row'[id] = row[id]
  BY <1>1, <1>2
<1>8. RowLifecycle!Ids = Ids
  BY DEF RowLifecycle!Ids, Ids
<1> QED
  BY <1>4, <1>6, <1>7, <1>8 DEF RowLifecycle!Next

\* However many requests overlap and whatever revisions callers state, every row
\* goes through the life of its aggregate, one change at a time: the tables
\* implement AccessLifecycle.
THEOREM RowsLiveTheirLives ==
  ASSUME DisjointTables
  PROVE  AccessSpec => RowLifecycleSpec
<1>1. AccessInit => Shaped /\ Lawful /\ RowLifecycle!Init
  BY DEF AccessInit, Shaped, Lawful, Idle, RowLifecycle!Init, RowLifecycle!Ids, Ids
<1>2. Sound /\ Shaped /\ Lawful /\ [AccessNext]_accessVars => Shaped' /\ Lawful'
  BY StepShaped, StepLawful
<1>3. Sound /\ Shaped /\ Lawful /\ [AccessNext]_accessVars => [RowLifecycle!Next]_row
  <2> SUFFICES ASSUME Sound, Shaped, Lawful, [AccessNext]_accessVars
               PROVE  [RowLifecycle!Next]_row
    OBVIOUS
  <2>1. ASSUME NEW t \in Writers, BeginChange(t) PROVE UNCHANGED row
    BY <2>1, BeginDecides DEF Sound, Decides
  <2> QED
    BY <2>1, InsertLives, UpdateLives DEF AccessNext, Fail, accessVars
<1> QED
  BY <1>1, <1>2, <1>3, AlwaysSound, PTL DEF AccessSpec, RowLifecycleSpec, RowLifecycle!Spec

-----------------------------------------------------------------------------
(* Decisions.                                                              *)

\* What a decision has read of a role is of an assignment and a membership of
\* its subject, each active at some moment of it.
Belongs(m) ==
  row[m].key = decision.user /\ decision.target \in {NoTenant, row[m].tenant}
Joins(a, m, r) == row[a].key = <<m, r>>
Held(r) ==
  \E m \in Memberships, a \in Assignments :
    /\ <<"active", m>> \in decision.seen /\ <<"active", a>> \in decision.seen
    /\ Belongs(m) /\ Joins(a, m, r)

\* One role confers the permission, by one assignment and one membership.
ConfersBy(facts, m, a, r) ==
  /\ {<<"active", m>>, <<"active", a>>, <<"active", r>>,
      <<"grants", r, decision.permission>>} \subseteq facts
  /\ Belongs(m) /\ Joins(a, m, r)

Entitled(facts) ==
  /\ <<"active", decision.user>> \in facts
  /\ \/ <<"admin", decision.user>> \in facts
     \/ \E m \in Memberships, a \in Assignments, r \in Roles :
          ConfersBy(facts, m, a, r)

Underway == decision.step \in
  {"user", "admin", "memberships", "assignments", "roles", "permissions"}
Reading == decision.step \in {"assignments", "roles", "permissions"}

Fields == {"step", "user", "target", "permission", "memberships", "roles",
           "current", "granted", "seen", "kept"}

DecisionTyped ==
  /\ DOMAIN decision = Fields
  /\ decision.step \in {"user", "admin", "memberships", "assignments", "roles",
                        "permissions", "allow", "deny", "conflict"}
  /\ decision.user \in Persons /\ decision.permission \in Permissions
  /\ decision.memberships \subseteq Memberships /\ decision.roles \subseteq Roles
  /\ decision.step = "permissions" => decision.current \in Roles
  /\ decision.granted \in BOOLEAN
  /\ decision.step \in {"user", "admin", "memberships"} =>
       decision.roles = {} /\ ~ decision.granted

\* What a decision has seen of rows is of rows that exist; what was so from its
\* first moment on is so now.
Contemporary ==
  /\ decision.kept \subseteq decision.seen
  /\ \A id \in Ids : <<"active", id>> \in decision.seen => Exists(id)
  /\ Underway => Facts \subseteq decision.seen /\ decision.kept \subseteq Facts

\* What an allow will rest on.
Founded ==
  /\ decision.step \in {"admin", "memberships", "assignments", "roles", "permissions"} =>
       <<"active", decision.user>> \in decision.seen
  /\ Reading =>
       /\ \A m \in decision.memberships :
            <<"active", m>> \in decision.seen /\ Belongs(m)
       /\ \A r \in decision.roles : Held(r)
       /\ decision.granted =>
            \E m \in Memberships, a \in Assignments, r \in Roles :
              ConfersBy(decision.seen, m, a, r)
  /\ decision.step = "permissions" =>
       \A r \in Roles :
         r = decision.current => <<"active", r>> \in decision.seen /\ Held(r)

\* What has conferred the permission all along has not been passed over.
Thorough ==
  /\ decision.step \in {"memberships", "assignments", "roles", "permissions"} =>
       <<"admin", decision.user>> \notin decision.kept
  /\ Reading =>
       \A m \in Memberships, a \in Assignments, r \in Roles :
         ConfersBy(decision.kept, m, a, r) =>
           \/ m \in decision.memberships \/ r \in decision.roles
           \/ decision.step = "permissions" /\ r = decision.current
           \/ decision.granted
  /\ decision.step = "assignments" => decision.roles = {}

Answered ==
  /\ decision.step = "allow" => Entitled(decision.seen)
  /\ decision.step = "deny" => ~ Entitled(decision.kept)

DecisionInv ==
  decision.step # "idle" =>
    DecisionTyped /\ Contemporary /\ Founded /\ Thorough /\ Answered

\* A fact is told apart by its first word.
FactsTell ==
  /\ \A id \in Ids \ Tenants : <<"active", id>> \in Facts <=> Active(id)
  /\ \A id \in Tenants : <<"active", id>> \notin Facts
  /\ \A user : <<"admin", user>> \in Facts <=> user \in admins
  /\ \A r \in Roles, permission \in Permissions :
       <<"grants", r, permission>> \in Facts
         <=> Exists(r) /\ permission \in row[r].permissions

LEMMA FactsTold == FactsTell
<1>1. ASSUME NEW x
      PROVE  /\ <<"active", x>> \in Facts <=> x \in Ids \ Tenants /\ Active(x)
             /\ <<"admin", x>> \in Facts <=> x \in admins
  <2>1. <<"active", x>> \in Facts => x \in Ids \ Tenants /\ Active(x)
    BY DEF Facts
  <2>2. <<"admin", x>> \in Facts => x \in admins
    BY DEF Facts
  <2> QED BY <2>1, <2>2 DEF Facts
<1>2. ASSUME NEW r \in Roles, NEW permission \in Permissions
      PROVE  <<"grants", r, permission>> \in Facts
               <=> Exists(r) /\ permission \in row[r].permissions
  <2>1. ASSUME <<"grants", r, permission>> \in Facts
        PROVE  Exists(r) /\ permission \in row[r].permissions
    BY <2>1 DEF Facts
  <2>2. ASSUME Exists(r), permission \in row[r].permissions
        PROVE  <<"grants", r, permission>> \in Facts
    <3>1. <<r, permission>> \in
            {g \in Roles \X Permissions : Exists(g[1]) /\ g[2] \in row[g[1]].permissions}
      BY <2>2
    <3> QED BY <3>1 DEF Facts
  <2> QED BY <2>1, <2>2
<1> QED BY <1>1, <1>2 DEF FactsTell

\* The rows that others refer to stay, with what they refer to.
RowsStay ==
  /\ \A id \in Ids : Exists(id) => Exists(id)'
  /\ \A id \in References : Exists(id) =>
       row'[id].key = row[id].key /\ row'[id].tenant = row[id].tenant

LEMMA AccessStep ==
  ASSUME Sound, [AccessNext]_accessVars
  PROVE  RowsStay
<1>1. ASSUME UNCHANGED <<row, revision>> PROVE RowsStay
  BY <1>1 DEF RowsStay, Exists
<1>2. ASSUME NEW t \in Writers, BeginChange(t) \/ Fail(t) PROVE RowsStay
  <2>1. ASSUME NEW id \in Ids, Create(t, id) PROVE UNCHANGED <<row, revision>>
    BY <2>1 DEF Create, CreateUser, CreateTenant, CreateMembership, CreateRole,
                AssignRole, Prepare, Load
  <2>2. ASSUME NEW id \in Ids, Modify(t, id) PROVE UNCHANGED <<row, revision>>
    <3>1. \E change, expected : Load(t, id, change, expected)
      BY <2>2 DEF Modify, CountSignIn, UpdateUser, SetStatus, ChangeUserStatus,
         ChangeTenantStatus, ChangeMembershipStatus, ChangeRoleStatus, UpdateTenant,
         UpdateRole, GrantRolePermission, RevokeRolePermission, RemoveRole
    <3> QED BY <3>1 DEF Load
  <2> QED BY <1>1, <1>2, <2>1, <2>2 DEF BeginChange, Fail
<1>3. ASSUME NEW t \in Writers, Insert(t) PROVE RowsStay
  <2>1. Grows /\ \A id \in Ids : Exists(id) => row'[id] = row[id]
    BY <1>3, InsertedRows, InsertGrows DEF Insertable
  <2> QED BY <2>1 DEF Grows, RowsStay, References, Ids
<1>4. ASSUME NEW t \in Writers, Update(t) PROVE RowsStay
  <2> DEFINE p == pending[t]
  <2>1. /\ Updatable(p) /\ row[p.id] \in Row
        /\ row'[p.id] = Applied(row[p.id], p.change)
        /\ \A id \in Ids \ {p.id} : row'[id] = row[id]
    BY <1>4, UpdateRows
  <2>2. Grows
    BY <1>4, UpdateGrows
  <2> HIDE DEF p
  <2>3. p.id \in References => row'[p.id].key = row[p.id].key
    BY <2>1, AppliedTyped DEF Updatable
  <2> QED BY <2>1, <2>2, <2>3 DEF Grows, RowsStay, References, Ids
<1> QED BY <1>1, <1>2, <1>3, <1>4 DEF AccessNext, accessVars

\* What a decision has seen it has seen; what has been so all along was so then.
Onward ==
  /\ RowsStay
  /\ decision'.user = decision.user /\ decision'.target = decision.target
  /\ decision'.permission = decision.permission
  /\ decision.seen \subseteq decision'.seen /\ decision'.kept \subseteq decision.kept

LEMMA RowsSeenStay ==
  ASSUME Contemporary, Onward, NEW m \in Memberships, NEW a \in Assignments,
         NEW r \in Roles,
         <<"active", m>> \in decision.seen, <<"active", a>> \in decision.seen
  PROVE  (Belongs(m)' <=> Belongs(m)) /\ (Joins(a, m, r)' <=> Joins(a, m, r))
BY DEF Contemporary, Onward, RowsStay, Ids, References, Belongs, Joins

LEMMA MembershipSeenStays ==
  ASSUME Contemporary, Onward, NEW m \in Memberships, <<"active", m>> \in decision.seen
  PROVE  Belongs(m)' <=> Belongs(m)
BY DEF Contemporary, Onward, RowsStay, Ids, References, Belongs

LEMMA HeldStays ==
  ASSUME Contemporary, Onward, NEW r \in Roles, Held(r)
  PROVE  Held(r)'
<1>1. PICK m \in Memberships, a \in Assignments :
        /\ <<"active", m>> \in decision.seen /\ <<"active", a>> \in decision.seen
        /\ Belongs(m) /\ Joins(a, m, r)
  BY DEF Held
<1>2. Belongs(m)' /\ Joins(a, m, r)'
  BY <1>1, RowsSeenStay
<1> QED BY <1>1, <1>2 DEF Held, Onward

LEMMA ConferredStays ==
  ASSUME Contemporary, Onward,
         NEW m \in Memberships, NEW a \in Assignments, NEW r \in Roles
  PROVE  /\ ConfersBy(decision.seen, m, a, r) => ConfersBy(decision.seen, m, a, r)'
         /\ ConfersBy(decision.kept, m, a, r)' => ConfersBy(decision.kept, m, a, r)
<1>1. ASSUME ConfersBy(decision.seen, m, a, r)
      PROVE  ConfersBy(decision.seen, m, a, r)'
  <2>1. <<"active", m>> \in decision.seen /\ <<"active", a>> \in decision.seen
    BY <1>1 DEF ConfersBy
  <2> QED BY <1>1, <2>1, RowsSeenStay DEF ConfersBy, Onward
<1>2. ASSUME ConfersBy(decision.kept, m, a, r)'
      PROVE  ConfersBy(decision.kept, m, a, r)
  <2>1. <<"active", m>> \in decision.kept /\ <<"active", a>> \in decision.kept
    BY <1>2 DEF ConfersBy, Onward
  <2>2. <<"active", m>> \in decision.seen /\ <<"active", a>> \in decision.seen
    BY <2>1 DEF Contemporary
  <2> QED BY <1>2, <2>2, RowsSeenStay DEF ConfersBy, Onward
<1> QED BY <1>1, <1>2

LEMMA EntitledStays ==
  ASSUME Contemporary, Onward
  PROVE  /\ Entitled(decision.seen) => Entitled(decision.seen)'
         /\ Entitled(decision.kept)' => Entitled(decision.kept)
BY ConferredStays DEF Entitled, Onward

\* A request commits, or a grant, while a decision is under way or over.
LEMMA WitnessKeeps ==
  ASSUME DecisionInv, decision.step # "idle", RowsStay, Witness
  PROVE  DecisionInv'
<1> USE DEF DecisionInv
<1>1. CASE Over
  <2>1. decision' = decision /\ ~ Underway
    BY <1>1 DEF Witness, Over, Underway
  <2>2. Onward
    BY <2>1 DEF Onward
  <2>3. DecisionTyped' /\ Contemporary'
    BY <2>1 DEF DecisionTyped, Contemporary, RowsStay, Underway
  <2>4. Founded' /\ Thorough'
    BY <1>1, <2>1 DEF Over, Founded, Thorough, Reading
  <2>5. Answered'
    BY <2>1, <2>2, EntitledStays DEF Answered
  <2> QED BY <2>3, <2>4, <2>5
<1>2. CASE ~ Over
  <2>1. Underway /\ decision.step \notin {"idle", "allow", "deny", "conflict"}
    BY <1>2 DEF Over, DecisionTyped, Underway
  <2>2. /\ DOMAIN decision' = Fields /\ decision'.step = decision.step
        /\ decision'.user = decision.user /\ decision'.target = decision.target
        /\ decision'.permission = decision.permission
        /\ decision'.memberships = decision.memberships
        /\ decision'.roles = decision.roles /\ decision'.current = decision.current
        /\ decision'.granted = decision.granted
        /\ decision'.seen = decision.seen \cup Facts'
        /\ decision'.kept = decision.kept \cap Facts'
    BY <1>2 DEF Witness, DecisionTyped, Fields
  <2>3. Onward
    BY <2>2 DEF Onward
  <2>4. DecisionTyped'
    BY <2>2 DEF DecisionTyped
  <2>5. Contemporary'
    <3>1. FactsTell'
      BY FactsTold, PTL
    <3>2. ASSUME NEW id \in Ids, <<"active", id>> \in decision'.seen PROVE Exists(id)'
      <4>1. CASE <<"active", id>> \in decision.seen
        BY <4>1 DEF Contemporary, RowsStay
      <4>2. CASE <<"active", id>> \in Facts'
        BY <3>1, <4>2 DEF FactsTell, Active
      <4> QED BY <2>2, <3>2, <4>1, <4>2
    <3> QED BY <2>2, <3>2 DEF Contemporary
  <2>6. Founded'
    <3>1. \A m \in decision.memberships : <<"active", m>> \in decision.seen =>
            m \in Memberships /\ (Belongs(m) => Belongs(m)')
      BY <2>3, MembershipSeenStays DEF DecisionTyped
    <3>2. \A r \in Roles : Held(r) => Held(r)'
      BY <2>3, HeldStays
    <3>3. \A m \in Memberships, a \in Assignments, r \in Roles :
            ConfersBy(decision.seen, m, a, r) => ConfersBy(decision.seen, m, a, r)'
      BY <2>3, ConferredStays
    <3> QED BY <2>2, <3>1, <3>2, <3>3 DEF Founded, Reading, DecisionTyped
  <2>7. Thorough'
    <3>1. \A m \in Memberships, a \in Assignments, r \in Roles :
            ConfersBy(decision.kept, m, a, r)' => ConfersBy(decision.kept, m, a, r)
      BY <2>3, ConferredStays
    <3> QED BY <2>2, <3>1 DEF Thorough, Reading
  <2> QED BY <2>1, <2>2, <2>4, <2>5, <2>6, <2>7 DEF Answered
<1> QED BY <1>1, <1>2

\* A step of the decision itself reads: the rows stand, and what it is about.
Reads ==
  /\ UNCHANGED <<accessVars, admins>>
  /\ DOMAIN decision' = Fields
  /\ decision'.user = decision.user /\ decision'.target = decision.target
  /\ decision'.permission = decision.permission
  /\ decision'.seen = decision.seen /\ decision'.kept = decision.kept

LEMMA GoFields ==
  ASSUME DOMAIN decision = Fields, NEW f, DOMAIN f \subseteq Fields,
         Go(f)
  PROVE  /\ DOMAIN decision' = Fields
         /\ \A x \in Fields : decision'[x] = IF x \in DOMAIN f THEN f[x] ELSE decision[x]
BY DEF Go

\* Under such a step everything but what it assigns is as it was.
LEMMA ReadsStand ==
  ASSUME DecisionInv, Underway, Reads
  PROVE  /\ Contemporary'
         /\ \A m \in Memberships : Belongs(m)' <=> Belongs(m)
         /\ \A r \in Roles : Held(r)' <=> Held(r)
         /\ \A m \in Memberships, a \in Assignments, r \in Roles :
              /\ ConfersBy(decision.seen, m, a, r)' <=> ConfersBy(decision.seen, m, a, r)
              /\ ConfersBy(decision.kept, m, a, r)' <=> ConfersBy(decision.kept, m, a, r)
         /\ Entitled(decision.seen)' <=> Entitled(decision.seen)
         /\ Entitled(decision.kept)' <=> Entitled(decision.kept)
<1>1. UNCHANGED <<row, revision, admins>>
  BY DEF Reads, accessVars
<1>2. Facts' = Facts /\ \A id \in Ids : Exists(id)' <=> Exists(id)
  BY <1>1 DEF Facts, Active, Exists
<1>3. Contemporary
  BY DEF DecisionInv, Underway
<1>4. Contemporary'
  BY <1>2, <1>3 DEF Contemporary, Reads, Underway
<1>5. /\ \A m \in Memberships : Belongs(m)' <=> Belongs(m)
      /\ \A r \in Roles : Held(r)' <=> Held(r)
  BY <1>1 DEF Belongs, Held, Joins, Reads
<1>6. \A m \in Memberships, a \in Assignments, r \in Roles :
        /\ ConfersBy(decision.seen, m, a, r)' <=> ConfersBy(decision.seen, m, a, r)
        /\ ConfersBy(decision.kept, m, a, r)' <=> ConfersBy(decision.kept, m, a, r)
  BY <1>1 DEF Belongs, Joins, ConfersBy, Reads
<1>7. /\ Entitled(decision.seen)' <=> Entitled(decision.seen)
      /\ Entitled(decision.kept)' <=> Entitled(decision.kept)
  BY <1>6 DEF Entitled, Reads
<1> QED BY <1>4, <1>5, <1>6, <1>7

\* What is read is among the facts, and so seen, or not kept.
LEMMA FactsRead ==
  ASSUME DisjointTables, DecisionInv, Underway
  PROVE  /\ \A id \in Persons \cup Memberships \cup Roles \cup Assignments :
              IF Active(id) THEN <<"active", id>> \in decision.seen
                            ELSE <<"active", id>> \notin decision.kept
         /\ \A user : IF user \in admins THEN <<"admin", user>> \in decision.seen
                                         ELSE <<"admin", user>> \notin decision.kept
         /\ \A r \in Roles, permission \in Permissions :
              IF Exists(r) /\ permission \in row[r].permissions
                THEN <<"grants", r, permission>> \in decision.seen
                ELSE <<"grants", r, permission>> \notin decision.kept
<1>1. Facts \subseteq decision.seen /\ decision.kept \subseteq Facts
  BY DEF DecisionInv, Contemporary, Underway
<1>2. \A id \in Persons \cup Memberships \cup Roles \cup Assignments : id \in Ids \ Tenants
  BY DEF DisjointTables, Ids
<1> QED BY <1>1, <1>2, FactsTold DEF FactsTell

LEMMA AuthorizeKeeps ==
  ASSUME NEW user \in Persons, NEW target, NEW permission \in Permissions,
         Authorize(user, target, permission)
  PROVE  DecisionInv'
<1> DEFINE begun == Begun(user, target, permission)
<1>1. decision' = begun /\ UNCHANGED <<row, revision, admins>>
  BY DEF Authorize, accessVars
<1>2. /\ DOMAIN begun = Fields /\ begun.step = "user" /\ begun.user = user
      /\ begun.permission = permission /\ begun.memberships = {} /\ begun.roles = {}
      /\ begun.granted = FALSE /\ begun.seen = Facts /\ begun.kept = Facts
  BY DEF Begun, Fields
<1> HIDE DEF begun
<1>3. Facts' = Facts /\ \A id \in Ids : Exists(id)' <=> Exists(id)
  BY <1>1 DEF Facts, Active, Exists
<1>4. \A id \in Ids : <<"active", id>> \in Facts => Exists(id)
  BY FactsTold DEF FactsTell, Active
<1>5. DecisionTyped' /\ Contemporary'
  BY <1>1, <1>2, <1>3, <1>4 DEF DecisionTyped, Contemporary
<1>6. Founded' /\ Thorough' /\ Answered'
  BY <1>1, <1>2 DEF Founded, Thorough, Answered, Reading
<1> QED BY <1>5, <1>6 DEF DecisionInv

LEMMA ReadUserKeeps ==
  ASSUME DisjointTables, DecisionInv, ReadUser
  PROVE  DecisionInv'
<1>1. Underway /\ DecisionTyped /\ decision.step = "user"
  BY DEF ReadUser, DecisionInv, Underway
<1>2. PICK f : f = [step |-> IF Active(decision.user) THEN "admin" ELSE "deny"]
  OBVIOUS
<1>3. Go(f) /\ DOMAIN f = {"step"}
  BY <1>2 DEF ReadUser
<1>4. /\ Reads /\ decision'.step = (IF Active(decision.user) THEN "admin" ELSE "deny")
      /\ decision'.memberships = decision.memberships
      /\ decision'.roles = decision.roles /\ decision'.granted = decision.granted
  BY <1>1, <1>2, <1>3, GoFields DEF DecisionTyped, Fields, Reads, ReadUser
<1>5. DecisionTyped'
  BY <1>1, <1>4 DEF DecisionTyped, Reads
<1>6. IF Active(decision.user) THEN <<"active", decision.user>> \in decision.seen
                               ELSE <<"active", decision.user>> \notin decision.kept
  BY <1>1, FactsRead DEF DecisionTyped
<1>7. Founded' /\ Thorough' /\ Answered'
  BY <1>4, <1>6 DEF Founded, Thorough, Answered, Reading, Reads, Entitled
<1> QED BY <1>1, <1>4, <1>5, <1>7, ReadsStand DEF DecisionInv

LEMMA ReadAdminKeeps ==
  ASSUME DisjointTables, DecisionInv, ReadAdmin
  PROVE  DecisionInv'
<1>1. Underway /\ DecisionTyped /\ decision.step = "admin"
  BY DEF ReadAdmin, DecisionInv, Underway
<1>2. PICK f : f = [step |-> IF decision.user \in admins THEN "allow" ELSE "memberships"]
  OBVIOUS
<1>3. Go(f) /\ DOMAIN f = {"step"}
  BY <1>2 DEF ReadAdmin
<1>4. /\ Reads
      /\ decision'.step = (IF decision.user \in admins THEN "allow" ELSE "memberships")
      /\ decision'.memberships = decision.memberships
      /\ decision'.roles = decision.roles /\ decision'.granted = decision.granted
  BY <1>1, <1>2, <1>3, GoFields DEF DecisionTyped, Fields, Reads, ReadAdmin
<1>5. DecisionTyped'
  BY <1>1, <1>4 DEF DecisionTyped, Reads
<1>6. IF decision.user \in admins THEN <<"admin", decision.user>> \in decision.seen
                                  ELSE <<"admin", decision.user>> \notin decision.kept
  BY <1>1, FactsRead
<1>7. <<"active", decision.user>> \in decision.seen
  BY <1>1 DEF DecisionInv, Founded
<1>8. Founded' /\ Thorough' /\ Answered'
  BY <1>4, <1>6, <1>7 DEF Founded, Thorough, Answered, Reading, Reads, Entitled
<1> QED BY <1>1, <1>4, <1>5, <1>8, ReadsStand DEF DecisionInv

LEMMA DenyConflictKeeps ==
  ASSUME DecisionInv, DenyConflict
  PROVE  DecisionInv'
<1>1. Underway /\ DecisionTyped
  BY DEF DenyConflict, DecisionInv, Underway
<1>2. PICK f : f = [step |-> "conflict"]
  OBVIOUS
<1>3. Go(f) /\ DOMAIN f = {"step"}
  BY <1>2 DEF DenyConflict
<1>4. /\ Reads /\ decision'.step = "conflict"
      /\ decision'.memberships = decision.memberships
      /\ decision'.roles = decision.roles /\ decision'.granted = decision.granted
  BY <1>1, <1>2, <1>3, GoFields DEF DecisionTyped, Fields, Reads, DenyConflict
<1>5. DecisionTyped' /\ Founded' /\ Thorough' /\ Answered'
  BY <1>1, <1>4 DEF DecisionTyped, Founded, Thorough, Answered, Reading, Reads
<1> QED BY <1>1, <1>4, <1>5, ReadsStand DEF DecisionInv

\* Nothing has been read of roles yet; a membership that was active all along is
\* among those found.
LEMMA ReadMembershipsKeeps ==
  ASSUME DisjointTables, DecisionInv, ReadMemberships
  PROVE  DecisionInv'
<1>1. Underway /\ DecisionTyped /\ decision.step = "memberships"
  BY DEF ReadMemberships, DecisionInv, Underway
<1> DEFINE found == {m \in Memberships : Active(m) /\ Belongs(m)}
<1>2. PICK f : f = [step |-> "assignments", memberships |-> found]
  OBVIOUS
<1>3. Go(f) /\ DOMAIN f = {"step", "memberships"}
  BY <1>2 DEF ReadMemberships, Belongs
<1> HIDE DEF found
<1>4. /\ Reads /\ decision'.step = "assignments" /\ decision'.memberships = found
      /\ decision'.roles = decision.roles /\ decision'.granted = decision.granted
  BY <1>1, <1>2, <1>3, GoFields DEF DecisionTyped, Fields, Reads, ReadMemberships
<1>5. \A m \in Memberships : <<"active", m>> \in decision.kept => Active(m)
  BY <1>1, FactsRead
<1>6. \A m \in found : m \in Memberships /\ <<"active", m>> \in decision.seen /\ Belongs(m)
  BY <1>1, FactsRead DEF found
<1>7. decision.roles = {} /\ ~ decision.granted
  BY <1>1 DEF DecisionTyped
<1>8. DecisionTyped'
  BY <1>1, <1>4, <1>6 DEF DecisionTyped, Reads
<1>9. Founded'
  <2>1. <<"active", decision.user>> \in decision.seen
    BY <1>1 DEF DecisionInv, Founded
  <2>2. \A m \in found : Belongs(m)'
    BY <1>1, <1>4, <1>6, ReadsStand
  <2> QED BY <1>4, <1>6, <1>7, <2>1, <2>2 DEF Founded, Reads
<1>10. Thorough'
  <2>1. <<"admin", decision.user>> \notin decision.kept
    BY <1>1 DEF DecisionInv, Thorough
  <2>2. ASSUME NEW m \in Memberships, NEW a \in Assignments, NEW r \in Roles,
               ConfersBy(decision.kept, m, a, r)'
        PROVE  m \in found
    <3>1. ConfersBy(decision.kept, m, a, r)
      BY <1>1, <1>4, <2>2, ReadsStand
    <3> QED BY <1>5, <3>1 DEF ConfersBy, found
  <2> QED BY <1>4, <1>7, <2>1, <2>2 DEF Thorough, Reads
<1>11. Answered'
  BY <1>4 DEF Answered
<1> QED BY <1>1, <1>4, <1>8, <1>9, <1>10, <1>11, ReadsStand DEF DecisionInv

\* The roles of a membership that was read: whatever it conferred all along is
\* conferred by one of them.
LEMMA ReadAssignmentsKeeps ==
  ASSUME DisjointTables, DecisionInv, NEW m \in Memberships, ReadAssignments(m)
  PROVE  DecisionInv'
<1>1. /\ Underway /\ DecisionTyped /\ decision.step = "assignments"
      /\ m \in decision.memberships
  BY DEF ReadAssignments, DecisionInv, Underway
<1> DEFINE found == {r \in Roles : \E a \in Assignments : Active(a) /\ HoldsPair(a, m, r)}
<1>2. PICK f : f = [step |-> "roles", memberships |-> decision.memberships \ {m},
                    roles |-> found]
  OBVIOUS
<1>3. Go(f) /\ DOMAIN f = {"step", "memberships", "roles"}
  BY <1>2 DEF ReadAssignments
<1> HIDE DEF found
<1>4. /\ Reads /\ decision'.step = "roles"
      /\ decision'.memberships = decision.memberships \ {m}
      /\ decision'.roles = found /\ decision'.granted = decision.granted
  BY <1>1, <1>2, <1>3, GoFields DEF DecisionTyped, Fields, Reads, ReadAssignments
<1>5. \A a \in Assignments :
        /\ Active(a) => <<"active", a>> \in decision.seen
        /\ <<"active", a>> \in decision.kept => Active(a)
  BY <1>1, FactsRead
<1>6. <<"active", m>> \in decision.seen /\ Belongs(m)
  BY <1>1 DEF DecisionInv, Founded, Reading
<1>7. \A r \in found : r \in Roles /\ Held(r)
  BY <1>5, <1>6 DEF Held, found, HoldsPair, Joins
<1>8. DecisionTyped'
  BY <1>1, <1>4, <1>7 DEF DecisionTyped, Reads
<1>9. Founded'
  BY <1>1, <1>4, <1>7, ReadsStand DEF DecisionInv, Founded, Reading, Reads, DecisionTyped
<1>10. Thorough'
  <2>1. <<"admin", decision.user>> \notin decision.kept
    BY <1>1 DEF DecisionInv, Thorough
  <2>2. ASSUME NEW n \in Memberships, NEW a \in Assignments, NEW r \in Roles,
               ConfersBy(decision.kept, n, a, r)'
        PROVE  n \in decision'.memberships \/ r \in found \/ decision'.granted
    <3>1. ConfersBy(decision.kept, n, a, r)
      BY <1>1, <1>4, <2>2, ReadsStand
    <3>2. n \in decision.memberships \/ decision.granted
      BY <1>1, <3>1 DEF DecisionInv, Thorough, Reading
    <3>3. n = m => r \in found
      BY <1>5, <3>1 DEF ConfersBy, Joins, found, HoldsPair, Active
    <3> QED BY <1>4, <3>2, <3>3
  <2> QED BY <1>4, <2>1, <2>2 DEF Thorough, Reads
<1>11. Answered'
  BY <1>4 DEF Answered
<1> QED BY <1>1, <1>4, <1>8, <1>9, <1>10, <1>11, ReadsStand DEF DecisionInv

\* A role that was active all along is not passed over.
LEMMA ReadRoleKeeps ==
  ASSUME DisjointTables, DecisionInv, NEW r \in Roles, ReadRole(r)
  PROVE  DecisionInv'
<1>1. Underway /\ DecisionTyped /\ decision.step = "roles" /\ r \in decision.roles
  BY DEF ReadRole, DecisionInv, Underway
<1>2. PICK f : f = [step |-> IF Active(r) THEN "permissions" ELSE "roles", current |-> r,
                    roles |-> decision.roles \ {r}]
  OBVIOUS
<1>3. Go(f) /\ DOMAIN f = {"step", "current", "roles"}
  BY <1>2 DEF ReadRole
<1>4. /\ Reads /\ decision'.step = (IF Active(r) THEN "permissions" ELSE "roles")
      /\ decision'.memberships = decision.memberships /\ decision'.current = r
      /\ decision'.roles = decision.roles \ {r} /\ decision'.granted = decision.granted
  BY <1>1, <1>2, <1>3, GoFields DEF DecisionTyped, Fields, Reads, ReadRole
<1>5. IF Active(r) THEN <<"active", r>> \in decision.seen
                   ELSE <<"active", r>> \notin decision.kept
  BY <1>1, FactsRead
<1>6. Held(r)
  BY <1>1 DEF DecisionInv, Founded, Reading
<1>7. DecisionTyped'
  BY <1>1, <1>4 DEF DecisionTyped, Reads
<1>8. Founded'
  BY <1>1, <1>4, <1>5, <1>6, ReadsStand
     DEF DecisionInv, Founded, Reading, Reads, DecisionTyped
<1>9. Thorough'
  <2>1. <<"admin", decision.user>> \notin decision.kept
    BY <1>1 DEF DecisionInv, Thorough
  <2>2. ASSUME NEW m \in Memberships, NEW a \in Assignments, NEW o \in Roles,
               ConfersBy(decision.kept, m, a, o)'
        PROVE  \/ m \in decision'.memberships \/ o \in decision'.roles
               \/ decision'.step = "permissions" /\ o = r
               \/ decision'.granted
    <3>1. ConfersBy(decision.kept, m, a, o)
      BY <1>1, <1>4, <2>2, ReadsStand
    <3>2. m \in decision.memberships \/ o \in decision.roles \/ decision.granted
      BY <1>1, <3>1 DEF DecisionInv, Thorough, Reading
    <3>3. o = r => Active(r)
      BY <1>5, <3>1 DEF ConfersBy
    <3> QED BY <1>4, <3>2, <3>3
  <2> QED BY <1>4, <2>1, <2>2 DEF Thorough, Reads
<1>10. Answered'
  BY <1>4 DEF Answered
<1> QED BY <1>1, <1>4, <1>7, <1>8, <1>9, <1>10, ReadsStand DEF DecisionInv

LEMMA ReadPermissionsKeeps ==
  ASSUME DisjointTables, DecisionInv, ReadPermissions
  PROVE  DecisionInv'
<1>1. Underway /\ DecisionTyped /\ decision.step = "permissions"
  BY DEF ReadPermissions, DecisionInv, Underway
<1>2. PICK r \in Roles : r = decision.current
  BY <1>1 DEF DecisionTyped
<1>3. PICK granted : granted = (decision.granted \/ decision.permission \in row[r].permissions)
  OBVIOUS
<1>4. PICK f : f = [step |-> "roles", granted |-> granted]
  OBVIOUS
<1>5. Go(f) /\ DOMAIN f = {"step", "granted"}
  BY <1>2, <1>3, <1>4 DEF ReadPermissions
<1>6. /\ Reads /\ decision'.step = "roles"
      /\ decision'.memberships = decision.memberships
      /\ decision'.roles = decision.roles /\ decision'.granted = granted
  BY <1>1, <1>4, <1>5, GoFields DEF DecisionTyped, Fields, Reads, ReadPermissions
<1>7. /\ granted \in BOOLEAN
      /\ granted <=> decision.granted \/ decision.permission \in row[r].permissions
  BY <1>3
<1>8. <<"active", r>> \in decision.seen /\ Held(r)
  BY <1>1, <1>2 DEF DecisionInv, Founded
<1>9. /\ decision.permission \in row[r].permissions =>
           <<"grants", r, decision.permission>> \in decision.seen
      /\ <<"grants", r, decision.permission>> \in decision.kept =>
           decision.permission \in row[r].permissions
  <2>1. Exists(r)
    BY <1>1, <1>8 DEF DecisionInv, Contemporary, Ids
  <2> QED BY <1>1, <2>1, FactsRead DEF DecisionTyped
<1>10. DecisionTyped'
  BY <1>1, <1>6, <1>7 DEF DecisionTyped, Reads
<1>11. Founded'
  <2>1. granted => \E m \in Memberships, a \in Assignments, o \in Roles :
                     ConfersBy(decision.seen, m, a, o)
    <3>1. CASE decision.granted
      BY <1>1, <3>1 DEF DecisionInv, Founded, Reading
    <3>2. CASE decision.permission \in row[r].permissions
      BY <1>8, <1>9, <3>2 DEF Held, ConfersBy
    <3> QED BY <1>7, <3>1, <3>2
  <2>2. granted => \E m \in Memberships, a \in Assignments, o \in Roles :
                     ConfersBy(decision.seen, m, a, o)'
    BY <1>1, <1>6, <2>1, ReadsStand
  <2>3. \A m \in decision.memberships : Belongs(m)'
    BY <1>1, <1>6, ReadsStand DEF DecisionInv, Founded, Reading, DecisionTyped
  <2>4. \A o \in decision.roles : Held(o)'
    BY <1>1, <1>6, ReadsStand DEF DecisionInv, Founded, Reading, DecisionTyped
  <2> QED BY <1>1, <1>6, <2>2, <2>3, <2>4 DEF DecisionInv, Founded, Reading, Reads
<1>12. Thorough'
  <2>1. <<"admin", decision.user>> \notin decision.kept
    BY <1>1 DEF DecisionInv, Thorough
  <2>2. ASSUME NEW m \in Memberships, NEW a \in Assignments, NEW o \in Roles,
               ConfersBy(decision.kept, m, a, o)'
        PROVE  m \in decision.memberships \/ o \in decision.roles \/ granted
    <3>1. ConfersBy(decision.kept, m, a, o)
      BY <1>1, <1>6, <2>2, ReadsStand
    <3>2. m \in decision.memberships \/ o \in decision.roles \/ o = r \/ decision.granted
      BY <1>1, <1>2, <3>1 DEF DecisionInv, Thorough, Reading
    <3>3. o = r => granted
      BY <1>7, <1>9, <3>1 DEF ConfersBy
    <3> QED BY <1>7, <3>2, <3>3
  <2> QED BY <1>6, <2>1, <2>2 DEF Thorough, Reads
<1>13. Answered'
  BY <1>6 DEF Answered
<1> QED BY <1>1, <1>6, <1>10, <1>11, <1>12, <1>13, ReadsStand DEF DecisionInv

LEMMA NextMembershipKeeps ==
  ASSUME DecisionInv, NextMembership
  PROVE  DecisionInv'
<1>1. Underway /\ DecisionTyped /\ decision.step = "roles" /\ decision.roles = {}
  BY DEF NextMembership, DecisionInv, Underway
<1>2. PICK f : f = [step |-> "assignments"]
  OBVIOUS
<1>3. Go(f) /\ DOMAIN f = {"step"}
  BY <1>2 DEF NextMembership
<1>4. /\ Reads /\ decision'.step = "assignments"
      /\ decision'.memberships = decision.memberships
      /\ decision'.roles = decision.roles /\ decision'.granted = decision.granted
  BY <1>1, <1>2, <1>3, GoFields DEF DecisionTyped, Fields, Reads, NextMembership
<1>5. DecisionTyped'
  BY <1>1, <1>4 DEF DecisionTyped, Reads
<1>6. Founded'
  BY <1>1, <1>4, ReadsStand DEF DecisionInv, Founded, Reading, Reads, DecisionTyped
<1>7. Thorough'
  BY <1>1, <1>4, ReadsStand DEF DecisionInv, Thorough, Reading, Reads
<1>8. Answered'
  BY <1>4 DEF Answered
<1> QED BY <1>1, <1>4, <1>5, <1>6, <1>7, <1>8, ReadsStand DEF DecisionInv

\* Every membership and every role was read, so nothing is left that conferred.
LEMMA DecideKeeps ==
  ASSUME DecisionInv, Decide
  PROVE  DecisionInv'
<1>1. /\ Underway /\ DecisionTyped /\ decision.step = "assignments"
      /\ decision.memberships = {}
  BY DEF Decide, DecisionInv, Underway
<1>2. PICK f : f = [step |-> IF decision.granted THEN "allow" ELSE "deny"]
  OBVIOUS
<1>3. Go(f) /\ DOMAIN f = {"step"}
  BY <1>2 DEF Decide
<1>4. /\ Reads /\ decision'.step = (IF decision.granted THEN "allow" ELSE "deny")
      /\ decision'.memberships = decision.memberships
      /\ decision'.roles = decision.roles /\ decision'.granted = decision.granted
  BY <1>1, <1>2, <1>3, GoFields DEF DecisionTyped, Fields, Reads, Decide
<1>5. DecisionTyped' /\ Founded' /\ Thorough'
  BY <1>1, <1>4 DEF DecisionTyped, Founded, Thorough, Reading, Reads
<1>6. decision.granted => Entitled(decision.seen)
  BY <1>1 DEF DecisionInv, Founded, Reading, Entitled
<1>7. ~ decision.granted => ~ Entitled(decision.kept)
  BY <1>1 DEF DecisionInv, DecisionTyped, Thorough, Reading, Entitled
<1>8. Answered'
  BY <1>1, <1>4, <1>6, <1>7, ReadsStand DEF Answered
<1> QED BY <1>1, <1>4, <1>5, <1>8, ReadsStand DEF DecisionInv

LEMMA DecisionStep ==
  ASSUME DisjointTables, Sound, DecisionInv, [DecisionNext]_decisionVars
  PROVE  Sound' /\ DecisionInv'
<1>1. [AccessNext]_accessVars
  BY DEF DecisionNext, decisionVars, accessVars, Authorize, ReadUser, ReadAdmin, DenyConflict,
     ReadMemberships, ReadAssignments, ReadRole, ReadPermissions, NextMembership,
     Decide, AdministerGrants, GrantSystemAdmin
<1>2. Sound' /\ RowsStay
  BY <1>1, StepSound, AccessStep
<1>3. ASSUME Witness PROVE DecisionInv'
  <2>1. CASE decision.step # "idle"
    BY <1>2, <1>3, <2>1, WitnessKeeps
  <2>2. CASE decision.step = "idle"
    BY <1>3, <2>2 DEF Witness, Over, DecisionInv
  <2> QED BY <2>1, <2>2
<1>4. ASSUME UNCHANGED decisionVars PROVE DecisionInv'
  <2>1. CASE decision.step = "idle"
    BY <1>4, <2>1 DEF decisionVars, DecisionInv
  <2>2. CASE decision.step # "idle" /\ Over
    BY <1>3, <1>4, <2>2 DEF decisionVars, Witness
  <2>3. CASE ~ Over
    <3>1. Underway /\ DecisionTyped
      BY <2>3 DEF DecisionInv, DecisionTyped, Over, Underway
    <3>2. Reads
      BY <1>4, <3>1 DEF decisionVars, accessVars, Reads, DecisionTyped
    <3>3. UNCHANGED <<row, revision, decision>>
      BY <1>4 DEF decisionVars
    <3>4. DecisionTyped' /\ Answered'
      BY <2>3, <3>1, <3>3 DEF DecisionTyped, Answered, Over
    <3>5. Founded' /\ Thorough'
      BY <3>1, <3>2, <3>3, ReadsStand
         DEF DecisionInv, Founded, Thorough, Reading, DecisionTyped, Underway
    <3> QED BY <3>1, <3>2, <3>4, <3>5, ReadsStand DEF DecisionInv
  <2> QED BY <2>1, <2>2, <2>3
<1>5. ASSUME DecisionNext PROVE DecisionInv'
  BY <1>3, <1>5, AuthorizeKeeps, ReadUserKeeps, ReadAdminKeeps, DenyConflictKeeps,
     ReadMembershipsKeeps, ReadAssignmentsKeeps, ReadRoleKeeps, ReadPermissionsKeeps,
     NextMembershipKeeps, DecideKeeps
     DEF DecisionNext, AdministerGrants, GrantSystemAdmin
<1> QED BY <1>2, <1>4, <1>5

\* However many requests commit while a decision reads, it allows only what rests
\* on facts that each were true at some moment of it, and denies nothing that one
\* role conferred from its first moment to its last.
THEOREM DecisionsRestOnFacts ==
  ASSUME DisjointTables
  PROVE  AuthorizationSpec => []DecisionsAreJustified
<1>1. AuthorizationInit => Sound /\ DecisionInv
  BY InitSound DEF AuthorizationInit, DecisionInv
<1>2. Sound /\ DecisionInv /\ [DecisionNext]_decisionVars => (Sound /\ DecisionInv)'
  BY DecisionStep
<1>3. DecisionInv => DecisionsAreJustified
  BY DEF DecisionInv, Answered, Entitled, ConfersBy, Belongs, Joins,
     DecisionsAreJustified, Conferred
<1> QED BY <1>1, <1>2, <1>3, PTL DEF AuthorizationSpec

=============================================================================

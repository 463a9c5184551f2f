------------------------------- MODULE Accounts -------------------------------
(***************************************************************************)
(* The chart of accounts of one company: the aggregate, the table with its *)
(* constraints, and the assembly of the tree from its rows.  The use cases *)
(* that will call them are not written yet; as in the rest of the system a *)
(* request loads an account, changes it or creates a child of it, and      *)
(* writes against the revision it has read.  The type and the normal       *)
(* balance, which a child has from its parent and which never change, are  *)
(* left out.                                                               *)
(***************************************************************************)
EXTENDS Integers, FiniteSets

CONSTANTS
  Editors, Codes,
  NoParent,
  MaxEdits  \* bound: writes to the table

VARIABLES
  accounts,  \* the rows, by id
  editions,
  told,      \* each account as the answers to its changes tell it
  work,      \* what each request has loaded
  edits

chartVars == <<accounts, editions, told, work, edits>>

-----------------------------------------------------------------------------

Stored == DOMAIN accounts
NoWork == [step |-> "idle"]

\* validateSystemAccount: a system account is neither postable nor active.
Flags == {f \in [postable : BOOLEAN, active : BOOLEAN, system : BOOLEAN] :
            f.system => ~ f.postable /\ ~ f.active}

\* Account.create
Root(code, flags) ==
  [code |-> code, level |-> 1, parent |-> NoParent, flags |-> flags]

\* Account.createAsChild on the level below its parent.
Child(id, parent, code, flags) ==
  [parent EXCEPT !.code = code, !.level = @ + 1, !.parent = id, !.flags = flags]

ChartInit ==
  /\ accounts = [id \in {} |-> NoWork] /\ told = accounts
  /\ editions = [id \in {} |-> 0]
  /\ work = [r \in Editors |-> NoWork]
  /\ edits = 0

\* The id of a new account; ids are never used twice.
NewId == Cardinality(Stored) + 1

\* repository.add: the unique code, the composite foreign key and the check of
\* the level refuse what they do not allow.
InsertAccount(account) ==
  LET New(f, value) == [id \in Stored \cup {NewId} |-> IF id = NewId THEN value ELSE f[id]] IN
  /\ edits < MaxEdits
  /\ \A other \in Stored : accounts[other].code # account.code
  /\ IF account.parent = NoParent THEN account.level = 1
     ELSE account.level > 1 /\ account.parent \in Stored
  /\ accounts' = New(accounts, account) /\ told' = New(told, account)
  /\ editions' = New(editions, 1)
  /\ edits' = edits + 1

CreateRoot(r, code, flags) ==
  /\ work[r] = NoWork
  /\ InsertAccount(Root(code, flags))
  /\ UNCHANGED work

\* repository.get, and Account.rehydrate, which knows of no children.
LoadAccount(r, id) ==
  /\ work[r] = NoWork /\ id \in Stored
  /\ work' = [work EXCEPT ![r] = [step |-> "loaded", id |-> id, account |-> accounts[id],
                                   revision |-> editions[id], childCount |-> 0]]
  /\ UNCHANGED <<accounts, editions, told, edits>>

\* A child of the account as it was loaded, counted by addChild.
CreateChild(r, code, flags) ==
  /\ work[r].step = "loaded" /\ ~ work[r].account.flags.postable
  /\ InsertAccount(Child(work[r].id, work[r].account, code, flags))
  /\ work' = [work EXCEPT ![r].childCount = @ + 1]

\* Mutant of UpdateAccount: WHERE id = ?.
UpdateAnyRevision(r, flag, value) ==
  LET id == work[r].id
      account == [work[r].account EXCEPT !.flags[flag] = value]
  IN /\ edits < MaxEdits
     /\ accounts' = [accounts EXCEPT ![id] = account]
     /\ told' = [told EXCEPT ![id].flags[flag] = value]
     /\ editions' = [editions EXCEPT ![id] = @ + 1]
     /\ work' = [work EXCEPT ![r] = NoWork]
     /\ edits' = edits + 1

\* repository.update: the whole row as it was loaded and changed, where it still has
\* the revision it was loaded with.
UpdateAccount(r, flag, value) ==
  LET id == work[r].id
      account == [work[r].account EXCEPT !.flags[flag] = value]
  IN /\ edits < MaxEdits /\ editions[id] = work[r].revision
     /\ accounts' = [accounts EXCEPT ![id] = account]
     /\ told' = [told EXCEPT ![id].flags[flag] = value]
     /\ editions' = [editions EXCEPT ![id] = @ + 1]
     /\ work' = [work EXCEPT ![r] = NoWork]
     /\ edits' = edits + 1

\* A system account does not change.
Changeable(r) == work[r].step = "loaded" /\ ~ work[r].account.flags.system

\* Account.setPostable: not for an account whose children this request has created.
SetPostable(r, value) ==
  /\ Changeable(r) /\ ~ (value /\ work[r].childCount > 0)
  /\ UpdateAccount(r, "postable", value)

\* Account.setActive
SetActive(r, value) ==
  /\ Changeable(r)
  /\ UpdateAccount(r, "active", value)

\* A change or a write that is refused ends the request.
GiveUp(r) ==
  /\ work[r].step = "loaded"
  /\ work' = [work EXCEPT ![r] = NoWork]
  /\ UNCHANGED <<accounts, editions, told, edits>>

ChartNext ==
  \E r \in Editors :
    \/ GiveUp(r)
    \/ \E id \in Stored : LoadAccount(r, id)
    \/ \E code \in Codes, flags \in Flags :
         \/ CreateChild(r, code, flags)
         \/ CreateRoot(r, code, flags)
    \/ \E value \in BOOLEAN : SetPostable(r, value) \/ SetActive(r, value)

ChartSpec == ChartInit /\ [][ChartNext]_chartVars

-----------------------------------------------------------------------------

\* assembleTree: the accounts that hang off a root, after so many generations.
Reached ==
  LET reached[n \in 0..Cardinality(Stored)] ==
        IF n = 0 THEN {id \in Stored : accounts[id].parent = NoParent}
        ELSE reached[n - 1] \cup {id \in Stored : accounts[id].parent \in reached[n - 1]}
  IN reached[Cardinality(Stored)]

-----------------------------------------------------------------------------
(* Properties.                                                             *)

\* However requests overlap: the tree of a company can always be assembled from its
\* rows, an account stands on the level below its parent, a code names one account,
\* a system account stays as it is, and each account is what the answers tell of it.
ChartsStand ==
  /\ Reached = Stored
  /\ \A id \in Stored :
       LET account == accounts[id] IN
         /\ account = told[id] /\ account.flags \in Flags
         /\ account.parent # NoParent => account.level = accounts[account.parent].level + 1
         /\ \A other \in Stored \ {id} : accounts[other].code # account.code

=============================================================================

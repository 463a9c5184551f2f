--------------------------- MODULE Authentication ---------------------------
(***************************************************************************)
(* One user account: its failure counter and lockout, its credential and   *)
(* the sessions that sign-ins establish, under concurrent sign-ins,        *)
(* credential changes, sign-outs and administration of the account.        *)
(*                                                                         *)
(* Reads outside a transaction see the latest commit.  A transaction that  *)
(* writes a row by a conditional UPDATE, inserts and commits is one action *)
(* here: the locks it holds until the commit order it against all others.  *)
(***************************************************************************)
EXTENDS Integers, Sequences

CONSTANTS
  Requests,        \* requests in flight
  Secrets, NoSecret,
  Threshold,       \* lockout policy: failures that lock
  Duration,        \* lockout policy: how long
  Ttl,             \* lifetime of a session
  MaxWrites,       \* MAX_LOCKOUT_WRITE_ATTEMPTS
  MaxTime,         \* bound: the clock
  MaxRevision,     \* bound: no request begins on an account beyond it
  MaxChanges,      \* bound: nor a change of a credential beyond it
  MaxSessions      \* bound: nor a sign-in when there are so many

ASSUME AuthenticationConstants ==
  /\ NoSecret \notin Secrets
  /\ {Threshold, Duration, Ttl, MaxWrites} \subseteq Nat \ {0}
  /\ {MaxTime, MaxRevision, MaxChanges, MaxSessions} \subseteq Nat

VARIABLES
  now,
  user,         \* users: status, failure counter, lockedUntil (0: none)
  credential,   \* user_credentials: the secret and its revision (0: no row)
  sessions,     \* auth_sessions, in the order of their creation
  trail,        \* audit records: how many of each kind
  at,           \* where each request stands
  held          \* what it has read or was given

account == <<user, credential, sessions, trail>>
vars == <<now, account, at, held>>

-----------------------------------------------------------------------------

Users == [status : {"active", "inactive"}, failed : 0..Threshold, lockedUntil : Nat,
          revision : Nat]
Credentials == [secret : Secrets \cup {NoSecret}, revision : Nat]
\* "ends" counts the revocations; the credential a session was established
\* with is not stored in its row, it is kept here to speak of it.
Sessions == [verified : Nat, expires : Nat, ends : Nat]
Moves == {"activate", "deactivate", "rename"}

NewUser == [status |-> "active", failed |-> 0, lockedUntil |-> 0, revision |-> 1]

Nothing == [started |-> 0, secret |-> NoSecret, user |-> NewUser, seen |-> 0,
            session |-> 0, move |-> "rename", tries |-> 0]

Init ==
  /\ now = 0
  /\ user = NewUser
  /\ credential = [secret |-> NoSecret, revision |-> 0]
  /\ sessions = <<>>
  /\ trail = [failed |-> 0, locked |-> 0, established |-> 0]
  /\ at = [r \in Requests |-> "idle"]
  /\ held = [r \in Requests |-> Nothing]

Goto(r, where) == at' = [at EXCEPT ![r] = where]

End(r) ==
  /\ Goto(r, "idle")
  /\ held' = [held EXCEPT ![r] = Nothing]

Tick ==
  /\ now < MaxTime
  /\ now' = now + 1
  /\ UNCHANGED <<account, at, held>>

-----------------------------------------------------------------------------
(* The aggregates.                                                         *)

IsLocked(u, t) == t < u.lockedUntil

\* Mutant of AfterFailure: an expired lockout does not start a fresh window.
AfterFailureOnTop(u, t) ==
  IF IsLocked(u, t) THEN u ELSE
    [u EXCEPT !.failed = u.failed + 1,
              !.lockedUntil = IF u.failed + 1 >= Threshold THEN t + Duration ELSE 0]

\* recordFailedAuthentication: a lockout is not extended, an expired one starts
\* a fresh window, and the threshold locks.
AfterFailure(u, t) ==
  LET failed == 1 + IF u.lockedUntil = 0 THEN u.failed ELSE 0 IN
    IF IsLocked(u, t) THEN u ELSE
      [u EXCEPT !.failed = failed,
                !.lockedUntil = IF failed >= Threshold THEN t + Duration ELSE 0]

Cleared(u) == [u EXCEPT !.failed = 0, !.lockedUntil = 0]
HasFailures(u) == u.failed > 0 \/ u.lockedUntil # 0

Revoked(s) == s.ends > 0
IsUsable(s, t) == ~Revoked(s) /\ t < s.expires
Established(verified, t) == [verified |-> verified, expires |-> t + Ttl, ends |-> 0]

\* users.update: WHERE revision = the one read; the whole row is written.
Saves(u) == user.revision = u.revision
Save(u) == user' = [u EXCEPT !.revision = @ + 1]

-----------------------------------------------------------------------------
(* SignIn.                                                                 *)

SignIn(r, s) ==
  /\ at[r] = "idle" /\ user.revision < MaxRevision /\ Len(sessions) < MaxSessions
  /\ held' = [held EXCEPT ![r] = [Nothing EXCEPT !.started = now, !.secret = s]]
  /\ Goto(r, "find")
  /\ UNCHANGED <<now, account>>

\* users.findByEmail: a locked account is refused before any secret is looked at.
FindUser(r) ==
  /\ at[r] = "find"
  /\ IF IsLocked(user, held[r].started)
       THEN End(r)
       ELSE /\ held' = [held EXCEPT ![r].user = user]
            /\ Goto(r, "verify")
  /\ UNCHANGED <<now, account>>

\* credentials.get and hasher.verify: no credential, a wrong secret, an
\* account that is not active, or a session.
Verify(r) ==
  /\ at[r] = "verify"
  /\ \/ credential.revision = 0 /\ End(r)
     \/ /\ credential.revision > 0 /\ credential.secret # held[r].secret
        /\ Goto(r, "fail")
        /\ held' = [held EXCEPT ![r].tries = 1]
     \/ /\ credential.revision > 0 /\ credential.secret = held[r].secret
        /\ IF held[r].user.status = "active"
             THEN /\ Goto(r, "establish")
                  /\ held' = [held EXCEPT ![r].tries = 1,
                                          ![r].seen = credential.revision]
             ELSE End(r)
  /\ UNCHANGED <<now, account>>

\* A write that lost the race is tried again on the account as it is now.
Retry(r, where) ==
  /\ IF held[r].tries = MaxWrites
       THEN End(r)
       ELSE /\ Goto(r, where)
            /\ held' = [held EXCEPT ![r].tries = @ + 1]
  /\ UNCHANGED account

\* users.get, between two tries.
Reload(r, from, to) ==
  /\ at[r] = from
  /\ held' = [held EXCEPT ![r].user = user]
  /\ Goto(r, to)
  /\ UNCHANGED <<now, account>>
ReloadToEstablish(r) == Reload(r, "lost session", "establish")
ReloadToFail(r) == Reload(r, "lost failure", "fail")

\* establish: the session, with the counter reset when the account read shows
\* that there is something to reset.
Establish(r) ==
  /\ at[r] = "establish"
  /\ \/ /\ HasFailures(held[r].user) => Saves(held[r].user)
        /\ IF HasFailures(held[r].user)
             THEN Save(Cleared(held[r].user))
             ELSE UNCHANGED user
        /\ sessions' = Append(sessions, Established(held[r].seen, held[r].started))
        /\ End(r)
        /\ UNCHANGED <<credential, trail>>
     \/ /\ HasFailures(held[r].user) /\ ~Saves(held[r].user)
        /\ Retry(r, "lost session")
  /\ UNCHANGED now

\* Mutant of RecordFailure: the failure is written without the revision.
RecordFailureAnyRevision(r) ==
  LET u == AfterFailure(held[r].user, held[r].started) IN
    /\ at[r] = "fail" /\ ~IsLocked(held[r].user, held[r].started)
    /\ Save(u)
    /\ trail' = [trail EXCEPT !.failed = @ + 1,
                              !.locked = IF IsLocked(u, held[r].started) THEN @ + 1 ELSE @]
    /\ End(r)
    /\ UNCHANGED <<now, credential, sessions>>

\* recordFailedAttempt: counter, lockout and their audit records together.
RecordFailure(r) ==
  LET loaded == held[r].user
      u == AfterFailure(loaded, held[r].started)
  IN  /\ at[r] = "fail"
      /\ \/ /\ IsLocked(loaded, held[r].started)
            /\ End(r) /\ UNCHANGED account
         \/ /\ ~IsLocked(loaded, held[r].started) /\ Saves(loaded)
            /\ Save(u)
            /\ trail' = [trail EXCEPT !.failed = @ + 1,
                           !.locked = IF IsLocked(u, held[r].started) THEN @ + 1 ELSE @]
            /\ End(r)
            /\ UNCHANGED <<credential, sessions>>
         \/ /\ ~IsLocked(loaded, held[r].started) /\ ~Saves(loaded)
            /\ Retry(r, "lost failure")
      /\ UNCHANGED now

-----------------------------------------------------------------------------
(* SetUserCredential.                                                      *)

\* users.get: the user is there and active.
SetCredential(r, s) ==
  /\ at[r] = "idle" /\ credential.revision < MaxChanges
  /\ user.status = "active"
  /\ held' = [held EXCEPT ![r] = [Nothing EXCEPT !.secret = s]]
  /\ Goto(r, "existing")
  /\ UNCHANGED <<now, account>>

\* credentials.get; then the hash is derived.
ReadExisting(r) ==
  /\ at[r] = "existing"
  /\ held' = [held EXCEPT ![r].seen = credential.revision]
  /\ Goto(r, "replace")
  /\ UNCHANGED <<now, account>>

\* sessions.revokeActiveForUser.
RevokeAll(ss) ==
  [i \in DOMAIN ss |-> IF Revoked(ss[i]) THEN ss[i] ELSE [ss[i] EXCEPT !.ends = @ + 1]]

\* Mutant of Replace: a credential set in between is overwritten.
ReplaceAnyRevision(r) ==
  /\ at[r] = "replace"
  /\ credential' = [secret |-> held[r].secret, revision |-> held[r].seen + 1]
  /\ sessions' = RevokeAll(sessions)
  /\ trail' = [trail EXCEPT !.established = @ + 1]
  /\ End(r)
  /\ UNCHANGED <<now, user>>

\* The first credential meets the primary key, a replacement the revision: one
\* set in between is a conflict.  The sessions end in the same transaction.
Replace(r) ==
  /\ at[r] = "replace"
  /\ IF credential.revision = held[r].seen
       THEN /\ credential' = [secret |-> held[r].secret, revision |-> held[r].seen + 1]
            /\ sessions' = RevokeAll(sessions)
            /\ trail' = [trail EXCEPT !.established = @ + 1]
       ELSE UNCHANGED <<credential, sessions, trail>>
  /\ End(r)
  /\ UNCHANGED <<now, user>>

-----------------------------------------------------------------------------
(* SignOut.                                                                *)

\* sessions.get: an unusable session is refused.
SignOut(r, i) ==
  /\ at[r] = "idle" /\ IsUsable(sessions[i], now)
  /\ held' = [held EXCEPT ![r] = [Nothing EXCEPT !.session = i]]
  /\ Goto(r, "revoke")
  /\ UNCHANGED <<now, account>>

\* Mutant of Revoke: WHERE id = ? only.
RevokeAnyRevision(r) ==
  /\ at[r] = "revoke"
  /\ sessions' = [sessions EXCEPT ![held[r].session].ends = @ + 1]
  /\ End(r)
  /\ UNCHANGED <<now, user, credential, trail>>

\* sessions.update, at the revision read: only a revocation raises it.
Revoke(r) ==
  /\ at[r] = "revoke"
  /\ sessions' = IF Revoked(sessions[held[r].session])
                   THEN sessions
                   ELSE [sessions EXCEPT ![held[r].session].ends = @ + 1]
  /\ End(r)
  /\ UNCHANGED <<now, user, credential, trail>>

-----------------------------------------------------------------------------
(* ChangeUserStatus and UpdateUser.                                        *)

\* The caller names the revision it was shown.
Administer(r, move) ==
  /\ at[r] = "idle" /\ user.revision < MaxRevision
  /\ held' = [held EXCEPT ![r] = [Nothing EXCEPT !.move = move, !.seen = user.revision]]
  /\ Goto(r, "load")
  /\ UNCHANGED <<now, account>>

\* repository.get: a move the account does not allow is refused.
LoadUser(r) ==
  /\ at[r] = "load"
  /\ IF held[r].move = "activate" <=> user.status = "active"
       THEN End(r)
       ELSE held' = [held EXCEPT ![r].user = user] /\ Goto(r, "store")
  /\ UNCHANGED <<now, account>>

Moved(u, move) ==
  [u EXCEPT !.status = CASE move = "activate" -> "active"
                         [] move = "deactivate" -> "inactive"
                         [] OTHER -> @]

\* Mutant of StoreUser: the row as it was loaded, at whatever revision.
StoreUserAnyRevision(r) ==
  /\ at[r] = "store"
  /\ Save(Moved(held[r].user, held[r].move))
  /\ End(r)
  /\ UNCHANGED <<now, credential, sessions, trail>>

\* repository.update: the row as it was loaded, if the account is still at the
\* revision the caller was shown.
StoreUser(r) ==
  /\ at[r] = "store"
  /\ IF user.revision = held[r].seen
       THEN Save(Moved(held[r].user, held[r].move))
       ELSE UNCHANGED user
  /\ End(r)
  /\ UNCHANGED <<now, credential, sessions, trail>>

\* The process dies, or a statement throws: nothing of the request is written.
Abort(r) == at[r] # "idle" /\ End(r) /\ UNCHANGED <<now, account>>

-----------------------------------------------------------------------------

Begin(r) ==
  \/ \E s \in Secrets : SignIn(r, s) \/ SetCredential(r, s)
  \/ \E i \in DOMAIN sessions : SignOut(r, i)
  \/ \E move \in Moves : Administer(r, move)

Continue(r) ==
  \/ FindUser(r) \/ Verify(r) \/ Establish(r) \/ RecordFailure(r)
  \/ ReloadToEstablish(r) \/ ReloadToFail(r)
  \/ ReadExisting(r) \/ Replace(r) \/ Revoke(r)
  \/ LoadUser(r) \/ StoreUser(r)

Next == Tick \/ \E r \in Requests : Begin(r) \/ Continue(r) \/ Abort(r)

Spec == Init /\ [][Next]_vars

-----------------------------------------------------------------------------
(* Properties.                                                             *)

Places == {"idle", "find", "verify", "fail", "establish", "lost session",
           "lost failure", "existing", "replace", "revoke", "load", "store"}
Holdings == [started : Nat, secret : Secrets \cup {NoSecret}, user : Users,
             seen : Nat, session : Nat, move : Moves, tries : Nat]

\* Every variable keeps its type; the counter never passes the threshold.
TypeOK ==
  /\ now \in Nat
  /\ user \in Users
  /\ credential \in Credentials
  /\ sessions \in Seq(Sessions)
  /\ trail \in [failed : Nat, locked : Nat, established : Nat]
  /\ at \in [Requests -> Places]
  /\ held \in [Requests -> Holdings]
  /\ \A r \in Requests : at[r] = "revoke" => held[r].session \in DOMAIN sessions

\* sign-in.use-case.ts: "the trail and the state can never disagree".  Every
\* lockout has its own Threshold recorded failures behind it, and the failures
\* counted now are recorded and belong to none of them.
LockoutsAreEarned ==
  /\ user.lockedUntil # 0 <=> user.failed = Threshold
  /\ Threshold * trail.locked
       + (IF user.lockedUntil = 0 THEN user.failed ELSE 0) <= trail.failed

\* user.ts: a lockout is not extended, nor shortened by a late failure or by an
\* administrator's write of a row read before it: it stands until its time, or
\* until a sign-in whose secret was verified establishes a session.
LockoutStands ==
  [][IsLocked(user, now) =>
       \/ user'.lockedUntil = user.lockedUntil
       \/ Len(sessions') > Len(sessions) /\ user' = [Cleared(user) EXCEPT !.revision = @ + 1]
    ]_vars

\* set-user-credential.use-case.ts: a credential is never silently overwritten:
\* every change that was reported is a revision of its own.
ChangesAreCounted == credential.revision = trail.established

\* auth-session.ts: a session is invalidated once: "invalidating twice is
\* refused rather than reported as success".
SessionsEndOnce == \A i \in DOMAIN sessions : sessions[i].ends <= 1

\* set-user-credential.use-case.ts: "the sessions the previous secret
\* established are invalidated".
OldSecretsOpenNothing ==
  \A i \in DOMAIN sessions :
    ~Revoked(sessions[i]) => sessions[i].verified = credential.revision

=============================================================================

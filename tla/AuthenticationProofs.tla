------------------------ MODULE AuthenticationProofs ------------------------
(***************************************************************************)
(* Type correctness of Authentication, the lockouts that are earned and    *)
(* stand, and the credential changes that are counted, proved for any set  *)
(* of requests and secrets and any lockout policy.                         *)
(***************************************************************************)
EXTENDS Authentication, TLAPS

-----------------------------------------------------------------------------
(* What a request has read of the account.                                 *)

HasRead == {"verify", "fail", "establish", "lost session", "lost failure", "store"}

\* A request that has read the account has read what it was at that revision.
Fresh(r) ==
  at[r] \in HasRead =>
    /\ held[r].user.revision <= user.revision
    /\ held[r].user.revision = user.revision => held[r].user = user

\* The revision an administrator was shown is no later than what is loaded.
Shown(r) ==
  /\ at[r] = "load" => held[r].seen <= user.revision
  /\ at[r] = "store" => held[r].seen <= held[r].user.revision

Started(r) == held[r].started <= now

AccountInv ==
  /\ TypeOK
  /\ LockoutsAreEarned
  /\ \A r \in Requests : Fresh(r) /\ Shown(r) /\ Started(r)

-----------------------------------------------------------------------------
(* Lemmas about the operators.                                             *)

\* Another counter and another end of the lockout leave an account an account.
LEMMA UserExcept ==
  ASSUME NEW u \in Users, NEW n \in 0..Threshold, NEW m \in Nat
  PROVE  [u EXCEPT !.failed = n, !.lockedUntil = m] \in Users
BY DEF Users

LEMMA NothingType == Nothing \in Holdings /\ NewUser \in Users
BY AuthenticationConstants DEF Nothing, NewUser, Holdings, Users, Moves

LEMMA Distribute ==
  ASSUME NEW n \in Nat
  PROVE  Threshold * n \in Nat /\ Threshold * (n + 1) = Threshold * n + Threshold
BY AuthenticationConstants

\* What a failure makes of an account that is not locked.
LEMMA FailureEffect ==
  ASSUME NEW u \in Users, NEW t \in Nat, ~IsLocked(u, t),
         u.lockedUntil # 0 <=> u.failed = Threshold
  PROVE  /\ AfterFailure(u, t) \in Users
         /\ AfterFailure(u, t).revision = u.revision
         /\ AfterFailure(u, t).lockedUntil # 0 <=> AfterFailure(u, t).failed = Threshold
         /\ IsLocked(AfterFailure(u, t), t) <=> AfterFailure(u, t).lockedUntil # 0
         /\ AfterFailure(u, t).failed = 1 + IF u.lockedUntil = 0 THEN u.failed ELSE 0
<1> PICK failed : failed = 1 + IF u.lockedUntil = 0 THEN u.failed ELSE 0
  OBVIOUS
<1>1. AfterFailure(u, t) =
        [u EXCEPT !.failed = failed,
                  !.lockedUntil = IF failed >= Threshold THEN t + Duration ELSE 0]
  BY DEF AfterFailure
<1>2. /\ u.failed \in 0..Threshold /\ u.lockedUntil \in Nat /\ u.revision \in Nat
      /\ Threshold \in Nat \ {0} /\ Duration \in Nat \ {0}
  BY AuthenticationConstants DEF Users
<1>3. failed \in 1..Threshold
  BY <1>2
<1>4. (IF failed >= Threshold THEN t + Duration ELSE 0) \in Nat
  BY <1>2
<1>5. AfterFailure(u, t) \in Users
  <2>1. failed \in 0..Threshold
    BY <1>2, <1>3
  <2>2. PICK until \in Nat : until = IF failed >= Threshold THEN t + Duration ELSE 0
    BY <1>4
  <2>3. [u EXCEPT !.failed = failed, !.lockedUntil = until] \in Users
    BY <2>1, UserExcept, Zenon
  <2> QED
    BY <1>1, <2>2, <2>3
<1>6. /\ AfterFailure(u, t).failed = failed
      /\ AfterFailure(u, t).lockedUntil = IF failed >= Threshold THEN t + Duration ELSE 0
      /\ AfterFailure(u, t).revision = u.revision
  BY <1>1 DEF Users
<1>7. AfterFailure(u, t).lockedUntil # 0 <=> failed = Threshold
  BY <1>2, <1>3, <1>6
<1>8. t < AfterFailure(u, t).lockedUntil <=> AfterFailure(u, t).lockedUntil # 0
  <2>1. CASE failed >= Threshold
    <3>1. AfterFailure(u, t).lockedUntil = t + Duration
      BY <1>6, <2>1
    <3> QED
      BY <1>2, <3>1
  <2>2. CASE ~(failed >= Threshold)
    <3>1. AfterFailure(u, t).lockedUntil = 0
      BY <1>6, <2>2
    <3> QED
      BY <3>1
  <2> QED
    BY <2>1, <2>2
<1> HIDE DEF AfterFailure
<1> QED
  BY <1>5, <1>6, <1>7, <1>8 DEF IsLocked

LEMMA ClearedType ==
  ASSUME NEW u \in Users
  PROVE  /\ Cleared(u) \in Users /\ Cleared(u).revision = u.revision
         /\ Cleared(u).failed = 0 /\ Cleared(u).lockedUntil = 0
<1>1. Cleared(u) \in Users
  <2>1. 0 \in 0..Threshold /\ 0 \in Nat
    BY AuthenticationConstants
  <2> QED
    BY <2>1, UserExcept DEF Cleared
<1> QED
  BY <1>1 DEF Cleared, Users

LEMMA MovedType ==
  ASSUME NEW u \in Users, NEW move \in Moves
  PROVE  /\ Moved(u, move) \in Users /\ Moved(u, move).revision = u.revision
         /\ Moved(u, move).failed = u.failed
         /\ Moved(u, move).lockedUntil = u.lockedUntil
<1>1. PICK status \in {"active", "inactive"} :
        Moved(u, move) = [u EXCEPT !.status = status]
  BY DEF Moved, Moves, Users
<1>2. Moved(u, move) = [status |-> status, failed |-> u.failed,
                        lockedUntil |-> u.lockedUntil, revision |-> u.revision]
  BY <1>1 DEF Users
<1> QED
  BY <1>2 DEF Users

LEMMA SessionExcept ==
  ASSUME NEW s \in Sessions
  PROVE  [s EXCEPT !.ends = @ + 1] \in Sessions
<1>1. s.verified \in Nat /\ s.expires \in Nat /\ s.ends + 1 \in Nat
  BY DEF Sessions
<1>2. [s EXCEPT !.ends = @ + 1] =
        [verified |-> s.verified, expires |-> s.expires, ends |-> s.ends + 1]
  BY DEF Sessions
<1> QED
  BY <1>1, <1>2 DEF Sessions

LEMMA RevokeAllType ==
  ASSUME NEW ss \in Seq(Sessions)
  PROVE  RevokeAll(ss) \in Seq(Sessions) /\ DOMAIN RevokeAll(ss) = DOMAIN ss
<1>1. \A i \in DOMAIN ss : ss[i] \in Sessions /\ [ss[i] EXCEPT !.ends = @ + 1] \in Sessions
  <2> SUFFICES ASSUME NEW i \in DOMAIN ss
               PROVE  ss[i] \in Sessions /\ [ss[i] EXCEPT !.ends = @ + 1] \in Sessions
    OBVIOUS
  <2>1. ss[i] \in Sessions
    OBVIOUS
  <2> QED
    BY <2>1, SessionExcept
<1>2. DOMAIN ss = 1..Len(ss) /\ Len(ss) \in Nat
  OBVIOUS
<1>3. /\ RevokeAll(ss) \in [1..Len(ss) -> Sessions]
      /\ DOMAIN RevokeAll(ss) = 1..Len(ss)
  BY <1>1, <1>2 DEF RevokeAll
<1>4. \A f : f \in [1..Len(ss) -> Sessions] => f \in Seq(Sessions)
  BY <1>2
<1> QED
  BY <1>2, <1>3, <1>4

-----------------------------------------------------------------------------
(* Steps of a request.                                                     *)

RequestMove(r, where, h) ==
  /\ at' = [at EXCEPT ![r] = where]
  /\ held' = [held EXCEPT ![r] = h]

LEMMA EndMoves ==
  ASSUME NEW r \in Requests, End(r)
  PROVE  RequestMove(r, "idle", Nothing)
BY DEF End, Goto, RequestMove

LEMMA MoveFacts ==
  ASSUME TypeOK, NEW r \in Requests, NEW where \in Places, NEW h \in Holdings,
         RequestMove(r, where, h)
  PROVE  /\ at' \in [Requests -> Places] /\ held' \in [Requests -> Holdings]
         /\ at'[r] = where /\ held'[r] = h
         /\ \A q \in Requests : q # r => at'[q] = at[q] /\ held'[q] = held[q]
BY DEF TypeOK, RequestMove

\* A step that writes nothing keeps the invariant if what the request goes on
\* with is fresh.
LEMMA QuietStep ==
  ASSUME AccountInv, NEW r \in Requests, NEW where \in Places, NEW h \in Holdings,
         RequestMove(r, where, h),
         now' = now, user' = user, credential' = credential,
         sessions' = sessions, trail' = trail,
         where = "revoke" => h.session \in DOMAIN sessions,
         where \in HasRead => /\ h.user.revision <= user.revision
                              /\ h.user.revision = user.revision => h.user = user,
         where = "load" => h.seen <= user.revision,
         where = "store" => h.seen <= h.user.revision,
         h.started <= now
  PROVE  AccountInv'
<1>1. TypeOK /\ LockoutsAreEarned
  BY DEF AccountInv
<1>2. /\ at' \in [Requests -> Places] /\ held' \in [Requests -> Holdings]
      /\ at'[r] = where /\ held'[r] = h
      /\ \A q \in Requests : q # r => at'[q] = at[q] /\ held'[q] = held[q]
  BY <1>1, MoveFacts
<1>3. \A q \in Requests : at'[q] = "revoke" => held'[q].session \in DOMAIN sessions'
  BY <1>1, <1>2 DEF TypeOK
<1>4. TypeOK'
  BY <1>1, <1>2, <1>3 DEF TypeOK
<1>5. LockoutsAreEarned'
  BY <1>1 DEF LockoutsAreEarned
<1>6. \A q \in Requests : Fresh(q)' /\ Shown(q)' /\ Started(q)'
  <2> SUFFICES ASSUME NEW q \in Requests PROVE Fresh(q)' /\ Shown(q)' /\ Started(q)'
    OBVIOUS
  <2>1. CASE q = r
    BY <1>2, <2>1 DEF Fresh, Shown, Started
  <2>2. CASE q # r
    BY <1>2, <2>2 DEF AccountInv, Fresh, Shown, Started
  <2> QED
    BY <2>1, <2>2
<1> QED
  BY <1>4, <1>5, <1>6 DEF AccountInv

\* A request that ends keeps the invariant if the account it leaves is typed,
\* its lockouts are earned, and whoever saved it raised its revision.
LEMMA LastStep ==
  ASSUME AccountInv, NEW r \in Requests, End(r), now' = now,
         user' \in Users, credential' \in Credentials, sessions' \in Seq(Sessions),
         DOMAIN sessions \subseteq DOMAIN sessions',
         trail' \in [failed : Nat, locked : Nat, established : Nat],
         user' = user \/ user'.revision = user.revision + 1,
         LockoutsAreEarned'
  PROVE  AccountInv'
<1>1. TypeOK
  BY DEF AccountInv
<1>2. /\ at' \in [Requests -> Places] /\ held' \in [Requests -> Holdings]
      /\ at'[r] = "idle" /\ held'[r] = Nothing
      /\ \A q \in Requests : q # r => at'[q] = at[q] /\ held'[q] = held[q]
  BY <1>1, EndMoves, MoveFacts, NothingType DEF Places
<1>3. \A q \in Requests : at'[q] = "revoke" => held'[q].session \in DOMAIN sessions'
  BY <1>1, <1>2 DEF TypeOK
<1>4. TypeOK'
  BY <1>1, <1>2, <1>3 DEF TypeOK
<1>5. user.revision \in Nat /\ now \in Nat
  BY <1>1 DEF TypeOK, Users
<1>6. \A q \in Requests : Fresh(q)' /\ Shown(q)' /\ Started(q)'
  <2> SUFFICES ASSUME NEW q \in Requests PROVE Fresh(q)' /\ Shown(q)' /\ Started(q)'
    OBVIOUS
  <2>1. CASE q = r
    <3>1. Nothing.started = 0
      BY DEF Nothing
    <3> QED
      BY <1>2, <1>5, <2>1, <3>1 DEF Fresh, Shown, Started, HasRead
  <2>2. CASE q # r
    <3>1. Fresh(q) /\ Shown(q) /\ Started(q)
      BY DEF AccountInv
    <3>2. held[q] \in Holdings
      BY <1>1 DEF TypeOK
    <3>3. held[q].user.revision \in Nat /\ held[q].seen \in Nat
      BY <3>2 DEF Holdings, Users
    <3>4. Fresh(q)'
      BY <1>2, <1>5, <2>2, <3>1, <3>3 DEF Fresh
    <3> QED
      BY <1>2, <1>5, <2>2, <3>1, <3>3, <3>4 DEF Shown, Started
  <2> QED
    BY <2>1, <2>2
<1> QED
  BY <1>4, <1>6 DEF AccountInv

\* A request that ends and writes nothing.
LEMMA EmptyEnd ==
  ASSUME AccountInv, NEW r \in Requests, End(r), now' = now, user' = user,
         credential' = credential, sessions' = sessions, trail' = trail
  PROVE  AccountInv'
BY LastStep DEF AccountInv, TypeOK, LockoutsAreEarned

-----------------------------------------------------------------------------
(* The actions that only read, or begin.                                   *)

LEMMA HoldingFields ==
  ASSUME TypeOK, NEW r \in Requests
  PROVE  /\ held[r] \in Holdings /\ user \in Users
         /\ held[r].user \in Users /\ held[r].started \in Nat /\ held[r].seen \in Nat
         /\ held[r].session \in Nat /\ held[r].tries \in Nat /\ held[r].move \in Moves
         /\ held[r].secret \in Secrets \cup {NoSecret}
         /\ held[r].user.revision \in Nat /\ user.revision \in Nat
         /\ now \in Nat
<1>1. held[r] \in Holdings /\ user \in Users /\ now \in Nat
  BY DEF TypeOK
<1>2. held[r].user \in Users
  BY <1>1 DEF Holdings
<1> QED
  BY <1>1, <1>2 DEF Holdings, Users

LEMMA BeginStep ==
  ASSUME AccountInv, NEW r \in Requests, Begin(r)
  PROVE  AccountInv'
<1>1. TypeOK
  BY DEF AccountInv
<1>2. user.revision \in Nat /\ now \in Nat /\ credential.revision \in Nat
  BY <1>1 DEF TypeOK, Users, Credentials
<1>3. ASSUME NEW s \in Secrets, SignIn(r, s) PROVE AccountInv'
  <2>1. PICK h : h = [Nothing EXCEPT !.started = now, !.secret = s]
    OBVIOUS
  <2>2. h \in Holdings /\ h.started = now
    BY <2>1, <1>2, NothingType DEF Nothing, Holdings
  <2>3. RequestMove(r, "find", h)
    BY <1>3, <2>1 DEF SignIn, Goto, RequestMove
  <2>4. now' = now /\ user' = user /\ credential' = credential /\ sessions' = sessions /\ trail' = trail
    BY <1>3 DEF SignIn, account
  <2>5. "find" \in Places /\ "find" \notin HasRead /\ h.started <= now
    BY <1>2, <2>2 DEF Places, HasRead
  <2> QED
    BY <1>2, <2>2, <2>3, <2>4, <2>5, QuietStep
<1>4. ASSUME NEW s \in Secrets, SetCredential(r, s) PROVE AccountInv'
  <2>1. PICK h : h = [Nothing EXCEPT !.secret = s]
    OBVIOUS
  <2>2. h \in Holdings /\ h.started = 0
    BY <2>1, NothingType DEF Nothing, Holdings
  <2>3. RequestMove(r, "existing", h)
    BY <1>4, <2>1 DEF SetCredential, Goto, RequestMove
  <2>4. now' = now /\ user' = user /\ credential' = credential /\ sessions' = sessions /\ trail' = trail
    BY <1>4 DEF SetCredential, account
  <2>5. "existing" \in Places /\ "existing" \notin HasRead /\ h.started <= now
    BY <1>2, <2>2 DEF Places, HasRead
  <2> QED
    BY <1>2, <2>2, <2>3, <2>4, <2>5, QuietStep
<1>5. ASSUME NEW i \in DOMAIN sessions, SignOut(r, i) PROVE AccountInv'
  <2>1. PICK h : h = [Nothing EXCEPT !.session = i]
    OBVIOUS
  <2>2. i \in Nat
    BY <1>1 DEF TypeOK
  <2>3. h \in Holdings /\ h.started = 0 /\ h.session = i
    BY <2>1, <2>2, NothingType DEF Nothing, Holdings
  <2>4. RequestMove(r, "revoke", h)
    BY <1>5, <2>1 DEF SignOut, Goto, RequestMove
  <2>5. now' = now /\ user' = user /\ credential' = credential /\ sessions' = sessions /\ trail' = trail
    BY <1>5 DEF SignOut, account
  <2>6. "revoke" \in Places /\ "revoke" \notin HasRead /\ h.started <= now
    BY <1>2, <2>3 DEF Places, HasRead
  <2> QED
    BY <1>2, <2>3, <2>4, <2>5, <2>6, QuietStep
<1>6. ASSUME NEW move \in Moves, Administer(r, move) PROVE AccountInv'
  <2>1. PICK h : h = [Nothing EXCEPT !.move = move, !.seen = user.revision]
    OBVIOUS
  <2>2. h \in Holdings /\ h.started = 0 /\ h.seen = user.revision
    BY <2>1, <1>2, NothingType DEF Nothing, Holdings
  <2>3. RequestMove(r, "load", h)
    BY <1>6, <2>1 DEF Administer, Goto, RequestMove
  <2>4. now' = now /\ user' = user /\ credential' = credential /\ sessions' = sessions /\ trail' = trail
    BY <1>6 DEF Administer, account
  <2>5. "load" \in Places /\ "load" \notin HasRead /\ h.started <= now
    BY <1>2, <2>2 DEF Places, HasRead
  <2> QED
    BY <1>2, <2>2, <2>3, <2>4, <2>5, QuietStep
<1> QED
  BY <1>3, <1>4, <1>5, <1>6 DEF Begin

\* The account as it is now is fresh.
LEMMA ReadStep ==
  ASSUME AccountInv, NEW r \in Requests, NEW where \in HasRead,
         at' = [at EXCEPT ![r] = where], held' = [held EXCEPT ![r].user = user],
         where = "store" => held[r].seen <= user.revision,
         now' = now, account' = account
  PROVE  AccountInv'
<1>1. TypeOK /\ Started(r)
  BY DEF AccountInv
<1>2. PICK h : h = [held[r] EXCEPT !.user = user]
  OBVIOUS
<1>3. /\ held[r] \in Holdings /\ user \in Users /\ user.revision \in Nat
  BY <1>1, HoldingFields
<1>4. h \in Holdings /\ h.user = user /\ h.started = held[r].started /\ h.seen = held[r].seen
  BY <1>2, <1>3 DEF Holdings
<1>5. RequestMove(r, where, h)
  BY <1>2 DEF RequestMove
<1>6. where \in Places /\ where # "revoke" /\ where # "load"
  BY DEF Places, HasRead
<1> QED
  BY <1>1, <1>3, <1>4, <1>5, <1>6, QuietStep DEF account, Started

LEMMA FindUserStep ==
  ASSUME AccountInv, NEW r \in Requests, FindUser(r)
  PROVE  AccountInv'
<1>1. CASE End(r)
  BY <1>1, EmptyEnd DEF FindUser, account
<1>2. CASE held' = [held EXCEPT ![r].user = user] /\ Goto(r, "verify")
  BY <1>2, ReadStep DEF FindUser, Goto, HasRead
<1> QED
  BY <1>1, <1>2 DEF FindUser

LEMMA ReloadStep ==
  ASSUME AccountInv, NEW r \in Requests, ReloadToEstablish(r) \/ ReloadToFail(r)
  PROVE  AccountInv'
BY ReadStep DEF ReloadToEstablish, ReloadToFail, Reload, Goto, HasRead

LEMMA LoadUserStep ==
  ASSUME AccountInv, NEW r \in Requests, LoadUser(r)
  PROVE  AccountInv'
<1>1. CASE End(r)
  BY <1>1, EmptyEnd DEF LoadUser, account
<1>2. CASE held' = [held EXCEPT ![r].user = user] /\ Goto(r, "store")
  <2>1. held[r].seen <= user.revision
    BY DEF LoadUser, AccountInv, Shown
  <2> QED
    BY <1>2, <2>1, ReadStep DEF LoadUser, Goto, HasRead
<1> QED
  BY <1>1, <1>2 DEF LoadUser

LEMMA VerifyStep ==
  ASSUME AccountInv, NEW r \in Requests, Verify(r)
  PROVE  AccountInv'
<1>1. TypeOK /\ Fresh(r) /\ Started(r) /\ at[r] = "verify"
  BY DEF AccountInv, Verify
<1>2. /\ held[r] \in Holdings /\ user.revision \in Nat /\ credential.revision \in Nat
  BY <1>1, HoldingFields DEF TypeOK, Credentials
<1>3. CASE End(r)
  BY <1>3, EmptyEnd DEF Verify, account
<1>4. CASE Goto(r, "fail") /\ held' = [held EXCEPT ![r].tries = 1]
  <2>1. PICK h : h = [held[r] EXCEPT !.tries = 1]
    OBVIOUS
  <2>2. h \in Holdings /\ h.user = held[r].user /\ h.started = held[r].started
    BY <1>2, <2>1 DEF Holdings
  <2>3. RequestMove(r, "fail", h)
    BY <1>4, <2>1 DEF Goto, RequestMove
  <2> QED
    BY <1>1, <2>2, <2>3, QuietStep DEF Verify, account, Fresh, Started, Places, HasRead
<1>5. CASE /\ Goto(r, "establish")
           /\ held' = [held EXCEPT ![r].tries = 1, ![r].seen = credential.revision]
  <2>1. PICK h : h = [held[r] EXCEPT !.tries = 1, !.seen = credential.revision]
    OBVIOUS
  <2>2. h \in Holdings /\ h.user = held[r].user /\ h.started = held[r].started
    BY <1>2, <2>1 DEF Holdings
  <2>3. RequestMove(r, "establish", h)
    BY <1>1, <1>2, <1>5, <2>1 DEF Goto, RequestMove, TypeOK
  <2> QED
    BY <1>1, <2>2, <2>3, QuietStep DEF Verify, account, Fresh, Started, Places, HasRead
<1> QED
  BY <1>3, <1>4, <1>5 DEF Verify

LEMMA AnotherTry ==
  ASSUME NEW h \in Holdings
  PROVE  /\ [h EXCEPT !.tries = @ + 1] \in Holdings
         /\ [h EXCEPT !.tries = @ + 1].user = h.user
         /\ [h EXCEPT !.tries = @ + 1].started = h.started
<1>1. h.tries \in Nat
  BY DEF Holdings
<1>2. PICK n \in Nat : n = h.tries + 1
  BY <1>1
<1> QED
  BY <1>2 DEF Holdings

LEMMA RetryStep ==
  ASSUME AccountInv, NEW r \in Requests, NEW where \in {"lost session", "lost failure"},
         at[r] \in {"establish", "fail"}, Retry(r, where), now' = now
  PROVE  AccountInv'
<1>1. TypeOK /\ Fresh(r) /\ Started(r)
  BY DEF AccountInv
<1>2. held[r] \in Holdings /\ held[r].tries \in Nat
  BY <1>1, HoldingFields
<1>3. CASE End(r)
  BY <1>3, EmptyEnd DEF Retry, account
<1>4. CASE Goto(r, where) /\ held' = [held EXCEPT ![r].tries = @ + 1]
  <2>1. PICK h : h = [held[r] EXCEPT !.tries = @ + 1]
    OBVIOUS
  <2>2. h \in Holdings /\ h.user = held[r].user /\ h.started = held[r].started
    BY <1>2, <2>1, AnotherTry
  <2>3. RequestMove(r, where, h)
    BY <1>4, <2>1 DEF Goto, RequestMove
  <2> QED
    BY <1>1, <2>2, <2>3, QuietStep DEF Retry, account, Fresh, Started, Places, HasRead
<1> QED
  BY <1>3, <1>4 DEF Retry

LEMMA ReadExistingStep ==
  ASSUME AccountInv, NEW r \in Requests, ReadExisting(r)
  PROVE  AccountInv'
<1>1. TypeOK /\ Started(r)
  BY DEF AccountInv
<1>2. PICK h : h = [held[r] EXCEPT !.seen = credential.revision]
  OBVIOUS
<1>3. held[r] \in Holdings /\ credential.revision \in Nat
  BY <1>1, HoldingFields DEF TypeOK, Credentials
<1>4. h \in Holdings /\ h.started = held[r].started
  BY <1>2, <1>3 DEF Holdings
<1>5. RequestMove(r, "replace", h)
  BY <1>2 DEF ReadExisting, Goto, RequestMove
<1> QED
  BY <1>1, <1>4, <1>5, QuietStep DEF ReadExisting, account, Started, Places, HasRead

-----------------------------------------------------------------------------
(* The actions that write.                                                 *)

\* A save of the account that was read writes what it is now, changed.
LEMMA SavedIsFresh ==
  ASSUME AccountInv, NEW r \in Requests, at[r] \in HasRead, Saves(held[r].user)
  PROVE  held[r].user = user
BY DEF AccountInv, Fresh, Saves

LEMMA SaveEffect ==
  ASSUME NEW u \in Users, Save(u)
  PROVE  /\ user' \in Users /\ user'.revision = u.revision + 1
         /\ user'.status = u.status
         /\ user'.failed = u.failed /\ user'.lockedUntil = u.lockedUntil
<1>1. u.revision + 1 \in Nat
  BY DEF Users
<1>2. PICK n \in Nat : n = u.revision + 1
  BY <1>1
<1>3. user' = [u EXCEPT !.revision = n]
  BY <1>2 DEF Save
<1> QED
  BY <1>2, <1>3 DEF Users

\* What lockouts that are earned say, field by field.
LEMMA EarnedFields ==
  ASSUME TypeOK, LockoutsAreEarned
  PROVE  /\ user.failed \in 0..Threshold /\ user.lockedUntil \in Nat
         /\ user.lockedUntil # 0 <=> user.failed = Threshold
         /\ trail.locked \in Nat /\ trail.failed \in Nat /\ trail.established \in Nat
         /\ Threshold * trail.locked \in Nat
         /\ Threshold * trail.locked
              + (IF user.lockedUntil = 0 THEN user.failed ELSE 0) <= trail.failed
         /\ Threshold \in Nat /\ Threshold > 0
<1>1. trail.locked \in Nat /\ trail.failed \in Nat /\ trail.established \in Nat
  BY DEF TypeOK
<1>2. Threshold * trail.locked \in Nat
  BY <1>1, Distribute
<1>3. user.failed \in 0..Threshold /\ user.lockedUntil \in Nat
  BY DEF TypeOK, Users
<1> QED
  BY <1>1, <1>2, <1>3, AuthenticationConstants DEF LockoutsAreEarned

LEMMA EstablishedType ==
  ASSUME NEW v \in Nat, NEW t \in Nat
  PROVE  Established(v, t) \in Sessions /\ Established(v, t).ends = 0
<1>1. t + Ttl \in Nat
  BY AuthenticationConstants
<1> QED
  BY <1>1 DEF Established, Sessions

\* What an establishment writes of the account.
EstablishWrites(r) ==
  /\ HasFailures(held[r].user) => Saves(held[r].user)
  /\ IF HasFailures(held[r].user) THEN Save(Cleared(held[r].user)) ELSE UNCHANGED user
  /\ sessions' = Append(sessions, Established(held[r].seen, held[r].started))
  /\ End(r)
  /\ UNCHANGED <<credential, trail>>

LEMMA EstablishCases ==
  ASSUME NEW r \in Requests, Establish(r)
  PROVE  at[r] = "establish" /\ now' = now
         /\ (EstablishWrites(r) \/ Retry(r, "lost session"))
BY DEF Establish, EstablishWrites

\* The account is untouched, or cleared at its next revision.
LEMMA EstablishUser ==
  ASSUME AccountInv, NEW r \in Requests, at[r] = "establish", EstablishWrites(r)
  PROVE  /\ user' = user \/ user' = [Cleared(user) EXCEPT !.revision = @ + 1]
         /\ sessions' \in Seq(Sessions) /\ Len(sessions') > Len(sessions)
         /\ DOMAIN sessions \subseteq DOMAIN sessions'
         /\ user' \in Users
         /\ user' = user \/ /\ user'.revision = user.revision + 1
                            /\ user'.failed = 0 /\ user'.lockedUntil = 0
<1>1. TypeOK
  BY DEF AccountInv
<1>2. user \in Users /\ held[r].seen \in Nat /\ held[r].started \in Nat
  BY <1>1, HoldingFields
<1>3. PICK s \in Sessions : s = Established(held[r].seen, held[r].started)
  BY <1>2, EstablishedType
<1>4. sessions' = Append(sessions, s) /\ sessions \in Seq(Sessions)
  BY <1>1, <1>3 DEF EstablishWrites, TypeOK
<1>5. /\ sessions' \in Seq(Sessions) /\ Len(sessions') > Len(sessions)
      /\ DOMAIN sessions \subseteq DOMAIN sessions'
  BY <1>4
<1>6. CASE HasFailures(held[r].user)
  <2>1. held[r].user = user
    BY <1>6, SavedIsFresh DEF EstablishWrites, HasRead
  <2>2. Save(Cleared(user))
    BY <1>6, <2>1 DEF EstablishWrites
  <2>3. /\ Cleared(user) \in Users /\ Cleared(user).revision = user.revision
        /\ Cleared(user).failed = 0 /\ Cleared(user).lockedUntil = 0
    BY <1>2, ClearedType
  <2>4. /\ user' \in Users /\ user'.revision = user.revision + 1
        /\ user'.failed = 0 /\ user'.lockedUntil = 0
    BY <2>2, <2>3, SaveEffect
  <2>5. user' = [Cleared(user) EXCEPT !.revision = @ + 1]
    BY <2>2 DEF Save
  <2> QED
    BY <1>5, <2>4, <2>5
<1>7. CASE ~HasFailures(held[r].user)
  BY <1>2, <1>5, <1>7 DEF EstablishWrites
<1> QED
  BY <1>6, <1>7

LEMMA EstablishStep ==
  ASSUME AccountInv, NEW r \in Requests, Establish(r)
  PROVE  AccountInv'
<1>1. TypeOK /\ LockoutsAreEarned
  BY DEF AccountInv
<1>2. at[r] = "establish" /\ now' = now
  BY EstablishCases
<1>3. CASE Retry(r, "lost session")
  BY <1>2, <1>3, RetryStep
<1>4. CASE EstablishWrites(r)
  <2>1. /\ sessions' \in Seq(Sessions) /\ DOMAIN sessions \subseteq DOMAIN sessions'
        /\ user' \in Users
        /\ user' = user \/ /\ user'.revision = user.revision + 1
                           /\ user'.failed = 0 /\ user'.lockedUntil = 0
    BY <1>2, <1>4, EstablishUser
  <2>2. End(r) /\ credential' = credential /\ trail' = trail
    BY <1>4 DEF EstablishWrites
  <2>3. LockoutsAreEarned'
    <3>1. CASE user' = user
      BY <1>1, <2>2, <3>1 DEF LockoutsAreEarned
    <3>2. CASE user'.failed = 0 /\ user'.lockedUntil = 0
      <4>1. PICK product : product = Threshold * trail.locked
        OBVIOUS
      <4>2. product <= trail.failed
        <5>1. /\ user.failed \in Nat /\ product \in Nat /\ trail.failed \in Nat
              /\ product + (IF user.lockedUntil = 0 THEN user.failed ELSE 0) <= trail.failed
          BY <1>1, <4>1, EarnedFields
        <5> QED
          BY <5>1
      <4>3. product \in Nat /\ Threshold # 0
        BY <1>1, <4>1, EarnedFields
      <4> QED
        BY <2>2, <3>2, <4>1, <4>2, <4>3 DEF LockoutsAreEarned
    <3> QED
      BY <2>1, <3>1, <3>2
  <2>4. credential' \in Credentials /\ trail' \in [failed : Nat, locked : Nat, established : Nat]
    BY <1>1, <2>2 DEF TypeOK
  <2> QED
    BY <1>2, <2>1, <2>2, <2>3, <2>4, LastStep
<1> QED
  BY <1>3, <1>4, EstablishCases

\* What a failure that is counted writes.
FailureWrites(r) ==
  /\ ~IsLocked(held[r].user, held[r].started) /\ Saves(held[r].user)
  /\ Save(AfterFailure(held[r].user, held[r].started))
  /\ trail' = [trail EXCEPT !.failed = @ + 1,
                 !.locked = IF IsLocked(AfterFailure(held[r].user, held[r].started),
                                        held[r].started) THEN @ + 1 ELSE @]
  /\ End(r)
  /\ UNCHANGED <<credential, sessions>>

LEMMA FailureCases ==
  ASSUME NEW r \in Requests, RecordFailure(r)
  PROVE  /\ at[r] = "fail" /\ now' = now
         /\ \/ End(r) /\ UNCHANGED account
            \/ FailureWrites(r)
            \/ Retry(r, "lost failure")
BY DEF RecordFailure, FailureWrites

LEMMA TrailAfterFailure ==
  ASSUME NEW tr \in [failed : Nat, locked : Nat, established : Nat], NEW p
  PROVE  LET new == [tr EXCEPT !.failed = @ + 1, !.locked = IF p THEN @ + 1 ELSE @] IN
           /\ new \in [failed : Nat, locked : Nat, established : Nat]
           /\ new.failed = tr.failed + 1
           /\ new.locked = IF p THEN tr.locked + 1 ELSE tr.locked
           /\ new.established = tr.established
<1>1. PICK n \in Nat : n = tr.failed + 1
  OBVIOUS
<1>2. PICK m \in Nat : m = IF p THEN tr.locked + 1 ELSE tr.locked
  <2>1. CASE p
    BY <2>1
  <2>2. CASE ~p
    BY <2>2
  <2> QED
    BY <2>1, <2>2
<1>3. [tr EXCEPT !.failed = @ + 1, !.locked = IF p THEN @ + 1 ELSE @] =
        [tr EXCEPT !.failed = n, !.locked = m]
  BY <1>1, <1>2
<1>4. /\ [tr EXCEPT !.failed = n, !.locked = m] \in [failed : Nat, locked : Nat, established : Nat]
      /\ [tr EXCEPT !.failed = n, !.locked = m].failed = n
      /\ [tr EXCEPT !.failed = n, !.locked = m].locked = m
      /\ [tr EXCEPT !.failed = n, !.locked = m].established = tr.established
  OBVIOUS
<1> QED
  BY <1>1, <1>2, <1>3, <1>4

LEMMA FailureStep ==
  ASSUME AccountInv, NEW r \in Requests, RecordFailure(r)
  PROVE  AccountInv'
<1>1. TypeOK /\ LockoutsAreEarned
  BY DEF AccountInv
<1>2. at[r] = "fail" /\ now' = now
  BY FailureCases
<1>3. CASE Retry(r, "lost failure")
  BY <1>2, <1>3, RetryStep
<1>4. CASE End(r) /\ UNCHANGED account
  BY <1>2, <1>4, EmptyEnd DEF account
<1>5. CASE FailureWrites(r)
  <2>1. held[r].user = user
    BY <1>2, <1>5, SavedIsFresh DEF FailureWrites, HasRead
  <2>2. PICK t : t = held[r].started
    OBVIOUS
  <2>3. t \in Nat /\ user \in Users
    BY <1>1, <2>2, HoldingFields
  <2>4. PICK u : u = AfterFailure(user, t)
    OBVIOUS
  <2>5. ~IsLocked(user, t)
    BY <1>5, <2>1, <2>2 DEF FailureWrites
  <2>6. user.lockedUntil # 0 <=> user.failed = Threshold
    BY <1>1, EarnedFields
  <2>7. /\ u \in Users /\ u.revision = user.revision
        /\ u.lockedUntil # 0 <=> u.failed = Threshold
        /\ IsLocked(u, t) <=> u.lockedUntil # 0
        /\ u.failed = 1 + IF user.lockedUntil = 0 THEN user.failed ELSE 0
    BY <2>3, <2>4, <2>5, <2>6, FailureEffect
  <2>8. /\ user' \in Users /\ user'.revision = user.revision + 1
        /\ user'.failed = u.failed /\ user'.lockedUntil = u.lockedUntil
    <3>1. Save(u)
      BY <1>5, <2>1, <2>2, <2>4 DEF FailureWrites
    <3> QED
      BY <2>7, <3>1, SaveEffect
  <2>9. /\ trail' \in [failed : Nat, locked : Nat, established : Nat]
        /\ trail'.failed = trail.failed + 1
        /\ trail'.locked = IF IsLocked(u, t) THEN trail.locked + 1 ELSE trail.locked
    <3>1. trail' = [trail EXCEPT !.failed = @ + 1,
                                 !.locked = IF IsLocked(u, t) THEN @ + 1 ELSE @]
      BY <1>5, <2>1, <2>2, <2>4 DEF FailureWrites
    <3>2. trail \in [failed : Nat, locked : Nat, established : Nat]
      BY <1>1 DEF TypeOK
    <3> QED
      BY <3>1, <3>2, TrailAfterFailure
  <2>10. LockoutsAreEarned'
    <3>1. user'.lockedUntil # 0 <=> user'.failed = Threshold
      BY <2>7, <2>8
    <3>2. PICK counted : counted = IF user.lockedUntil = 0 THEN user.failed ELSE 0
      OBVIOUS
    <3>3. PICK product : product = Threshold * trail.locked
      OBVIOUS
    <3>4. /\ counted \in Nat /\ product \in Nat /\ trail.failed \in Nat
          /\ Threshold \in Nat /\ trail.locked \in Nat
          /\ product + counted <= trail.failed
      BY <1>1, <3>2, <3>3, EarnedFields
    <3>5. user'.failed = 1 + counted
      BY <2>7, <2>8, <3>2
    <3>6. CASE user'.lockedUntil # 0
      <4>1. trail'.locked = trail.locked + 1
        BY <2>7, <2>8, <2>9, <3>6
      <4>2. Threshold * trail'.locked = product + Threshold
        BY <3>3, <3>4, <4>1, Distribute
      <4>3. Threshold = 1 + counted
        BY <3>1, <3>5, <3>6
      <4>4. product + Threshold + 0 <= trail.failed + 1
        BY <3>4, <4>3
      <4> QED
        BY <2>9, <3>1, <3>4, <3>6, <4>2, <4>4 DEF LockoutsAreEarned
    <3>7. CASE user'.lockedUntil = 0
      <4>1. trail'.locked = trail.locked
        BY <2>7, <2>8, <2>9, <3>7
      <4>2. product + user'.failed <= trail.failed + 1
        BY <3>4, <3>5
      <4> QED
        BY <2>9, <3>1, <3>3, <3>7, <4>1, <4>2 DEF LockoutsAreEarned
    <3> QED
      BY <3>6, <3>7
  <2>11. /\ End(r) /\ credential' \in Credentials /\ sessions' \in Seq(Sessions)
         /\ DOMAIN sessions \subseteq DOMAIN sessions'
    BY <1>1, <1>5 DEF FailureWrites, TypeOK
  <2> QED
    BY <1>2, <2>8, <2>9, <2>10, <2>11, LastStep
<1> QED
  BY <1>3, <1>4, <1>5, FailureCases

\* A change of the credential leaves the account and the records of its failures.
LEMMA ReplaceStep ==
  ASSUME AccountInv, NEW r \in Requests, Replace(r)
  PROVE  AccountInv'
<1>1. TypeOK /\ LockoutsAreEarned
  BY DEF AccountInv
<1>2. End(r) /\ now' = now /\ user' = user
  BY DEF Replace
<1>3. CASE UNCHANGED <<credential, sessions, trail>>
  BY <1>2, <1>3, EmptyEnd
<1>4. CASE /\ credential' = [secret |-> held[r].secret, revision |-> held[r].seen + 1]
           /\ sessions' = RevokeAll(sessions)
           /\ trail' = [trail EXCEPT !.established = @ + 1]
  <2>1. credential' \in Credentials
    <3>1. held[r].secret \in Secrets \cup {NoSecret} /\ held[r].seen + 1 \in Nat
      BY <1>1, HoldingFields
    <3> QED
      BY <1>4, <3>1 DEF Credentials
  <2>2. sessions' \in Seq(Sessions) /\ DOMAIN sessions \subseteq DOMAIN sessions'
    BY <1>1, <1>4, RevokeAllType DEF TypeOK
  <2>3. /\ trail' \in [failed : Nat, locked : Nat, established : Nat]
        /\ trail'.failed = trail.failed /\ trail'.locked = trail.locked
    BY <1>1, <1>4 DEF TypeOK
  <2>4. LockoutsAreEarned'
    BY <1>1, <1>2, <2>3 DEF LockoutsAreEarned
  <2>5. user' \in Users
    BY <1>1, <1>2 DEF TypeOK
  <2> QED
    BY <1>2, <2>1, <2>2, <2>3, <2>4, <2>5, LastStep
<1> QED
  BY <1>3, <1>4 DEF Replace

LEMMA RevokeStep ==
  ASSUME AccountInv, NEW r \in Requests, Revoke(r)
  PROVE  AccountInv'
<1>1. TypeOK /\ LockoutsAreEarned /\ at[r] = "revoke"
  BY DEF AccountInv, Revoke
<1>2. End(r) /\ now' = now /\ user' = user /\ credential' = credential /\ trail' = trail
  BY DEF Revoke
<1>3. CASE sessions' = sessions
  BY <1>2, <1>3, EmptyEnd
<1>4. CASE sessions' = [sessions EXCEPT ![held[r].session].ends = @ + 1]
  <2>1. PICK i \in DOMAIN sessions : i = held[r].session
    BY <1>1 DEF TypeOK
  <2>2. sessions[i] \in Sessions /\ sessions \in Seq(Sessions)
    BY <1>1 DEF TypeOK
  <2>3. PICK s \in Sessions : s = [sessions[i] EXCEPT !.ends = @ + 1]
    BY <2>2, SessionExcept
  <2>4. sessions' = [sessions EXCEPT ![i] = s]
    BY <1>4, <2>1, <2>3
  <2>5. sessions' \in Seq(Sessions) /\ DOMAIN sessions \subseteq DOMAIN sessions'
    BY <2>2, <2>4
  <2>6. LockoutsAreEarned' /\ user' \in Users /\ credential' \in Credentials
        /\ trail' \in [failed : Nat, locked : Nat, established : Nat]
    BY <1>1, <1>2 DEF LockoutsAreEarned, TypeOK
  <2> QED
    BY <1>2, <2>5, <2>6, LastStep
<1> QED
  BY <1>3, <1>4 DEF Revoke

\* An administrator who was shown the revision of the account has loaded it as
\* it is, and leaves its counter and its lockout alone.
LEMMA StoreUserEffect ==
  ASSUME AccountInv, NEW r \in Requests, StoreUser(r)
  PROVE  \/ user' = user
         \/ /\ user' \in Users /\ user'.revision = user.revision + 1
            /\ user'.failed = user.failed /\ user'.lockedUntil = user.lockedUntil
<1>1. TypeOK /\ at[r] = "store"
  BY DEF AccountInv, StoreUser
<1>2. CASE user.revision = held[r].seen
  <2>1. held[r].user = user
    <3>1. /\ held[r].user.revision <= user.revision
          /\ held[r].seen <= held[r].user.revision
      BY <1>1 DEF AccountInv, Fresh, Shown, HasRead
    <3>2. held[r].user.revision \in Nat /\ user.revision \in Nat
      BY <1>1, HoldingFields
    <3>3. held[r].user.revision = user.revision
      BY <1>2, <3>1, <3>2
    <3> QED
      BY <1>1, <3>3 DEF AccountInv, Fresh, HasRead
  <2>2. PICK u : u = Moved(user, held[r].move)
    OBVIOUS
  <2>3. /\ u \in Users /\ u.revision = user.revision
        /\ u.failed = user.failed /\ u.lockedUntil = user.lockedUntil
    BY <1>1, <2>2, HoldingFields, MovedType
  <2>4. Save(u)
    BY <1>2, <2>1, <2>2 DEF StoreUser
  <2> QED
    BY <2>3, <2>4, SaveEffect
<1>3. CASE user.revision # held[r].seen
  BY <1>3 DEF StoreUser
<1> QED
  BY <1>2, <1>3

LEMMA StoreUserStep ==
  ASSUME AccountInv, NEW r \in Requests, StoreUser(r)
  PROVE  AccountInv'
<1>1. TypeOK /\ LockoutsAreEarned
  BY DEF AccountInv
<1>2. /\ End(r) /\ now' = now /\ credential' = credential
      /\ sessions' = sessions /\ trail' = trail
  BY DEF StoreUser
<1>3. \/ user' = user
      \/ /\ user' \in Users /\ user'.revision = user.revision + 1
         /\ user'.failed = user.failed /\ user'.lockedUntil = user.lockedUntil
  BY StoreUserEffect
<1>4. LockoutsAreEarned'
  BY <1>1, <1>2, <1>3 DEF LockoutsAreEarned
<1>5. /\ user' \in Users /\ credential' \in Credentials /\ sessions' \in Seq(Sessions)
      /\ trail' \in [failed : Nat, locked : Nat, established : Nat]
      /\ DOMAIN sessions \subseteq DOMAIN sessions'
  BY <1>1, <1>2, <1>3 DEF TypeOK
<1> QED
  BY <1>2, <1>3, <1>4, <1>5, LastStep

LEMMA AbortStep ==
  ASSUME AccountInv, NEW r \in Requests, Abort(r)
  PROVE  AccountInv'
BY EmptyEnd DEF Abort, account

LEMMA TickStep ==
  ASSUME AccountInv, Tick
  PROVE  AccountInv'
<1>1. TypeOK /\ LockoutsAreEarned /\ now \in Nat
  BY DEF AccountInv, TypeOK
<1>2. /\ now' = now + 1 /\ user' = user /\ credential' = credential
      /\ sessions' = sessions /\ trail' = trail /\ at' = at /\ held' = held
  BY DEF Tick, account
<1>3. TypeOK' /\ LockoutsAreEarned'
  BY <1>1, <1>2 DEF TypeOK, LockoutsAreEarned
<1>4. ASSUME NEW r \in Requests PROVE Fresh(r)' /\ Shown(r)' /\ Started(r)'
  <2>1. held[r].started \in Nat
    BY <1>1, HoldingFields
  <2> QED
    BY <1>1, <1>2, <2>1 DEF AccountInv, Fresh, Shown, Started
<1> QED
  BY <1>3, <1>4 DEF AccountInv

-----------------------------------------------------------------------------
(* The invariant.                                                          *)

LEMMA AccountInit == Init => AccountInv
<1> SUFFICES ASSUME Init PROVE AccountInv
  OBVIOUS
<1>1. NewUser \in Users /\ Nothing \in Holdings /\ Nothing.started = 0
  BY NothingType DEF Nothing
<1>2. TypeOK
  BY <1>1, AuthenticationConstants DEF Init, TypeOK, Places, Credentials
<1>3. LockoutsAreEarned
  BY AuthenticationConstants DEF Init, LockoutsAreEarned, NewUser
<1>4. \A r \in Requests : Fresh(r) /\ Shown(r) /\ Started(r)
  <2> SUFFICES ASSUME NEW r \in Requests PROVE Fresh(r) /\ Shown(r) /\ Started(r)
    OBVIOUS
  <2>1. at[r] = "idle" /\ held[r] = Nothing /\ now = 0
    BY DEF Init
  <2> QED
    BY <1>1, <2>1 DEF Fresh, Shown, Started, HasRead
<1> QED
  BY <1>2, <1>3, <1>4 DEF AccountInv

LEMMA AccountNext == AccountInv /\ [Next]_vars => AccountInv'
<1> SUFFICES ASSUME AccountInv, [Next]_vars PROVE AccountInv'
  OBVIOUS
<1>1. CASE UNCHANGED vars
  BY <1>1 DEF vars, account, AccountInv, TypeOK, LockoutsAreEarned, Fresh, Shown, Started
<1>2. CASE Tick
  BY <1>2, TickStep
<1>3. ASSUME NEW r \in Requests, Begin(r) \/ Continue(r) \/ Abort(r)
      PROVE  AccountInv'
  <2>1. CASE Begin(r)
    BY <2>1, BeginStep
  <2>2. CASE FindUser(r)
    BY <2>2, FindUserStep
  <2>3. CASE Verify(r)
    BY <2>3, VerifyStep
  <2>4. CASE Establish(r)
    BY <2>4, EstablishStep
  <2>5. CASE RecordFailure(r)
    BY <2>5, FailureStep
  <2>6. CASE ReloadToEstablish(r) \/ ReloadToFail(r)
    BY <2>6, ReloadStep
  <2>7. CASE ReadExisting(r)
    BY <2>7, ReadExistingStep
  <2>8. CASE Replace(r)
    BY <2>8, ReplaceStep
  <2>9. CASE Revoke(r)
    BY <2>9, RevokeStep
  <2>10. CASE LoadUser(r)
    BY <2>10, LoadUserStep
  <2>11. CASE StoreUser(r)
    BY <2>11, StoreUserStep
  <2>12. CASE Abort(r)
    BY <2>12, AbortStep
  <2> QED
    BY <1>3, <2>1, <2>2, <2>3, <2>4, <2>5, <2>6, <2>7, <2>8, <2>9, <2>10, <2>11, <2>12
       DEF Continue
<1> QED
  BY <1>1, <1>2, <1>3 DEF Next

LEMMA AccountAlways == Spec => []AccountInv
<1> QED
  BY AccountInit, AccountNext, PTL DEF Spec

\* Every variable keeps its type, for any lockout policy and any requests.
THEOREM TypeCorrect == Spec => []TypeOK
<1>1. AccountInv => TypeOK
  BY DEF AccountInv
<1> QED
  BY <1>1, AccountAlways, PTL

\* Every lockout has Threshold recorded failures of its own behind it, whatever
\* sign-ins, administrators and losses overlap (sign-in.use-case.ts).
THEOREM EveryLockoutIsEarned == Spec => []LockoutsAreEarned
<1>1. AccountInv => LockoutsAreEarned
  BY DEF AccountInv
<1> QED
  BY <1>1, AccountAlways, PTL

-----------------------------------------------------------------------------
(* Steps that leave the account's row alone, or its credential, or its     *)
(* sessions.                                                               *)

LEMMA BeginWritesNothing ==
  ASSUME NEW r \in Requests, Begin(r)
  PROVE  UNCHANGED <<now, account>>
BY DEF Begin, SignIn, SetCredential, SignOut, Administer

LEMMA ReadsWriteNothing ==
  ASSUME NEW r \in Requests,
         \/ FindUser(r) \/ Verify(r) \/ ReloadToEstablish(r) \/ ReloadToFail(r)
         \/ ReadExisting(r) \/ LoadUser(r) \/ Abort(r)
  PROVE  UNCHANGED <<now, account>>
BY DEF FindUser, Verify, ReloadToEstablish, ReloadToFail, Reload, ReadExisting,
       LoadUser, Abort

\* What is left of a step: nothing written, or one of the five writers.
LEMMA StepCases ==
  ASSUME [Next]_vars
  PROVE  \/ UNCHANGED account
         \/ \E r \in Requests : \/ EstablishWrites(r) /\ at[r] = "establish"
                                \/ FailureWrites(r) /\ at[r] = "fail"
                                \/ Replace(r) \/ Revoke(r) \/ StoreUser(r)
<1>1. CASE UNCHANGED vars \/ Tick
  BY <1>1 DEF vars, Tick
<1>2. ASSUME NEW r \in Requests, Begin(r) \/ Continue(r) \/ Abort(r)
      PROVE  \/ UNCHANGED account
             \/ EstablishWrites(r) /\ at[r] = "establish"
             \/ FailureWrites(r) /\ at[r] = "fail"
             \/ Replace(r) \/ Revoke(r) \/ StoreUser(r)
  <2>1. CASE Begin(r)
    BY <2>1, BeginWritesNothing
  <2>2. CASE \/ FindUser(r) \/ Verify(r) \/ ReloadToEstablish(r) \/ ReloadToFail(r)
             \/ ReadExisting(r) \/ LoadUser(r) \/ Abort(r)
    BY <2>2, ReadsWriteNothing
  <2>3. CASE Establish(r)
    <3>1. Retry(r, "lost session") => UNCHANGED account
      BY DEF Retry
    <3> QED
      BY <2>3, <3>1, EstablishCases
  <2>4. CASE RecordFailure(r)
    <3>1. Retry(r, "lost failure") => UNCHANGED account
      BY DEF Retry
    <3> QED
      BY <2>4, <3>1, FailureCases
  <2> QED
    BY <1>2, <2>1, <2>2, <2>3, <2>4 DEF Continue
<1> QED
  BY <1>1, <1>2 DEF Next

\* A lockout ends at its time or by an established sign-in, and is neither
\* extended, shortened nor overwritten by a write that raced with it (user.ts).
THEOREM LockoutsStand == Spec => LockoutStands
<1>1. ASSUME AccountInv, [Next]_vars, IsLocked(user, now)
      PROVE  \/ user'.lockedUntil = user.lockedUntil
             \/ /\ Len(sessions') > Len(sessions)
                /\ user' = [Cleared(user) EXCEPT !.revision = @ + 1]
  <2> USE AccountInv
  <2>1. CASE UNCHANGED account
    BY <2>1 DEF account
  <2>2. ASSUME NEW r \in Requests, EstablishWrites(r), at[r] = "establish"
        PROVE  \/ user' = user
               \/ /\ Len(sessions') > Len(sessions)
                  /\ user' = [Cleared(user) EXCEPT !.revision = @ + 1]
    BY <2>2, EstablishUser
  <2>3. ASSUME NEW r \in Requests, FailureWrites(r), at[r] = "fail"
        PROVE  FALSE
    <3>1. held[r].user = user /\ ~IsLocked(held[r].user, held[r].started)
      BY <2>3, SavedIsFresh DEF FailureWrites, HasRead
    <3>2. /\ held[r].started <= now /\ held[r].started \in Nat /\ now \in Nat
          /\ user.lockedUntil \in Nat
      BY HoldingFields DEF AccountInv, Started, Users
    <3>3. ~(held[r].started < user.lockedUntil) /\ now < user.lockedUntil
      BY <1>1, <3>1 DEF IsLocked
    <3> QED
      BY <3>2, <3>3
  <2>4. ASSUME NEW r \in Requests, Replace(r) \/ Revoke(r)
        PROVE  user' = user
    BY <2>4 DEF Replace, Revoke
  <2>5. ASSUME NEW r \in Requests, StoreUser(r)
        PROVE  user'.lockedUntil = user.lockedUntil
    BY <2>5, StoreUserEffect
  <2> QED
    BY <1>1, <2>1, <2>2, <2>3, <2>4, <2>5, StepCases
<1> QED
  BY <1>1, AccountAlways, PTL DEF Spec, LockoutStands

-----------------------------------------------------------------------------
(* The credential and the sessions.                                        *)

\* A change that was reported is a revision of its own: none is overwritten
\* (set-user-credential.use-case.ts).
THEOREM NoChangeIsOverwritten == Spec => []ChangesAreCounted
<1>1. Init => ChangesAreCounted
  BY DEF Init, ChangesAreCounted
<1>2. ASSUME AccountInv, ChangesAreCounted, [Next]_vars
      PROVE  ChangesAreCounted'
  <2>1. /\ trail \in [failed : Nat, locked : Nat, established : Nat]
        /\ credential.revision = trail.established
    BY <1>2 DEF AccountInv, TypeOK, ChangesAreCounted
  <2>2. CASE UNCHANGED account
    BY <2>1, <2>2 DEF account, ChangesAreCounted
  <2>3. ASSUME NEW r \in Requests, EstablishWrites(r) \/ Revoke(r) \/ StoreUser(r)
        PROVE  ChangesAreCounted'
    BY <2>1, <2>3 DEF EstablishWrites, Revoke, StoreUser, ChangesAreCounted
  <2>4. ASSUME NEW r \in Requests, FailureWrites(r)
        PROVE  ChangesAreCounted'
    <3>1. trail'.established = trail.established
      BY <2>1, <2>4, TrailAfterFailure DEF FailureWrites
    <3> QED
      BY <2>1, <2>4, <3>1 DEF FailureWrites, ChangesAreCounted
  <2>5. ASSUME NEW r \in Requests, Replace(r)
        PROVE  ChangesAreCounted'
    BY <2>1, <2>5 DEF Replace, ChangesAreCounted
  <2> QED
    BY <1>2, <2>2, <2>3, <2>4, <2>5, StepCases
<1>3. ChangesAreCounted /\ UNCHANGED vars => ChangesAreCounted'
  BY DEF vars, account, ChangesAreCounted
<1> QED
  BY <1>1, <1>2, <1>3, AccountAlways, PTL DEF Spec

\* A session is revoked at most once, by a sign-out or by a new credential
\* (auth-session.ts).
THEOREM NoSessionEndsTwice == Spec => []SessionsEndOnce
<1>1. Init => SessionsEndOnce
  BY DEF Init, SessionsEndOnce
<1>2. ASSUME AccountInv, SessionsEndOnce, [Next]_vars
      PROVE  SessionsEndOnce'
  <2>1. /\ sessions \in Seq(Sessions)
        /\ \A i \in DOMAIN sessions : sessions[i].ends \in Nat /\ sessions[i].ends <= 1
    <3>1. sessions \in Seq(Sessions)
      BY <1>2 DEF AccountInv, TypeOK
    <3>2. ASSUME NEW i \in DOMAIN sessions PROVE sessions[i].ends \in Nat
      <4>1. sessions[i] \in Sessions
        BY <3>1
      <4> QED
        BY <4>1 DEF Sessions
    <3> QED
      BY <1>2, <3>1, <3>2 DEF SessionsEndOnce
  <2>2. CASE sessions' = sessions
    BY <2>1, <2>2 DEF SessionsEndOnce
  <2>3. ASSUME NEW r \in Requests, EstablishWrites(r)
        PROVE  SessionsEndOnce'
    <3>1. held[r].seen \in Nat /\ held[r].started \in Nat
      BY <1>2, HoldingFields DEF AccountInv
    <3>2. PICK s \in Sessions : s = Established(held[r].seen, held[r].started) /\ s.ends = 0
      BY <3>1, EstablishedType
    <3>3. sessions' = Append(sessions, s)
      BY <2>3, <3>2 DEF EstablishWrites
    <3>4. \A i \in DOMAIN sessions' : sessions'[i] = s \/ (i \in DOMAIN sessions /\ sessions'[i] = sessions[i])
      BY <2>1, <3>3
    <3> QED
      BY <2>1, <3>2, <3>4 DEF SessionsEndOnce
  <2>4. ASSUME NEW r \in Requests, Replace(r), sessions' = RevokeAll(sessions)
        PROVE  SessionsEndOnce'
    <3>1. DOMAIN sessions' = DOMAIN sessions
      BY <2>1, <2>4, RevokeAllType
    <3>2. ASSUME NEW i \in DOMAIN sessions PROVE sessions'[i].ends <= 1
      <4>1. sessions'[i] = IF Revoked(sessions[i]) THEN sessions[i]
                           ELSE [sessions[i] EXCEPT !.ends = @ + 1]
        BY <2>4 DEF RevokeAll
      <4>2. CASE Revoked(sessions[i])
        BY <2>1, <4>1, <4>2
      <4>3. CASE ~Revoked(sessions[i])
        <5>1. sessions[i].ends = 0
          BY <2>1, <4>3 DEF Revoked
        <5>2. sessions[i] \in Sessions
          BY <2>1
        <5>3. sessions'[i].ends = 1
          BY <4>1, <4>3, <5>1, <5>2 DEF Sessions
        <5> QED
          BY <5>3
      <4> QED
        BY <4>2, <4>3
    <3> QED
      BY <3>1, <3>2 DEF SessionsEndOnce
  <2>5. ASSUME NEW r \in Requests, Revoke(r), sessions' # sessions
        PROVE  SessionsEndOnce'
    <3>1. PICK k \in DOMAIN sessions : k = held[r].session
      BY <1>2, <2>5 DEF AccountInv, TypeOK, Revoke
    <3>2. sessions' = [sessions EXCEPT ![k].ends = @ + 1] /\ ~Revoked(sessions[k])
      BY <2>5, <3>1 DEF Revoke
    <3>3. sessions[k].ends = 0 /\ sessions[k] \in Sessions
      BY <2>1, <3>2 DEF Revoked
    <3>4. sessions'[k].ends = 1
      BY <2>1, <3>2, <3>3 DEF Sessions
    <3>5. /\ DOMAIN sessions' = DOMAIN sessions
          /\ \A i \in DOMAIN sessions : i # k => sessions'[i] = sessions[i]
      BY <3>2
    <3> QED
      BY <2>1, <3>4, <3>5 DEF SessionsEndOnce
  <2>6. ASSUME NEW r \in Requests,
               FailureWrites(r) \/ StoreUser(r) \/ Replace(r) \/ Revoke(r)
        PROVE  \/ sessions' = sessions
               \/ Replace(r) /\ sessions' = RevokeAll(sessions)
               \/ Revoke(r) /\ sessions' # sessions
    BY <2>6 DEF FailureWrites, StoreUser, Replace
  <2>7. UNCHANGED account => sessions' = sessions
    BY DEF account
  <2> QED
    BY <1>2, <2>2, <2>3, <2>4, <2>5, <2>6, <2>7, StepCases
<1> QED
  BY <1>1, <1>2, AccountAlways, PTL DEF Spec

=============================================================================

---------------------------- MODULE RateLimiter ----------------------------
(***************************************************************************)
(* RateLimitGuard and RedisRateLimiter on the routes of authentication.  A *)
(* request consumes one unit of its address, and one of the identity its   *)
(* body names if it names one, and is handled when both allow it.  A unit  *)
(* is consumed by one script in Redis, which the guard awaits: the units   *)
(* of other requests come in between.                                      *)
(*                                                                         *)
(* Time is relative: what is kept of an instant is its age, and of a key   *)
(* the time it has left.  Counts beyond the limit are not told apart.      *)
(***************************************************************************)
EXTENDS Integers, Sequences, FiniteSets

CONSTANTS
  Attempts,
  Addresses,
  Identities,
  Limit,        \* rateLimit.maxPerIp, rateLimit.maxPerIdentity
  Window        \* rateLimit.windowMs, in ticks

\* readPositiveInteger; and a process works on so many requests at a time.
ASSUME LimiterConstants ==
  /\ Limit \in Nat \ {0} /\ Window \in Nat \ {0}
  /\ IsFiniteSet(Attempts)

VARIABLES
  phase,     \* the clock, modulo the window
  counter,   \* the value of each key, 0 where there is none
  left,      \* how long each key still lives
  guard,     \* where each request stands
  recent     \* how many requests were handled with a unit of each subject,
             \* by the age of the unit, over one window

limiterVars == <<phase, counter, left, guard, recent>>

-----------------------------------------------------------------------------

Subjects == Addresses \cup Identities
Ages == 0..Window - 1

Standing(r) == guard[r].at

LimiterInit ==
  /\ phase \in Ages
  /\ counter = [s \in Subjects |-> 0]
  /\ left = [s \in Subjects |-> 0]
  /\ guard = [r \in Attempts |-> [at |-> "idle"]]
  /\ recent = [s \in Subjects |-> [age \in Ages |-> 0]]

\* A request arrives at a guarded route.  `todo` are the subjects it still has
\* to consume a unit of, the address first.
Arrive(r, address, identities) ==
  /\ Standing(r) # "guarded"
  /\ guard' = [guard EXCEPT ![r] =
       [at |-> "guarded", todo |-> <<address>> \o identities, units |-> {},
        refusal |-> {}]]
  /\ UNCHANGED <<phase, counter, left, recent>>

\* INCR_WITH_EXPIRE_SCRIPT: INCR, and PEXPIRE for the first unit of a key.
Count(s) ==
  /\ counter' = [counter EXCEPT ![s] = IF @ > Limit THEN @ ELSE @ + 1]
  /\ left' = [left EXCEPT ![s] = IF counter[s] = 0 THEN Window ELSE @]

\* A refusal, with the time resetAtMs announces and the time its key lives.
Refusal(lives) == [reset |-> Window - phase, lives |-> lives]

\* The guard has its decision about one subject.  After the last it throws for
\* the first refusal it got, if it got one.
Decided(r, units, refusal) ==
  LET refused == IF guard[r].refusal = {} THEN refusal ELSE guard[r].refusal
      todo == Tail(guard[r].todo)
  IN  /\ guard' = [guard EXCEPT ![r] =
           IF todo # <<>>
             THEN [@ EXCEPT !.todo = todo, !.units = units, !.refusal = refused]
           ELSE IF refused = {} THEN [at |-> "handled"]
           ELSE [at |-> "refused", told |-> refused]]
      /\ recent' = [s \in Subjects |-> [age \in Ages |->
           recent[s][age] + (IF todo = <<>> /\ refused = {} /\ <<s, age>> \in units
                               THEN 1 ELSE 0)]]

\* consume: a unit of the next subject, and what the count allows.
Consume(r) ==
  /\ Standing(r) = "guarded"
  /\ LET s == Head(guard[r].todo) IN
       /\ Count(s)
       /\ Decided(r, guard[r].units \cup {<<s, 0>>},
                  IF counter'[s] <= Limit THEN {} ELSE {Refusal(left'[s])})
  /\ UNCHANGED phase

\* Mutant of Unavailable: no answer, no limit.
UnavailableOpen(r) ==
  /\ Standing(r) = "guarded"
  /\ Decided(r, guard[r].units \cup {<<Head(guard[r].todo), 0>>}, {})
  /\ UNCHANGED <<phase, counter, left>>

\* Redis is away or answers too late, which is a refusal; the unit may have
\* been counted all the same.
Unavailable(r) ==
  /\ Standing(r) = "guarded"
  /\ Count(Head(guard[r].todo)) \/ UNCHANGED <<counter, left>>
  /\ Decided(r, guard[r].units, {Refusal(0)})
  /\ UNCHANGED phase

\* Time passes, and keys expire.
TickWindow ==
  /\ phase' = (phase + 1) % Window
  /\ left' = [s \in Subjects |-> IF left[s] = 0 THEN 0 ELSE left[s] - 1]
  /\ counter' = [s \in Subjects |-> IF left[s] = 1 THEN 0 ELSE counter[s]]
  /\ recent' = [s \in Subjects |->
       [age \in Ages |-> IF age = 0 THEN 0 ELSE recent[s][age - 1]]]
  /\ guard' = [r \in Attempts |->
       IF Standing(r) = "guarded"
         THEN [guard[r] EXCEPT !.units = 
                {<<u[1], u[2] + 1>> : u \in {v \in @ : v[2] + 1 < Window}}]
         ELSE guard[r]]

LimiterNext ==
  \/ TickWindow
  \/ \E r \in Attempts :
       \/ \E a \in Addresses :
            \/ Arrive(r, a, <<>>)
            \/ \E i \in Identities : Arrive(r, a, <<i>>)
       \/ Consume(r) \/ Unavailable(r)

LimiterSpec == LimiterInit /\ [][LimiterNext]_limiterVars

-----------------------------------------------------------------------------
(* Properties.                                                             *)

\* Counters and their lives keep their types, and no key lives without an
\* expiry: a counter that is set runs out.
LimiterTypeOK ==
  /\ phase \in Ages
  /\ counter \in [Subjects -> 0..Limit + 1]
  /\ left \in [Subjects -> 0..Window]
  /\ \A s \in Subjects : counter[s] = 0 <=> left[s] = 0

\* How many there are over all ages.
Total(counts) ==
  LET upto[n \in 0..Window] == IF n = 0 THEN 0 ELSE upto[n - 1] + counts[n - 1]
  IN upto[Window]

\* backend/README.md: "no default allows unlimited attempts".  Over any span of
\* time as long as a window, aligned with it or not, no address and no identity
\* gets more than twice its limit of requests handled, however requests
\* overlap and whenever Redis is away.
BurstsAreBounded ==
  \A s \in Subjects : Total(recent[s]) <= 2 * Limit

\* backend/README.md: Retry-After is the "seconds until window reset".  Whoever
\* was refused for a count finds the window over after the time it was told.
ToldWhenTheWindowResets ==
  \A r \in Attempts :
    Standing(r) = "refused" => \A told \in guard[r].told : told.lives <= told.reset

=============================================================================

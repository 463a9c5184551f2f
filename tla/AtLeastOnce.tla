----------------------------- MODULE AtLeastOnce -----------------------------
(***************************************************************************)
(* What the queue promises whoever enqueues a job: attempts of it are owed *)
(* until it is recorded as completed or failed, an effect comes about only *)
(* on behalf of an attempt that is owed, each attempt is followed by the   *)
(* next one at most, and what a key guards comes about once.               *)
(*                                                                         *)
(* There is no stream here, no record, no Worker and no crash.  An attempt *)
(* may be executed again as long as it is owed, and a later one may take   *)
(* its place or be owed beside it: that is what "at least once" admits.    *)
(***************************************************************************)
EXTENDS Integers

CONSTANTS Jobs, Effects, EffectOf, Keyed, JobMaxAttempts

VARIABLES
  owed,      \* the attempts of each job that may still be executed
  finished,  \* the jobs recorded as completed or failed
  applied    \* how often each effect came about, counted up to 2

promises == <<owed, finished, applied>>

Attempts == 1 .. JobMaxAttempts

Init ==
  /\ owed = [j \in Jobs |-> {}]
  /\ finished = {}
  /\ applied = [f \in Effects |-> 0]

Enqueue(j) ==
  /\ owed[j] = {} /\ j \notin finished
  /\ owed' = [owed EXCEPT ![j] = {1}]
  /\ UNCHANGED <<finished, applied>>

Execute(j) ==
  /\ owed[j] # {}
  /\ EffectOf[j] \in Keyed => applied[EffectOf[j]] = 0
  /\ applied' = [applied EXCEPT ![EffectOf[j]] = IF @ < 2 THEN @ + 1 ELSE 2]
  /\ UNCHANGED <<finished, owed>>

\* Attempts are handed over to those that follow, or given up once the job is
\* finished; before that, one of them remains.
Retry(j) ==
  LET next == {n + 1 : n \in owed[j]} \cap Attempts
  IN /\ UNCHANGED <<finished, applied>>
     /\ \E left \in SUBSET (owed[j] \cup next) :
          /\ left # {} \/ j \in finished
          /\ owed' = [owed EXCEPT ![j] = left]

Finish(j) ==
  /\ owed[j] # {}
  /\ finished' = finished \cup {j}
  /\ UNCHANGED applied
  /\ \E left \in SUBSET owed[j] : owed' = [owed EXCEPT ![j] = left]

Next == \E j \in Jobs : Enqueue(j) \/ Execute(j) \/ Retry(j) \/ Finish(j)

Spec == Init /\ [][Next]_promises

=============================================================================

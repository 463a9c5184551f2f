----------------------------- MODULE MCDelivery -----------------------------
(***************************************************************************)
(* The two ways work leaves a request, explored by one run: the outbox     *)
(* under publisher runs that keep their lease, and the job queue with      *)
(* everything that may go wrong there.  A behaviour exercises one part and *)
(* the other stays as it began.                                            *)
(***************************************************************************)
EXTENDS MCOutbox, JobQueue

CONSTANTS j1, j2

VARIABLE part

\* Two jobs with the same keyed effect.
SharedEffect == [j \in {j1, j2} |-> "post"]

\* Slots and jobs are interchangeable, as runs are.
DeliverySymmetry == Permutations(Runs) \cup Permutations({j1, j2})

DeliveryInit == part \in {"outbox", "jobs"} /\ Init /\ JobsInit

DeliveryNext ==
  /\ UNCHANGED part
  /\ \/ part = "outbox" /\ Next /\ LowestClaim /\ UNCHANGED jobVars
     \/ part = "jobs" /\ JobsNext /\ UNCHANGED vars

DeliverySpec == DeliveryInit /\ [][DeliveryNext]_<<part, vars, jobVars>>

=============================================================================

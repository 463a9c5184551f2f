----------------------------- MODULE MCJobQueue -----------------------------
EXTENDS JobQueue, TLC

CONSTANTS j1, j2, send, post

\* Two jobs with the same keyed effect.
OneEffect == [j \in Jobs |-> post]

\* Each job with an effect of its own.
OwnEffects == j1 :> post @@ j2 :> send

\* Slots and promoters are interchangeable.  Used by safety runs only.
Symmetry == Permutations(Slots) \cup Permutations(Promoters)

=============================================================================

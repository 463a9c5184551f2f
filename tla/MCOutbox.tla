------------------------------ MODULE MCOutbox ------------------------------
EXTENDS Outbox, TLC

\* Runs and claim ids are interchangeable.  Used by safety runs only.
Symmetry == Permutations(Runs) \cup Permutations(Claims)

\* Where claim ids are numbers, a claim takes the lowest fresh one: which fresh id
\* it gets makes no difference.
LowestClaim ==
  \A r \in Runs :
    claim'[r] \notin {claim[r], NoClaim}
      => \A c \in Claims : Fresh(c) => claim'[r] <= c

\* The specification with its fairness, explored with the lowest claims.
LowestFairSpec == Init /\ [][Next /\ LowestClaim]_vars /\ Fairness

=============================================================================

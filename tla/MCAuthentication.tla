-------------------------- MODULE MCAuthentication --------------------------
EXTENDS Authentication, TLC

\* Requests are interchangeable, and so are secrets.
Symmetry == Permutations(Requests) \cup Permutations(Secrets)

=============================================================================

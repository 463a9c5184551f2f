--------------------------- MODULE FiscalRegister ---------------------------
(***************************************************************************)
(* What the fiscal frame promises a company, as if its requests came one   *)
(* at a time: each that succeeds acts on the register as it stands, and    *)
(* its event comes with it.  There are no transactions, locks, snapshots   *)
(* or revisions here.                                                      *)
(*                                                                         *)
(* The pointer is the weak spot.  A selection is promised a period that    *)
(* exists, not an open one; and the generation of a year, which sets the   *)
(* pointer where there is none, may also move it where there is one.       *)
(***************************************************************************)
EXTENDS Integers

CONSTANTS Years, Periods, YearOf, FirstOf, NoPeriod

VARIABLES
  state,      \* of each period; "none" until its year is generated
  active,     \* the period the company works in
  postings,   \* how many postings each period has
  events      \* how often each change has been told

register == <<state, active, postings, events>>

Init ==
  /\ state = [p \in Periods |-> "none"]
  /\ active = NoPeriod
  /\ postings = [p \in Periods |-> 0]
  /\ events = [closed |-> [p \in Periods |-> 0],
               reopened |-> [p \in Periods |-> 0],
               generated |-> [y \in Years |-> 0]]

\* All the periods of a year at once, and only once.
Generate(y) ==
  /\ \A p \in Periods : YearOf[p] = y => state[p] = "none"
  /\ state' = [p \in Periods |-> IF YearOf[p] = y THEN "open" ELSE state[p]]
  /\ active' \in {active, FirstOf[y]} \ {NoPeriod}
  /\ events' = [events EXCEPT !.generated[y] = @ + 1]
  /\ UNCHANGED postings

Close(p) ==
  /\ state[p] = "open"
  /\ state' = [state EXCEPT ![p] = "closed"]
  /\ events' = [events EXCEPT !.closed[p] = @ + 1]
  /\ UNCHANGED <<active, postings>>

Reopen(p) ==
  /\ state[p] = "closed"
  /\ state' = [state EXCEPT ![p] = "open"]
  /\ events' = [events EXCEPT !.reopened[p] = @ + 1]
  /\ UNCHANGED <<active, postings>>

Select(p) ==
  /\ state[p] # "none"
  /\ active' = p
  /\ UNCHANGED <<state, postings, events>>

Post(p) ==
  /\ state[p] = "open"
  /\ postings' = [postings EXCEPT ![p] = @ + 1]
  /\ UNCHANGED <<state, active, events>>

Next ==
  \/ \E y \in Years : Generate(y)
  \/ \E p \in Periods : Close(p) \/ Reopen(p) \/ Select(p) \/ Post(p)

Spec == Init /\ [][Next]_register

=============================================================================

-------------------------- MODULE OutboxLifecycle --------------------------
(***************************************************************************)
(* What the outbox promises of one record, whoever publishes it: the       *)
(* record comes into being with its transaction, moves only along the      *)
(* edges of the lifecycle diagram, reaches the stream only while a run     *)
(* holds it, and is called published only once it is there.                *)
(***************************************************************************)
CONSTANT Events

VARIABLES
  state,      \* of each record; "absent" until its transaction commits
  delivered   \* the records the stream holds

vars == <<state, delivered>>

States == {"absent", "pending", "publishing", "published", "retrying", "failed"}

\* The arrows of the diagram.
Edges ==
  {<<"absent", "pending">>,        \* the writer's transaction commits
   <<"pending", "publishing">>,    \* claim
   <<"retrying", "publishing">>,   \* due
   <<"publishing", "published">>,  \* ok
   <<"publishing", "retrying">>,   \* transient, or released
   <<"publishing", "failed">>,     \* permanent, or attempts exhausted
   <<"failed", "pending">>}        \* requeue (manual)

Init ==
  /\ state = [e \in Events |-> "absent"]
  /\ delivered = {}

Deliver(e) ==
  /\ state[e] = "publishing"
  /\ delivered' = delivered \cup {e}
  /\ UNCHANGED state

\* Statements move several records at once; each takes one arrow.
Move ==
  /\ state' \in [Events -> States]
  /\ \A e \in Events :
       /\ state'[e] = state[e] \/ <<state[e], state'[e]>> \in Edges
       /\ state'[e] = "published" => e \in delivered
  /\ UNCHANGED delivered

Next == Move \/ \E e \in Events : Deliver(e)

Spec == Init /\ [][Next]_vars

=============================================================================

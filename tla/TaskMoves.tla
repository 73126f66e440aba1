----------------------------- MODULE TaskMoves -----------------------------
(***************************************************************************)
(* What the task state machine still promises when transitions race: each  *)
(* task is moved along the chain, cancelled or returned to the pool out of *)
(* a status that it is in or has been in.  Tasks implements it.            *)
(***************************************************************************)
EXTENDS Naturals

CONSTANTS Tasks

VARIABLES
  now,    \* [Tasks -> status, or "none"]
  been    \* [Tasks -> the statuses the task has been in]

\* The path of a task, in order.
Chain ==
  <<"DRAFT", "ASSIGNED", "ACKNOWLEDGED", "IN_PROGRESS", "SUBMITTED_FOR_REVIEW", "COMPLETED",
    "CLOSED">>
Advances == {<<Chain[i], Chain[i + 1]>> : i \in 1 .. 6}
SendsBack == {<<"SUBMITTED_FOR_REVIEW", "IN_PROGRESS">>, <<"ASSIGNED", "ASSIGNED">>}
Open == {"DRAFT", "ASSIGNED", "ACKNOWLEDGED", "IN_PROGRESS", "SUBMITTED_FOR_REVIEW"}

Init ==
  /\ now = [t \in Tasks |-> "none"]
  /\ been = [t \in Tasks |-> {}]

Enter(t, s) ==
  /\ now' = [now EXCEPT ![t] = s]
  /\ been' = [been EXCEPT ![t] = been[t] \cup {s}]

Create(t) == now[t] = "none" /\ Enter(t, "DRAFT")

Move(t) == \E m \in Advances \cup SendsBack : m[1] \in been[t] /\ Enter(t, m[2])

Cancel(t) == been[t] \ {"CLOSED"} # {} /\ Enter(t, "CANCELLED")

\* A leaver's open task.
ReturnToPool(t) == been[t] \cap Open # {} /\ Enter(t, "ASSIGNED")

Next == \E t \in Tasks : Create(t) \/ Move(t) \/ Cancel(t) \/ ReturnToPool(t)

Spec == Init /\ [][Next]_<<now, been>>
=============================================================================

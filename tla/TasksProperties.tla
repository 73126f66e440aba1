-------------------------- MODULE TasksProperties --------------------------
(***************************************************************************)
(* What Tasks should guarantee.                                            *)
(***************************************************************************)
EXTENDS Tasks

\* Type invariant: every row and every request has the shape the schema gives it.
TypeOK ==
  /\ status \in [Tasks -> Statuses \cup {"none"}]
  /\ assignee \in [Tasks -> Users \cup {NoOne}]
  /\ history \in [Tasks -> Seq(HistoryRow)]
  /\ manager \in Users \cup {NoOne}
  /\ active \in SUBSET Users
  /\ call \in [Calls -> CallState]

Been(t) ==
  IF status[t] = "none" THEN {} ELSE {"DRAFT"} \cup {history[t][i].to : i \in DOMAIN history[t]}

\* transition, assign, deactivate: whichever requests race, the last history
\* row of a task ends in the status the task is in, and no row claims to start
\* from a status the task was never in.
HistoryExplainsStatus ==
  \A t \in Tasks :
    LET h == history[t]
    IN /\ h # <<>> => status[t] = h[Len(h)].to
       /\ (h = <<>> /\ status[t] # "none") => status[t] = "DRAFT"
       /\ \A i \in DOMAIN h :
            h[i].from = "DRAFT" \/ \E j \in DOMAIN h : j < i /\ h[j].to = h[i].from

\* The same for the requests in flight: the inductive part.
CallsComeFromHistory ==
  \A p \in Calls :
    /\ call[p].at = "move" =>
         /\ call[p].from \in Been(call[p].task)
         /\ \E move \in MovesFrom(call[p].from) : move.action = call[p].action /\ move.to = call[p].to
    /\ call[p].at = "pool" =>
         \A t \in call[p].todo : call[p].from[t] \in Been(t) \ Finished

\* Nobody's task completes or closes without having been submitted and then
\* approved, however stale the requests that moved it.
CompletedWasReviewed ==
  \A t \in Tasks : status[t] \in {"COMPLETED", "CLOSED"} =>
    \E i, j \in DOMAIN history[t] :
      i < j /\ history[t][i].action = "SUBMIT" /\ history[t][j].action = "APPROVE_REVIEW"

Moves == INSTANCE TaskMoves WITH
  now <- status,
  been <- [t \in Tasks |-> Been(t)]

\* The racing handlers implement TaskMoves.
ImplementsMoves == Moves!Spec
=============================================================================

------------------------------ MODULE MCTasks ------------------------------
(***************************************************************************)
(* A small instance of Tasks: one worker, one HR officer, and one task; or, *)
(* when it is "chased", of Reminders over fewer moves of that task.        *)
(***************************************************************************)
EXTENDS TasksProperties, RemindersProperties

CONSTANTS worker, hr, parent, m1, ParentMoves, ChasedMoves

VARIABLE chased

MCTeamLead == [u \in Users |-> NoOne]
MCParent == [t \in Tasks |-> NoTask]
MCMaxMoves == [t \in Tasks |-> ParentMoves]

\* Chased, it is for its deadline or every day, and the sweeps of the other kind are left out: no
\* sweep reads what one of the other kind, or its own updates, write.  The task is created at the start, one staff call comes
\* at a time and few moves are made, under one manager; either the sweeps fail or deadlines
\* move and clients are answered; a move and a sweep's wait in the queue end within the hour.
Ran == IF chased = "deadline" THEN {"deadline"} ELSE Jobs \ {"deadline"}
Moved == IF chased = "deadline" THEN 1 ELSE ChasedMoves
Calm ==
  /\ \A p \in MemberCalls \ {m1} : call[p] = Idle
  /\ \A t \in Tasks : Len(history[t]) <= Moved /\ (status[t] = "none" => hour = 0)
  /\ faults = 0 \/ updates = 0
  /\ sweep # Resting => sweep.job \in Ran
  /\ \A t \in Tasks : due[t] \in {NoHour} \cup IF chased = "daily" THEN {LastHour} ELSE {1, 2}
CalmStep ==
  /\ manager' = manager
  /\ chased = "deadline" => updates' = updates \/ due' # due
  /\ hour' # hour => waiting \cap Ran = {} /\ \A p \in Calls : call[p] = Idle

\* Calls are alike: one that begins takes the first place that is free.
InPlace == \A p \in MemberCalls \ {m1} : call[p] = Idle /\ call'[p] # Idle => call[m1] # Idle

MCInit == ChaseInit /\ chased \in {"no", "deadline", "daily"}
MCNext ==
  /\ UNCHANGED chased
  /\ \/ chased = "no" /\ Next /\ InPlace /\ UNCHANGED reminderVars
     \/ chased # "no" /\ ChaseNext /\ CalmStep /\ Calm'
MCSpec ==
  /\ MCInit /\ [][MCNext]_<<chaseVars, chased>>
  /\ WF_chaseVars(chased # "no" /\ Tick) /\ WF_chaseVars(chased # "no" /\ Work)
  /\ \A job \in Jobs : SF_chaseVars(chased # "no" /\ job \in Ran /\ Take(job))

\* Each kind of chase comes to an end where its sweeps run.
EveryChaseLands ==
  /\ chased = "deadline" => DeadlinesAreChased
  /\ chased = "daily" => DelaysAreChased
=============================================================================

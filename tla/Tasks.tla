------------------------------- MODULE Tasks -------------------------------
(***************************************************************************)
(* The task state machine as the API runs it                               *)
(* (apps/api/src/projects/tasks.service.ts over packages/types/src/        *)
(* task-status.ts, and the pool return of people/employees.service.ts).    *)
(*                                                                         *)
(* A transition loads the task and checks it, and later writes status and  *)
(* history in one transaction that updates by id: what it writes rests on  *)
(* the status it loaded, which may have moved on.  call[p] is the request  *)
(* that activation p is executing between those two moments.               *)
(*                                                                         *)
(* One project; the reads a handler makes before its transaction are one   *)
(* step.  A handler that dies is one that takes no further step.           *)
(* Comments, watchers and notifications are not modelled.                  *)
(***************************************************************************)
EXTENDS Integers, Sequences, FiniteSets

CONSTANTS
  Users,            \* staff
  NoOne,            \* a null user id
  Officers,         \* users whose role is HR or SUPER_ADMIN
  Admins,           \* those whose role is SUPER_ADMIN
  TeamLead,         \* [Users -> Users \cup {NoOne}]: whose scope a user is in
  TaskHolders,      \* users who hold tasks.update_own_status
  Freelancers,      \* users whose resourceType is FREELANCE
  Candidates,       \* bound: who is ever appointed to manage the project
  Tasks,            \* row ids of tasks
  NoTask,           \* a null task id
  Parent,           \* [Tasks -> Tasks \cup {NoTask}]: the parent a subtask is created under
  MemberCalls,      \* bound: concurrent create, assign and transition calls
  OfficerCalls,     \* bound: concurrent deactivate and appointment calls
  MaxMoves          \* bound, per task, on the history a call still loads

ASSUME StaffAssumption ==
  /\ NoOne \notin Users /\ NoTask \notin Tasks
  /\ Admins \subseteq Officers /\ Officers \subseteq Users /\ TaskHolders \subseteq Users
  /\ Freelancers \subseteq Users
  /\ TeamLead \in [Users -> Users \cup {NoOne}]
  /\ Candidates \subseteq Users \cup {NoOne}
  /\ Parent \in [Tasks -> Tasks \cup {NoTask}]
  /\ MaxMoves \in [Tasks -> Nat]

VARIABLES
  status,     \* [Tasks -> Statuses \cup {"none"}]
  assignee,   \* [Tasks -> Users \cup {NoOne}]
  history,    \* [Tasks -> rows of task_status_history]
  manager,    \* the project's pmId
  active,     \* users that are not DEACTIVATED
  call        \* the request each activation is executing

vars == <<status, assignee, history, manager, active, call>>
database == <<status, assignee, history, manager, active>>

-----------------------------------------------------------------------------
\* TASK_TRANSITIONS

Transition(from, action, to, actors) ==
  [from |-> from, action |-> action, to |-> to, actors |-> actors]

TaskTransitionsSkippingReview ==
  { Transition("DRAFT", "ASSIGN", "ASSIGNED", {"MANAGER", "TEAM_LEAD"}),
    Transition("ASSIGNED", "ACKNOWLEDGE", "ACKNOWLEDGED", {"ASSIGNEE"}),
    Transition("ACKNOWLEDGED", "START_WORK", "IN_PROGRESS", {"ASSIGNEE"}),
    Transition("IN_PROGRESS", "APPROVE_REVIEW", "COMPLETED", {"MANAGER", "TEAM_LEAD"}),
    Transition("COMPLETED", "CLOSE", "CLOSED", {"MANAGER"}) }
TaskTransitions ==
  { Transition("DRAFT", "ASSIGN", "ASSIGNED", {"MANAGER", "TEAM_LEAD"}),
    Transition("ASSIGNED", "ACKNOWLEDGE", "ACKNOWLEDGED", {"ASSIGNEE"}),
    Transition("ASSIGNED", "REASSIGN", "ASSIGNED", {"MANAGER", "TEAM_LEAD"}),
    Transition("ACKNOWLEDGED", "START_WORK", "IN_PROGRESS", {"ASSIGNEE"}),
    Transition("IN_PROGRESS", "SUBMIT", "SUBMITTED_FOR_REVIEW", {"ASSIGNEE"}),
    Transition("SUBMITTED_FOR_REVIEW", "APPROVE_REVIEW", "COMPLETED", {"MANAGER", "TEAM_LEAD"}),
    Transition("SUBMITTED_FOR_REVIEW", "SEND_BACK", "IN_PROGRESS", {"MANAGER", "TEAM_LEAD"}),
    Transition("COMPLETED", "CLOSE", "CLOSED", {"MANAGER"}) }

Statuses ==
  {"DRAFT", "ASSIGNED", "ACKNOWLEDGED", "IN_PROGRESS", "SUBMITTED_FOR_REVIEW",
   "COMPLETED", "CLOSED", "CANCELLED"}
Actions ==
  {"ASSIGN", "ACKNOWLEDGE", "REASSIGN", "START_WORK", "SUBMIT", "APPROVE_REVIEW", "SEND_BACK",
   "CLOSE", "CANCEL"}
Finished == {"COMPLETED", "CLOSED", "CANCELLED"}

\* nextTaskStatus: a CANCEL from anything but CLOSED, else a row of the table.
MovesFrom(from) ==
  {t \in TaskTransitions : t.from = from}
    \cup (IF from = "CLOSED" THEN {} ELSE {Transition(from, "CANCEL", "CANCELLED", {"MANAGER"})})

Reassignments == {"ASSIGN", "REASSIGN"}
Calls == MemberCalls \cup OfficerCalls

HistoryRow == [from : Statuses, action : Actions, to : Statuses]

Idle == [at |-> "idle"]
MoveCall ==
  [at : {"move"}, task : Tasks, from : Statuses, action : Actions, to : Statuses,
   assignee : Users \cup {NoOne}]
LeaverCall == [at : {"open"}, user : Users]
PoolCall == [at : {"pool"}, todo : SUBSET Tasks, from : [Tasks -> Statuses]]
CallState == {Idle} \cup MoveCall \cup LeaverCall \cup PoolCall

-----------------------------------------------------------------------------
\* Who may act

\* assertActor.
IsActor(kind, u, t) ==
  CASE kind = "ASSIGNEE" -> assignee[t] = u
    [] kind = "MANAGER" -> manager = u \/ u \in Officers
    [] kind = "TEAM_LEAD" -> u \in Admins \/ (assignee[t] # NoOne /\ TeamLead[assignee[t]] = u)

MayMove(move, u, t) == \E kind \in move.actors : IsActor(kind, u, t)

\* assertProjectAuthority.
MayCreate(u) == u \in Officers \/ manager = u

\* transition's check of the loaded subtasks.
SubtasksDone(t) ==
  \A s \in Tasks : Parent[s] = t => status[s] \in {"none", "CLOSED", "CANCELLED"}

\* assign: the chosen assignee may hold tasks; who runs the project chooses a freelancer.
Assignable(a, u) == a \in active \cap TaskHolders /\ (a \in Freelancers => MayCreate(u))

Become(p, next) == call' = [call EXCEPT ![p] = next]

-----------------------------------------------------------------------------
Init ==
  /\ status = [t \in Tasks |-> "none"]
  /\ assignee = [t \in Tasks |-> NoOne]
  /\ history = [t \in Tasks |-> <<>>]
  /\ manager \in Candidates
  /\ active = Users
  /\ call = [p \in Calls |-> Idle]

\* create: a parent must exist and be no subtask; its status is not looked at.
Create(p) ==
  /\ p \in MemberCalls /\ call[p] = Idle
  /\ \E u \in active : MayCreate(u)
  /\ \E t \in Tasks :
       /\ status[t] = "none"
       /\ Parent[t] # NoTask => status[Parent[t]] # "none" /\ Parent[Parent[t]] = NoTask
       /\ status' = [status EXCEPT ![t] = "DRAFT"]
  /\ UNCHANGED <<assignee, history, manager, active, call>>

\* assign and transition, up to the transaction.
Load(p) ==
  /\ p \in MemberCalls /\ call[p] = Idle
  /\ \E t \in Tasks, u \in active :
       /\ status[t] # "none" /\ Len(history[t]) < MaxMoves[t]
       /\ \E move \in MovesFrom(status[t]), a \in Users \cup {NoOne} :
            /\ MayMove(move, u, t)
            /\ IF move.action \in Reassignments THEN a # NoOne /\ Assignable(a, u) ELSE a = NoOne
            /\ move.to = "CLOSED" => SubtasksDone(t)
            /\ Become(p, [at |-> "move", task |-> t, from |-> move.from, action |-> move.action,
                          to |-> move.to, assignee |-> a])
  /\ UNCHANGED database

\* The transaction: status by id, and the history row that claims the loaded status.
WriteWithoutHistory(p) ==
  /\ p \in MemberCalls /\ call[p].at = "move"
  /\ status' = [status EXCEPT ![call[p].task] = call[p].to]
  /\ Become(p, Idle)
  /\ UNCHANGED <<assignee, history, manager, active>>

Write(p) ==
  /\ p \in MemberCalls /\ call[p].at = "move"
  /\ LET c == call[p]
     IN /\ status' = [status EXCEPT ![c.task] = c.to]
        /\ assignee' = IF c.action \in Reassignments
                         THEN [assignee EXCEPT ![c.task] = c.assignee] ELSE assignee
        /\ history' = [history EXCEPT ![c.task] =
                         Append(@, [from |-> c.from, action |-> c.action, to |-> c.to])]
  /\ Become(p, Idle)
  /\ UNCHANGED <<manager, active>>

-----------------------------------------------------------------------------
\* EmployeesService.deactivate; ProjectsService.update of the manager

Deactivate(p) ==
  /\ p \in OfficerCalls /\ call[p] = Idle
  /\ \E u \in active, officer \in Officers \cap active :
       /\ u # officer
       /\ u \in Admins => officer \in Admins
       /\ active' = active \ {u}
       /\ Become(p, [at |-> "open", user |-> u])
  /\ UNCHANGED <<status, assignee, history, manager>>

\* reassignOpenTasks: read the leaver's open tasks.
TasksOf(u) == {t \in Tasks : status[t] # "none" /\ assignee[t] = u}
OpenTasksOf(u) == {t \in Tasks : status[t] \notin Finished \cup {"none"} /\ assignee[t] = u}

ReadOpenTasks(p) ==
  /\ p \in OfficerCalls /\ call[p].at = "open"
  /\ LET open == OpenTasksOf(call[p].user)
     IN Become(p, IF open = {} THEN Idle
                  ELSE [at |-> "pool", todo |-> open,
                        from |-> [t \in Tasks |-> IF t \in open THEN status[t] ELSE "DRAFT"]])
  /\ UNCHANGED database

\* ... and return each to the pool, by id, whatever became of it.
ReturnToPool(p) ==
  /\ p \in OfficerCalls /\ call[p].at = "pool"
  /\ \E t \in call[p].todo :
       /\ status' = [status EXCEPT ![t] = "ASSIGNED"]
       /\ assignee' = [assignee EXCEPT ![t] = NoOne]
       /\ history' = [history EXCEPT ![t] =
            Append(@, [from |-> call[p].from[t], action |-> "REASSIGN", to |-> "ASSIGNED"])]
       /\ Become(p, IF call[p].todo = {t} THEN Idle
                    ELSE [call[p] EXCEPT !.todo = call[p].todo \ {t}])
  /\ UNCHANGED <<manager, active>>

\* The check that the new manager is active and the write are one step: a
\* deactivation between them leaves what a deactivation after them would.
Appoint(p) ==
  /\ p \in OfficerCalls /\ call[p] = Idle
  /\ Officers \cap active # {}
  /\ manager' \in Candidates \cap (active \cup {NoOne})
  /\ UNCHANGED <<status, assignee, history, active, call>>

MemberStep(p) == Create(p) \/ Load(p) \/ Write(p)
OfficerStep(p) == Deactivate(p) \/ ReadOpenTasks(p) \/ ReturnToPool(p) \/ Appoint(p)

Next == \E p \in Calls : MemberStep(p) \/ OfficerStep(p)

Spec == Init /\ [][Next]_vars
=============================================================================

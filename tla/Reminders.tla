------------------------------ MODULE Reminders ------------------------------
(***************************************************************************)
(* The three sweeps that chase Tasks: unaccepted hand-offs, clients who    *)
(* hear nothing, deadlines (runAcceptanceSweep, runClientUpdateSweep and   *)
(* runDeadlineSweep of apps/api/src/projects/tasks.service.ts), the worker *)
(* that runs them one at a time (tasks.processor.ts), and the notices they *)
(* send (apps/api/src/notifications/notifications.service.ts).             *)
(*                                                                         *)
(* A sweep reads its list, tells each task's people one by one and, for    *)
(* deadlines, stamps the task, while the handlers of Tasks go on.  A query *)
(* that fails ends the sweep until it is next due; one whose process died  *)
(* is run again.  Nobody mutes the group, a task's being for a client is   *)
(* settled when it is created, and the mail is left out.                   *)
(***************************************************************************)
EXTENDS Tasks

CONSTANTS
  ClientTasks,     \* tasks whose clientFacing is set
  DayHours,        \* hours between two daily sweeps, and of the warning
  ClientHours,     \* THREE_DAYS
  LastHour,        \* bound on the time considered
  MaxUpdates,      \* bound on the deadlines moved and the comments made
  MaxFaults        \* bound on the sweeps that fail or die

VARIABLES
  hour,
  due,        \* [Tasks -> deadline, or NoHour]
  changedAt,  \* [Tasks -> statusChangedAt]
  shownAt,    \* [Tasks -> lastClientUpdateAt, or createdAt]
  stamped,    \* [OnceOnly -> tasks whose stamp is set]
  told,       \* [notice -> how often it was sent], the daily ones at most once
  waiting,    \* sweeps in the queue
  sweep,      \* the sweep the worker is running
  updates, faults

reminderVars == <<hour, due, changedAt, shownAt, stamped, told, waiting, sweep, updates, faults>>
chaseVars == <<vars, reminderVars>>

NoHour == -1
Hours == 0 .. LastHour
OnceOnly == {"soon", "missed"}
Notices == [kind : {"accept", "stalled", "client", "soon", "missed"}, task : Tasks, user : Users]
Resting == [at |-> "rest"]
People(us) == us \ {NoOne}

ChaseInit ==
  /\ Init
  /\ hour = 0
  /\ due = [t \in Tasks |-> NoHour]
  /\ changedAt = [t \in Tasks |-> 0]
  /\ shownAt = [t \in Tasks |-> 0]
  /\ stamped = [k \in OnceOnly |-> {}]
  /\ told = [n \in Notices |-> 0]
  /\ waiting = {} /\ sweep = Resting
  /\ updates = 0 /\ faults = 0

-----------------------------------------------------------------------------
\* What each pass looks for, and whom it tells.
Open(t) == status[t] \notin Finished \cup {"none"}
Soon(t, now) ==
  /\ Open(t) /\ assignee[t] # NoOne /\ t \notin stamped["soon"]
  /\ now < due[t] /\ due[t] <= now + DayHours
Missed(t, now) == Open(t) /\ due[t] # NoHour /\ due[t] < now /\ t \notin stamped["missed"]
Unaccepted(t, now) == status[t] = "ASSIGNED" /\ assignee[t] # NoOne /\ changedAt[t] < now - DayHours
Unseen(t, now) == Open(t) /\ t \in ClientTasks /\ shownAt[t] < now - ClientHours

Found(pass, now) ==
  {t \in Tasks : CASE pass = "accept" -> Unaccepted(t, now)
                   [] pass = "client" -> Unseen(t, now)
                   [] pass = "soon" -> Soon(t, now)
                   [] pass = "missed" -> Missed(t, now)}

Notice(kind, t, u) == [kind |-> kind, task |-> t, user |-> u]
Addressed(pass, t, now) ==
  CASE pass = "accept" ->
         {Notice("accept", t, assignee[t])} \cup
           {Notice("stalled", t, u) : u \in IF changedAt[t] <= now - 2 * DayHours
                                            THEN People({manager}) \ {assignee[t]} ELSE {}}
    [] pass = "soon" -> {Notice("soon", t, assignee[t])}
    [] OTHER -> {Notice(pass, t, u) : u \in People({assignee[t], manager})}

\* notifyManyOrEscalate: when nobody is assigned or appointed, whoever can run any project.
Escalated(pass, t) ==
  {Notice(pass, t, u) : u \in IF pass \in {"client", "missed"} THEN Officers \cap active ELSE {}}

-----------------------------------------------------------------------------
\* The queue: the clock puts the sweeps in, one is run at a time.  At LastHour the hours that
\* follow are taken as one.
Passes(job) == IF job = "deadline" THEN <<"soon", "missed">> ELSE <<job>>
Daily(h) == h % DayHours = 0
Tick ==
  /\ hour' = IF hour < LastHour THEN hour + 1 ELSE hour
  /\ waiting' = waiting \cup {"deadline"} \cup IF Daily(hour') THEN {"accept", "client"} ELSE {}
  /\ <<hour, waiting>>' # <<hour, waiting>>
  /\ UNCHANGED <<vars, due, changedAt, shownAt, stamped, told, sweep, updates, faults>>

RunSweep(next) ==
  /\ sweep' = next
  /\ UNCHANGED <<vars, hour, due, changedAt, shownAt, updates>>
Take(job) ==
  /\ sweep = Resting /\ job \in waiting
  /\ waiting' = waiting \ {job}
  /\ RunSweep([at |-> "read", job |-> job, now |-> hour, passes |-> Passes(job)])
  /\ UNCHANGED <<stamped, told, faults>>

NextPass(s) ==
  IF Len(s.passes) = 1 THEN Resting
  ELSE [at |-> "read", job |-> s.job, now |-> s.now, passes |-> Tail(s.passes)]
Pass(s) == Head(s.passes)
ReadList ==
  /\ sweep.at = "read"
  /\ LET found == Found(Pass(sweep), sweep.now)
     IN RunSweep(IF found = {} THEN NextPass(sweep)
                 ELSE [at |-> "next", job |-> sweep.job, now |-> sweep.now, passes |-> sweep.passes,
                       list |-> [t \in found |-> Addressed(Pass(sweep), t, sweep.now)]])
  /\ UNCHANGED <<waiting, stamped, told, faults>>

\* One task of the list: its people, then, for a deadline, its stamp.
Telling(s, t, notices) ==
  [at |-> "tell", job |-> s.job, now |-> s.now, passes |-> s.passes,
   list |-> [r \in DOMAIN s.list \ {t} |-> s.list[r]], task |-> t, notices |-> notices]
StampFirst(pass, t) == stamped' = IF pass \in OnceOnly THEN [stamped EXCEPT ![pass] = @ \cup {t}]
                                  ELSE stamped
StampLater(pass, t) == UNCHANGED stamped
\* A task is stamped after its people were told.
BeforeTelling(pass, t) == StampLater(pass, t)
NextTask ==
  /\ sweep.at = "next"
  /\ \E t \in DOMAIN sweep.list :
       LET named == sweep.list[t]
       IN /\ RunSweep(Telling(sweep, t, IF named = {} THEN Escalated(Pass(sweep), t) ELSE named))
          /\ BeforeTelling(Pass(sweep), t)
  /\ UNCHANGED <<waiting, told, faults>>
Counted(n) == IF n.kind \in OnceOnly THEN told[n] + 1 ELSE 1
Tell ==
  /\ sweep.at = "tell"
  /\ \E n \in sweep.notices :
       /\ told' = [told EXCEPT ![n] = Counted(n)]
       /\ RunSweep([sweep EXCEPT !.notices = @ \ {n}])
  /\ UNCHANGED <<waiting, stamped, faults>>
StampNever(pass, t) == UNCHANGED stamped
Stamp(pass, t) ==
  stamped' = IF pass \in OnceOnly THEN [stamped EXCEPT ![pass] = @ \cup {t}] ELSE stamped
Told ==
  /\ sweep.at = "tell" /\ sweep.notices = {}
  /\ Stamp(Pass(sweep), sweep.task)
  /\ RunSweep(IF DOMAIN sweep.list = {} THEN NextPass(sweep)
              ELSE [at |-> "next", job |-> sweep.job, now |-> sweep.now, passes |-> sweep.passes,
                    list |-> sweep.list])
  /\ UNCHANGED <<waiting, told, faults>>

\* A query fails: the job has one attempt.  Or the process dies: the stalled job is run again.
Cut ==
  /\ sweep # Resting /\ faults < MaxFaults
  /\ faults' = faults + 1
  /\ waiting' \in {waiting, waiting \cup {sweep.job}}
  /\ RunSweep(Resting)
  /\ UNCHANGED <<stamped, told>>

-----------------------------------------------------------------------------
\* The handlers of Tasks, and what they write for the sweeps.
Created(t) == status[t] = "none" /\ status'[t] # "none"
Written(t) == \E p \in MemberCalls : call[p].at = "move" /\ call[p].task = t /\ call'[p] = Idle
Stamped(t) == Created(t) \/ Written(t)
Handle ==
  /\ Next
  /\ changedAt' = [t \in Tasks |-> IF Stamped(t) THEN hour ELSE changedAt[t]]
  /\ shownAt' = [t \in Tasks |-> IF Created(t) \/ (Written(t) /\ t \in ClientTasks) THEN hour
                                 ELSE shownAt[t]]
  /\ due' \in [Tasks -> Hours \cup {NoHour}]
  /\ \A t \in Tasks : IF Created(t) THEN t \in ClientTasks => due'[t] # NoHour
                      ELSE due'[t] = due[t]
  /\ UNCHANGED <<hour, stamped, told, waiting, sweep, updates, faults>>

\* update: a deadline is moved, never cleared.
MoveDeadline ==
  /\ updates < MaxUpdates /\ updates' = updates + 1
  /\ \E t \in Tasks, h \in Hours :
       /\ status[t] # "none" /\ h # due[t]
       /\ due' = [due EXCEPT ![t] = h]
  /\ UNCHANGED <<vars, hour, changedAt, shownAt, stamped, told, waiting, sweep, faults>>
\* addComment, when the client may read it.
Comment ==
  /\ updates < MaxUpdates /\ updates' = updates + 1
  /\ \E t \in ClientTasks : status[t] # "none" /\ shownAt' = [shownAt EXCEPT ![t] = hour]
  /\ UNCHANGED <<vars, hour, due, changedAt, stamped, told, waiting, sweep, faults>>

Jobs == {"accept", "client", "deadline"}
Work == ReadList \/ NextTask \/ Tell \/ Told
ChaseNext ==
  \/ Tick \/ Work \/ Cut \/ Handle \/ MoveDeadline \/ Comment
  \/ \E job \in Jobs : Take(job)

\* The clock goes on, a worker is up, and the queue is first in, first out.
Chasing ==
  /\ WF_chaseVars(Tick) /\ WF_chaseVars(Work)
  /\ \A job \in Jobs : SF_chaseVars(Take(job))
ChaseSpec == ChaseInit /\ [][ChaseNext]_chaseVars /\ Chasing
=============================================================================

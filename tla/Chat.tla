-------------------------------- MODULE Chat --------------------------------
(***************************************************************************)
(* One group conversation of the company chat: its members, messages, read *)
(* pointers and scheduled messages, as the handlers of ChatService change  *)
(* them.  A handler is a job: each of its queries is a step, and handlers,  *)
(* scheduler passes and restarts of the API interleave freely.  Live events *)
(* are kept for one person, the Viewer.                                     *)
(***************************************************************************)
EXTENDS Naturals, Sequences, FiniteSets

CONSTANTS
  Users, Moderators,     \* staff, and the HR and Super Admin accounts among them
  Viewer,                \* whose live events are followed
  Messages, Slots,       \* ids of messages and of scheduled messages
  Calls, Passes,         \* requests, and runs of the scheduler's timer
  NoOne, NoMessage, NoSlot, NoEvent,
  MaxEdits, MaxFaults    \* bounds: edits of a message; crashes and failed queries

ASSUME ChatAssumption ==
  /\ Viewer \in Users /\ Moderators \subseteq Users /\ NoOne \notin Users
  /\ NoMessage \notin Messages /\ NoSlot \notin Slots
  /\ Calls \cap Passes = {}
  /\ MaxEdits \in Nat /\ MaxFaults \in Nat

VARIABLES
  members, archived,     \* the room
  active,                \* accounts that are ACTIVE
  message,               \* rows; at = 0 while there is none
  readAt,                \* lastReadAt of each member
  slot,                  \* ChatScheduledMessage
  clock,                 \* the last time drawn
  job,                   \* handlers and passes in flight
  inbox,                 \* events on their way to the Viewer's sockets
  joined,                \* the Viewer's socket is in its room
  faults
vars == <<members, archived, active, message, readAt, slot, clock, job, inbox, joined, faults>>

Procs == Calls \cup Passes
NoRow == [author |-> NoOne, at |-> 0, text |-> 0, deleted |-> FALSE, slot |-> NoSlot]
NoWait == [author |-> NoOne, state |-> "none", sent |-> NoMessage, failed |-> FALSE, told |-> FALSE]
Idle == [at |-> "idle", user |-> NoOne, msg |-> NoMessage, slot |-> NoSlot, tick |-> 0,
         to |-> {}, event |-> NoEvent, todo |-> {}]

Posted(m) == message[m].at > 0
Held(m) == \E p \in Procs : job[p].msg = m
Waiting(s) == slot[s].state = "waiting"
MayEnter(u) == ~ archived /\ u \in members

Init ==
  /\ members \in {M \in SUBSET Users : Cardinality(M) >= 2} /\ archived = FALSE
  /\ active = Users
  /\ message = [m \in Messages |-> NoRow]
  /\ readAt = [u \in Users |-> 0]
  /\ slot = [s \in Slots |-> NoWait]
  /\ clock = 0
  /\ job = [p \in Procs |-> Idle]
  /\ inbox = <<>> /\ joined = FALSE
  /\ faults = 0

room == <<members, archived, active>>
live == <<inbox, joined>>

Goes(p, next) == job' = [job EXCEPT ![p] = next]
Step(p, at) == Goes(p, [job[p] EXCEPT !.at = at])

\* A handler that answers; a pass that is done with a slot goes on to the next one.
Finished(p) == IF p \in Passes THEN [Idle EXCEPT !.at = "pass", !.todo = job[p].todo] ELSE Idle
\* Mutant: the scheduler goes on to the next message without a word.
ThrownSilently(p) == Finished(p)
\* A throw: the caller's error, or the catch of the scheduler.
Thrown(p) == IF p \in Passes THEN [job[p] EXCEPT !.at = "fail"] ELSE Idle

----------------------------------------------------------------------------
(* Sending: post, and the scheduler on an author's behalf.                  *)

PostCheck(p, u) ==
  /\ job[p] = Idle /\ p \in Calls
  /\ u \in active /\ MayEnter(u)
  /\ Goes(p, [Idle EXCEPT !.at = "insert", !.user = u])
  /\ UNCHANGED <<room, message, readAt, slot, clock, live, faults>>

\* The row gets its createdAt before the transaction commits.
Insert(p, m) ==
  /\ job[p].at = "insert"
  /\ ~ Posted(m) /\ ~ Held(m)
  /\ clock' = clock + 1
  /\ Goes(p, [job[p] EXCEPT !.at = "commit", !.msg = m, !.tick = clock + 1])
  /\ UNCHANGED <<room, message, readAt, slot, live, faults>>

EventOf(kind, m, row) == [kind |-> kind, id |-> m, text |-> row.text, deleted |-> row.deleted]

Commit(p) ==
  /\ job[p].at = "commit"
  /\ LET row == [author |-> job[p].user, at |-> job[p].tick, text |-> 0, deleted |-> FALSE,
                 slot |-> job[p].slot]
     IN /\ message' = [message EXCEPT ![job[p].msg] = row]
        /\ Goes(p, [job[p] EXCEPT !.at = "audience", !.event = EventOf("message", job[p].msg, row)])
  /\ UNCHANGED <<room, readAt, slot, clock, live, faults>>

\* emitToRoom reads the members, then sends to each one's sockets.
Audience(p) ==
  /\ job[p].at = "audience"
  /\ Goes(p, [job[p] EXCEPT !.at = "emit", !.to = members])
  /\ UNCHANGED <<room, message, readAt, slot, clock, live, faults>>

AfterEmit(p) ==
  IF job[p].event.kind # "message" THEN Idle
  ELSE [job[p] EXCEPT !.at = IF p \in Passes THEN "mentions" ELSE "mark", !.to = {}]

Emit(p) ==
  /\ job[p].at = "emit"
  /\ inbox' = IF joined /\ Viewer \in job[p].to THEN Append(inbox, job[p].event) ELSE inbox
  /\ Goes(p, AfterEmit(p))
  /\ UNCHANGED <<room, message, readAt, slot, clock, joined, faults>>

\* notifyMentions, and for a scheduled message the id of what was posted.
Mentions(p) ==
  /\ job[p].at = "mentions"
  /\ IF p \in Passes THEN Step(p, "record") ELSE Goes(p, Idle)
  /\ UNCHANGED <<room, message, readAt, slot, clock, live, faults>>

----------------------------------------------------------------------------
(* markRead, on its own or after one's own message.                         *)

ReadCall(p, u) ==
  /\ job[p] = Idle /\ p \in Calls /\ u \in active
  /\ Goes(p, [Idle EXCEPT !.at = "mark", !.user = u])
  /\ UNCHANGED <<room, message, readAt, slot, clock, live, faults>>

Mark(p) ==
  /\ job[p].at = "mark"
  /\ IF MayEnter(job[p].user)
     THEN /\ clock' = clock + 1
          /\ Goes(p, [job[p] EXCEPT !.at = "marking", !.tick = clock + 1])
     ELSE clock' = clock /\ Goes(p, Thrown(p))
  /\ UNCHANGED <<room, message, readAt, slot, live, faults>>

\* The update throws when the member row has gone.
Marking(p) ==
  /\ job[p].at = "marking"
  /\ IF job[p].user \in members
     THEN /\ readAt' = [readAt EXCEPT ![job[p].user] = job[p].tick]
          /\ IF job[p].msg = NoMessage THEN Goes(p, Idle) ELSE Step(p, "mentions")
     ELSE readAt' = readAt /\ Goes(p, Thrown(p))
  /\ UNCHANGED <<room, message, slot, clock, live, faults>>

----------------------------------------------------------------------------
(* edit and remove: read, check, update by id, tell the room.               *)

ChangeCheck(p, u, m, at) ==
  /\ job[p] = Idle /\ p \in Calls
  /\ u \in active /\ Posted(m) /\ MayEnter(u) /\ ~ message[m].deleted
  /\ Goes(p, [Idle EXCEPT !.at = at, !.user = u, !.msg = m])
  /\ UNCHANGED <<room, message, readAt, slot, clock, live, faults>>

EditCheck(p, u, m) ==
  message[m].author = u /\ message[m].text < MaxEdits /\ ChangeCheck(p, u, m, "edit")
DeleteCheck(p, u, m) ==
  (message[m].author = u \/ u \in Moderators) /\ ChangeCheck(p, u, m, "delete")

Changed(p, row, kind) ==
  /\ message' = [message EXCEPT ![job[p].msg] = row]
  /\ Goes(p, [job[p] EXCEPT !.at = "audience", !.event = EventOf(kind, job[p].msg, row)])
  /\ UNCHANGED <<room, readAt, slot, clock, live, faults>>

Edit(p) ==
  job[p].at = "edit" /\ Changed(p, [message[job[p].msg] EXCEPT !.text = @ + 1], "edited")
Delete(p) ==
  job[p].at = "delete" /\ Changed(p, [message[job[p].msg] EXCEPT !.deleted = TRUE], "deleted")

----------------------------------------------------------------------------
(* Groups: HR and Super Admins add, remove, delete.                         *)

AdminCheck(p, u, v, at) ==
  /\ job[p] = Idle /\ p \in Calls
  /\ u \in Moderators \cap active /\ ~ archived
  /\ Goes(p, [Idle EXCEPT !.at = at, !.user = v])
  /\ UNCHANGED <<room, message, readAt, slot, clock, live, faults>>

AddCheck(p, u, v) == v \in active /\ AdminCheck(p, u, v, "add")
RemoveCheck(p, u, v) == AdminCheck(p, u, v, "remove")
ArchiveCheck(p, u) == AdminCheck(p, u, NoOne, "archive")

\* createMany with skipDuplicates: a new row starts with lastReadAt = now().
AddMember(p) ==
  /\ job[p].at = "add"
  /\ members' = members \cup {job[p].user}
  /\ IF job[p].user \in members THEN UNCHANGED <<readAt, clock>>
     ELSE clock' = clock + 1 /\ readAt' = [readAt EXCEPT ![job[p].user] = clock + 1]
  /\ Goes(p, Idle)
  /\ UNCHANGED <<archived, active, message, slot, live, faults>>

RemoveMember(p) ==
  /\ job[p].at = "remove"
  /\ members' = members \ {job[p].user}
  /\ Goes(p, Idle)
  /\ UNCHANGED <<archived, active, message, readAt, slot, clock, live, faults>>

Archive(p) ==
  /\ job[p].at = "archive"
  /\ archived' = TRUE
  /\ Step(p, "cancelAll")
  /\ UNCHANGED <<members, active, message, readAt, slot, clock, live, faults>>

CancelAll(p) ==
  /\ job[p].at = "cancelAll"
  /\ slot' = [s \in Slots |->
       IF Waiting(s) THEN [slot[s] EXCEPT !.state = "cancelled", !.failed = TRUE] ELSE slot[s]]
  /\ Goes(p, Idle)
  /\ UNCHANGED <<room, message, readAt, clock, live, faults>>

----------------------------------------------------------------------------
(* Scheduled messages.                                                      *)

ScheduleCheck(p, u) ==
  /\ job[p] = Idle /\ p \in Calls
  /\ u \in active /\ MayEnter(u)
  /\ Goes(p, [Idle EXCEPT !.at = "schedule", !.user = u])
  /\ UNCHANGED <<room, message, readAt, slot, clock, live, faults>>

Schedule(p, s) ==
  /\ job[p].at = "schedule" /\ slot[s] = NoWait
  /\ slot' = [slot EXCEPT ![s] = [NoWait EXCEPT !.author = job[p].user, !.state = "waiting"]]
  /\ Goes(p, Idle)
  /\ UNCHANGED <<room, message, readAt, clock, live, faults>>

\* One conditional update: what is not waiting any more answers 404.
CancelScheduled(s) ==
  /\ Waiting(s) /\ slot[s].author \in active
  /\ slot' = [slot EXCEPT ![s].state = "cancelled"]
  /\ UNCHANGED <<room, message, readAt, clock, job, live, faults>>

\* A pass reads the rows that are due, any of those waiting, with the author's status.
PassRead(p, due) ==
  /\ p \in Passes /\ job[p] = Idle
  /\ due # {} /\ \A s \in due : Waiting(s)
  /\ Goes(p, [Idle EXCEPT !.at = "pass",
                         !.todo = {[slot |-> s, ok |-> slot[s].author \in active] : s \in due}])
  /\ UNCHANGED <<room, message, readAt, slot, clock, live, faults>>

\* Mutant: claiming by id alone, without the condition on sentAt and cancelledAt.
ClaimAny(s) == TRUE
Claimable(s) == Waiting(s)

Claim(p, d) ==
  /\ job[p].at = "pass" /\ d \in job[p].todo
  /\ LET rest == [job[p] EXCEPT !.todo = @ \ {d}]
     IN IF Claimable(d.slot)
        THEN /\ slot' = [slot EXCEPT ![d.slot].state = "claimed"]
             /\ Goes(p, [rest EXCEPT !.at = IF d.ok THEN "enter" ELSE "fail", !.slot = d.slot,
                                     !.user = slot[d.slot].author])
        ELSE slot' = slot /\ Goes(p, rest)
  /\ UNCHANGED <<room, message, readAt, clock, live, faults>>

\* post as the author: the room is checked again.
Enter(p) ==
  /\ job[p].at = "enter"
  /\ IF MayEnter(job[p].user) THEN Step(p, "insert") ELSE Goes(p, Thrown(p))
  /\ UNCHANGED <<room, message, readAt, slot, clock, live, faults>>

Record(p) ==
  /\ job[p].at = "record"
  /\ slot' = [slot EXCEPT ![job[p].slot].sent = job[p].msg]
  /\ Goes(p, Finished(p))
  /\ UNCHANGED <<room, message, readAt, clock, live, faults>>

Fail(p) ==
  /\ job[p].at = "fail"
  /\ slot' = [slot EXCEPT ![job[p].slot].failed = TRUE]
  /\ Step(p, "tell")
  /\ UNCHANGED <<room, message, readAt, clock, live, faults>>

\* "Never fail silently": the author's bell.
Tell(p) ==
  /\ job[p].at = "tell"
  /\ slot' = [slot EXCEPT ![job[p].slot].told = TRUE]
  /\ Goes(p, Finished(p))
  /\ UNCHANGED <<room, message, readAt, clock, live, faults>>

PassEnds(p) ==
  /\ job[p].at = "pass" /\ job[p].todo = {}
  /\ Goes(p, Idle)
  /\ UNCHANGED <<room, message, readAt, slot, clock, live, faults>>

----------------------------------------------------------------------------
(* What goes wrong around the handlers.                                     *)

\* People deactivates an account; its rooms stay as they are.
Deactivate(u) ==
  /\ u \in active
  /\ active' = active \ {u}
  /\ UNCHANGED <<members, archived, message, readAt, slot, clock, job, live, faults>>

\* A query of a handler fails: before the commit nothing is posted, after it all stays.  The
\* failing notice is caught.
QueryFails(p) ==
  /\ faults < MaxFaults
  /\ job[p].at \notin {"idle", "pass", "emit", "fail", "record"}
  /\ faults' = faults + 1
  /\ Goes(p, IF job[p].at = "tell" THEN Finished(p) ELSE Thrown(p))
  /\ UNCHANGED <<room, message, readAt, slot, clock, live>>

\* A claim or the write in the catch fails: the pass ends, and the timer swallows the error.
PassFails(p) ==
  /\ faults < MaxFaults
  /\ job[p].at \in {"pass", "fail", "record"}
  /\ faults' = faults + 1
  /\ Goes(p, IF job[p].at = "record" THEN Thrown(p) ELSE Idle)
  /\ UNCHANGED <<room, message, readAt, slot, clock, live>>

\* The API restarts: handlers, timers and sockets are gone.
Crash ==
  /\ faults < MaxFaults
  /\ \E p \in Procs : job[p] # Idle
  /\ job' = [p \in Procs |-> Idle]
  /\ inbox' = <<>> /\ joined' = FALSE
  /\ faults' = faults + 1
  /\ UNCHANGED <<room, message, readAt, slot, clock>>

Progress(p) ==
  \/ Commit(p) \/ Audience(p) \/ Emit(p) \/ Mentions(p) \/ Mark(p) \/ Marking(p)
  \/ Edit(p) \/ Delete(p) \/ AddMember(p) \/ RemoveMember(p) \/ Archive(p) \/ CancelAll(p)
  \/ Enter(p) \/ Record(p) \/ Fail(p) \/ Tell(p) \/ PassEnds(p)
  \/ \E m \in Messages : Insert(p, m)
  \/ \E s \in Slots : Schedule(p, s)
  \/ \E d \in job[p].todo : Claim(p, d)

Begin(p, u) ==
  \/ PostCheck(p, u) \/ ReadCall(p, u) \/ ScheduleCheck(p, u) \/ ArchiveCheck(p, u)
  \/ \E v \in Users : AddCheck(p, u, v) \/ RemoveCheck(p, u, v)
  \/ \E m \in Messages : EditCheck(p, u, m) \/ DeleteCheck(p, u, m)

Next ==
  \/ \E p \in Procs : Progress(p) \/ QueryFails(p) \/ PassFails(p)
  \/ \E p \in Calls, u \in Users : Begin(p, u)
  \/ \E p \in Passes, due \in SUBSET Slots : PassRead(p, due)
  \/ \E s \in Slots : CancelScheduled(s)
  \/ \E u \in Users : Deactivate(u)
  \/ Crash

Spec == Init /\ [][Next]_vars
=============================================================================

----------------------------- MODULE ChatProofs -----------------------------
(***************************************************************************)
(* Proofs that the rows and handlers of Chat keep their shape, that a      *)
(* scheduled message is posted at most once and never after it was         *)
(* cancelled, and that none is lost in silence, for any number of passes,  *)
(* requests, messages and faults; and of the page, that it follows the     *)
(* room through lost connections and that what counts as read was seen.    *)
(***************************************************************************)
EXTENDS MCChat, FiniteSetTheorems, TLAPS

\* A job that may still post a message, with the slot it posts for.
Sending(p) == job[p].at \in {"enter", "insert", "commit"}
SendsFor(p, s) == Sending(p) /\ job[p].slot = s

\* Only one job posts for a slot, after it claimed it and before a message of it exists.
OneSender ==
  \A s \in Slots, p \in Procs : SendsFor(p, s) =>
    /\ slot[s].state = "claimed"
    /\ \A m \in Messages : Posted(m) => message[m].slot # s
    /\ \A q \in Procs : SendsFor(q, s) => q = p

\* The id a job draws for a new row is its own until the row is committed.
IdsAreOwn ==
  \A p \in Procs : job[p].at = "commit" =>
    /\ job[p].msg \in Messages /\ ~ Posted(job[p].msg)
    /\ \A q \in Procs : job[q].msg = job[p].msg => q = p

\* SentOnce is not inductive: it says nothing of the messages that are still being posted.
SendInv == SentOnce /\ OneSender /\ IdsAreOwn

-----------------------------------------------------------------------------
\* Type correctness

LEMMA IdleTyped == Idle \in JobRow
  BY DEF Idle, JobRow

LEMMA InitTyped == ASSUME Init PROVE TypeOK
  <1>1. job \in [Procs -> JobRow]
    BY IdleTyped DEF Init
  <1>2. \A p \in Procs : job[p].at = "idle"
    BY DEF Init, Idle
  <1>3. message \in [Messages -> MessageRow]
    BY DEF Init, NoRow, MessageRow
  <1>4. slot \in [Slots -> SlotRow]
    BY DEF Init, NoWait, SlotRow
  <1> QED
    BY <1>1, <1>2, <1>3, <1>4 DEF Init, TypeOK, Aimed

\* A handler's next step is a job row that has the ids it needs.
Fits(next) == next \in JobRow /\ Aimed(next)

LEMMA GoesTyped ==
  ASSUME TypeOK, NEW p \in Procs, NEW next, Fits(next), Goes(p, next)
  PROVE  /\ job' \in [Procs -> JobRow]
         /\ \A q \in Procs : Aimed(job'[q])
  BY DEF TypeOK, Goes, Fits, Aimed

\* A step of one handler keeps the types if it keeps those of what it writes.
LEMMA StepTyped ==
  ASSUME TypeOK, NEW p \in Procs, NEW next, Fits(next), Goes(p, next),
         members' \subseteq Users, archived' \in BOOLEAN, active' \subseteq Users,
         message' \in [Messages -> MessageRow], readAt' \in [Users -> Nat],
         slot' \in [Slots -> SlotRow], clock' \in Nat, faults' \in Nat
  PROVE  TypeOK'
  BY GoesTyped DEF TypeOK

LEMMA VarsTyped ==
  ASSUME TypeOK
  PROVE  /\ members \subseteq Users /\ archived \in BOOLEAN /\ active \subseteq Users
         /\ message \in [Messages -> MessageRow] /\ readAt \in [Users -> Nat]
         /\ slot \in [Slots -> SlotRow] /\ clock \in Nat /\ faults \in Nat
  BY DEF TypeOK

LEMMA IdleFits == Fits(Idle)
  BY IdleTyped DEF Fits, Aimed, Idle

LEMMA FinishedFits == ASSUME TypeOK, NEW p \in Procs PROVE Fits(Finished(p))
  <1>1. job[p] \in JobRow
    BY DEF TypeOK
  <1> QED
    BY <1>1, IdleFits DEF Finished, Fits, Aimed, JobRow, Idle

LEMMA ThrownFits == ASSUME TypeOK, NEW p \in Procs PROVE Fits(Thrown(p))
  <1>1. job[p] \in JobRow
    BY DEF TypeOK
  <1> QED
    BY <1>1, IdleFits DEF Thrown, Fits, Aimed, JobRow

LEMMA JobTyped ==
  ASSUME TypeOK, NEW p \in Procs
  PROVE  /\ job[p] \in JobRow
         /\ Aimed(job[p])
  BY DEF TypeOK

\* The actions that move one job and leave the rows alone.
LEMMA BeginTyped ==
  ASSUME TypeOK, NEW p \in Procs,
         \/ \E u \in Users : \/ PostCheck(p, u) \/ ReadCall(p, u) \/ ScheduleCheck(p, u)
                             \/ ArchiveCheck(p, u)
                             \/ \E v \in Users : AddCheck(p, u, v) \/ RemoveCheck(p, u, v)
                             \/ \E m \in Messages : EditCheck(p, u, m) \/ DeleteCheck(p, u, m)
         \/ \E due \in SUBSET Slots : PassRead(p, due)
  PROVE  TypeOK'
  <1>1. PICK next : /\ Fits(next) /\ Goes(p, next)
                    /\ UNCHANGED <<members, archived, active, message, readAt, slot, clock, faults>>
    <2> DEFINE Only(next) == /\ Goes(p, next)
                             /\ UNCHANGED <<members, archived, active, message, readAt, slot, clock, faults>>
    <2>1. ASSUME NEW at \in {"insert", "mark", "schedule"}, NEW u \in Users,
                 Only([Idle EXCEPT !.at = at, !.user = u])
          PROVE  \E next : Fits(next) /\ Only(next)
      <3>1. Fits([Idle EXCEPT !.at = at, !.user = u])
        BY IdleTyped DEF Fits, Aimed, JobRow, Idle
      <3> QED BY <2>1, <3>1
    <2>2. ASSUME NEW u \in Users, NEW v \in Users \cup {NoOne}, NEW at \in {"add", "remove", "archive"},
                 AdminCheck(p, u, v, at), at # "archive" => v \in Users
          PROVE  \E next : Fits(next) /\ Only(next)
      <3>1. Fits([Idle EXCEPT !.at = at, !.user = v])
        BY <2>2, IdleTyped DEF Fits, Aimed, JobRow, Idle
      <3> QED BY <2>2, <3>1 DEF AdminCheck, room
    <2>3. ASSUME NEW u \in Users, NEW m \in Messages, NEW at \in {"edit", "delete"}, ChangeCheck(p, u, m, at)
          PROVE  \E next : Fits(next) /\ Only(next)
      <3>1. Fits([Idle EXCEPT !.at = at, !.user = u, !.msg = m])
        BY IdleTyped DEF Fits, Aimed, JobRow, Idle
      <3> QED BY <2>3, <3>1 DEF ChangeCheck, room
    <2>4. ASSUME NEW due \in SUBSET Slots, PassRead(p, due) PROVE \E next : Fits(next) /\ Only(next)
      <3> DEFINE todo == {[slot |-> s, ok |-> slot[s].author \in active] : s \in due}
      <3>1. todo \subseteq [slot : Slots, ok : BOOLEAN]
        <4>1. \A s \in due : (slot[s].author \in active) \in BOOLEAN
          BY SMT
        <4>2. \A s \in due, b \in BOOLEAN : [slot |-> s, ok |-> b] \in [slot : Slots, ok : BOOLEAN]
          BY Zenon
        <4>3. \A s \in due : [slot |-> s, ok |-> slot[s].author \in active] \in [slot : Slots, ok : BOOLEAN]
          BY <4>1, <4>2, Zenon
        <4> QED BY <4>3, Zenon
      <3>2. Fits([Idle EXCEPT !.at = "pass", !.todo = todo])
        BY <3>1, IdleTyped DEF Fits, Aimed, JobRow, Idle
      <3> QED BY <2>4, <3>2 DEF PassRead, room
    <2>5. ASSUME NEW u \in Users, PostCheck(p, u) \/ ReadCall(p, u) \/ ScheduleCheck(p, u)
          PROVE  \E next : Fits(next) /\ Only(next)
      BY <2>1, <2>5 DEF PostCheck, ReadCall, ScheduleCheck, room
    <2>6. ASSUME NEW u \in Users, NEW v \in Users, AddCheck(p, u, v) \/ RemoveCheck(p, u, v)
          PROVE  \E next : Fits(next) /\ Only(next)
      BY <2>2, <2>6 DEF AddCheck, RemoveCheck
    <2>7. ASSUME NEW u \in Users, ArchiveCheck(p, u) PROVE \E next : Fits(next) /\ Only(next)
      BY <2>2, <2>7 DEF ArchiveCheck
    <2>8. ASSUME NEW u \in Users, NEW m \in Messages, EditCheck(p, u, m) \/ DeleteCheck(p, u, m)
          PROVE  \E next : Fits(next) /\ Only(next)
      BY <2>3, <2>8 DEF EditCheck, DeleteCheck
    <2> HIDE DEF Only
    <2>9. \E next : Fits(next) /\ Only(next)
      BY <2>4, <2>5, <2>6, <2>7, <2>8
    <2> QED BY <2>9 DEF Only
  <1> QED BY <1>1, GoesTyped DEF TypeOK

LEMMA SendingTyped ==
  ASSUME TypeOK, NEW p \in Procs,
         \/ Commit(p) \/ Audience(p) \/ Emit(p) \/ Mentions(p) \/ Enter(p)
         \/ \E m \in Messages : Insert(p, m)
  PROVE  TypeOK'
  <1>0. job[p] \in JobRow /\ Aimed(job[p])
    BY JobTyped
  <1> USE VarsTyped
  <1>c. clock \in Nat /\ clock + 1 \in Nat
    BY VarsTyped
  <1>1. CASE Commit(p)
    <2> DEFINE row == [author |-> job[p].user, at |-> job[p].tick, text |-> 0, deleted |-> FALSE,
                       slot |-> job[p].slot]
               next == [job[p] EXCEPT !.at = "audience", !.event = EventOf("message", job[p].msg, row)]
    <2>1. row \in MessageRow /\ row.text = 0 /\ row.deleted = FALSE
      BY <1>0 DEF JobRow, MessageRow
    <2>2. EventOf("message", job[p].msg, row) \in EventRow
      BY <1>0, <2>1 DEF EventOf, EventRow, JobRow
    <2>3. Fits(next)
      BY <1>0, <2>2 DEF Fits, Aimed, JobRow
    <2>4. Goes(p, next) /\ message' = [message EXCEPT ![job[p].msg] = row]
      BY <1>1 DEF Commit
    <2>5. UNCHANGED <<members, archived, active, readAt, slot, clock, faults>>
      BY <1>1 DEF Commit, room
    <2> HIDE DEF row, next
    <2>6. message' \in [Messages -> MessageRow]
      BY <2>1, <2>4
    <2> QED BY <2>3, <2>4, <2>5, <2>6, StepTyped
  <1>2. CASE Audience(p)
    <2>1. Fits([job[p] EXCEPT !.at = "emit", !.to = members])
      BY <1>0 DEF Fits, Aimed, JobRow
    <2> QED BY <1>2, <2>1, StepTyped DEF Audience, room
  <1>3. CASE Emit(p)
    <2>1. \A at \in {"mentions", "mark"} : Fits([job[p] EXCEPT !.at = at, !.to = {}])
      BY <1>0 DEF Fits, Aimed, JobRow
    <2>2. Fits(AfterEmit(p))
      BY <2>1, IdleFits DEF AfterEmit
    <2> QED BY <1>3, <2>2, StepTyped DEF Emit, room
  <1>4. \A at \in {"record", "insert"} : Fits([job[p] EXCEPT !.at = at])
    BY <1>0 DEF Fits, Aimed, JobRow
  <1>5. CASE Mentions(p)
    BY <1>4, <1>5, IdleFits, StepTyped DEF Mentions, Step, room
  <1>6. CASE Enter(p)
    BY <1>4, <1>6, ThrownFits, StepTyped DEF Enter, Step, room
  <1>7. ASSUME NEW m \in Messages, Insert(p, m) PROVE TypeOK'
    <2>1. Fits([job[p] EXCEPT !.at = "commit", !.msg = m, !.tick = clock + 1])
      BY <1>0, <1>c DEF Fits, Aimed, JobRow
    <2>2. clock' \in Nat /\ Goes(p, [job[p] EXCEPT !.at = "commit", !.msg = m, !.tick = clock + 1])
      BY <1>7, <1>c DEF Insert
    <2>3. UNCHANGED <<members, archived, active, message, readAt, slot, faults>>
      BY <1>7 DEF Insert, room
    <2> QED BY <2>1, <2>2, <2>3, StepTyped
  <1> QED BY <1>1, <1>2, <1>3, <1>5, <1>6, <1>7

LEMMA ChangingTyped ==
  ASSUME TypeOK, NEW p \in Procs,
         \/ Mark(p) \/ Marking(p) \/ Edit(p) \/ Delete(p) \/ AddMember(p) \/ RemoveMember(p)
         \/ Archive(p) \/ CancelAll(p)
  PROVE  TypeOK'
  <1>0. job[p] \in JobRow /\ Aimed(job[p])
    BY JobTyped
  <1> USE VarsTyped
  <1>c. clock \in Nat /\ clock + 1 \in Nat
    BY VarsTyped
  <1>1. CASE Mark(p)
    <2>1. Fits([job[p] EXCEPT !.at = "marking", !.tick = clock + 1])
      BY <1>0, <1>c DEF Fits, Aimed, JobRow
    <2>2. clock' \in Nat /\ UNCHANGED <<members, archived, active, message, readAt, slot, faults>>
      BY <1>1, <1>c DEF Mark, room
    <2>3. \E next : Fits(next) /\ Goes(p, next)
      BY <1>1, <2>1, ThrownFits DEF Mark
    <2> QED BY <2>2, <2>3, StepTyped
  <1>2. CASE Marking(p)
    <2>1. Fits([job[p] EXCEPT !.at = "mentions"]) /\ job[p].tick \in Nat
      BY <1>0 DEF Fits, Aimed, JobRow
    <2>2. \E next : Fits(next) /\ Goes(p, next)
      BY <1>2, <2>1, IdleFits, ThrownFits DEF Marking, Step
    <2>3. readAt' \in [Users -> Nat] /\ UNCHANGED <<members, archived, active, message, slot, clock, faults>>
      BY <1>2, <2>1 DEF Marking, room
    <2> QED BY <2>2, <2>3, StepTyped
  <1>3. ASSUME NEW row \in MessageRow, NEW kind \in {"edited", "deleted"}, Changed(p, row, kind)
        PROVE  TypeOK'
    <2>1. EventOf(kind, job[p].msg, row) \in EventRow
      BY <1>0 DEF EventOf, EventRow, JobRow, MessageRow
    <2>2. Fits([job[p] EXCEPT !.at = "audience", !.event = EventOf(kind, job[p].msg, row)])
      BY <1>0, <2>1 DEF Fits, Aimed, JobRow
    <2>3. /\ message' = [message EXCEPT ![job[p].msg] = row]
          /\ UNCHANGED <<members, archived, active, readAt, slot, clock, faults>>
      BY <1>3 DEF Changed, room
    <2>4. message' \in [Messages -> MessageRow]
      BY <2>3
    <2> QED BY <1>3, <2>2, <2>3, <2>4, StepTyped DEF Changed
  <1>4. CASE Edit(p)
    <2>1. message[job[p].msg] \in MessageRow
      BY <1>0, <1>4 DEF Edit, Aimed
    <2>2. [message[job[p].msg] EXCEPT !.text = @ + 1] \in MessageRow
      BY <2>1 DEF MessageRow
    <2> QED BY <1>3, <1>4, <2>2 DEF Edit
  <1>5. CASE Delete(p)
    <2>1. message[job[p].msg] \in MessageRow
      BY <1>0, <1>5 DEF Delete, Aimed
    <2>2. [message[job[p].msg] EXCEPT !.deleted = TRUE] \in MessageRow
      BY <2>1 DEF MessageRow
    <2> QED BY <1>3, <1>5, <2>2 DEF Delete
  <1>6. CASE AddMember(p)
    <2>1. job[p].user \in Users
      BY <1>0, <1>6 DEF AddMember, Aimed
    <2>2. members' \subseteq Users /\ readAt' \in [Users -> Nat] /\ clock' \in Nat
      BY <1>6, <2>1 DEF AddMember
    <2> QED BY <1>6, <2>2, IdleFits, StepTyped DEF AddMember
  <1>7. CASE RemoveMember(p)
    <2>1. members' \subseteq Users
      BY <1>7 DEF RemoveMember
    <2> QED BY <1>7, <2>1, IdleFits, StepTyped DEF RemoveMember
  <1>8. CASE Archive(p)
    <2>1. Fits([job[p] EXCEPT !.at = "cancelAll"])
      BY <1>0 DEF Fits, Aimed, JobRow
    <2> QED BY <1>8, <2>1, StepTyped DEF Archive, Step
  <1>9. CASE CancelAll(p)
    <2>1. slot' \in [Slots -> SlotRow]
      <3>1. \A s \in Slots : [slot[s] EXCEPT !.state = "cancelled", !.failed = TRUE] \in SlotRow
        BY DEF SlotRow
      <3> QED BY <1>9, <3>1 DEF CancelAll
    <2> QED BY <1>9, <2>1, IdleFits, StepTyped DEF CancelAll, room
  <1> QED BY <1>1, <1>2, <1>4, <1>5, <1>6, <1>7, <1>8, <1>9

LEMMA SlotChangeTyped ==
  ASSUME TypeOK, NEW s, NEW row, s \in Slots => row \in SlotRow, slot' = [slot EXCEPT ![s] = row]
  PROVE  slot' \in [Slots -> SlotRow]
  BY VarsTyped

LEMMA SchedulingTyped ==
  ASSUME TypeOK, NEW p \in Procs,
         \/ Record(p) \/ Fail(p) \/ Tell(p) \/ PassEnds(p) \/ QueryFails(p) \/ PassFails(p)
         \/ \E s \in Slots : Schedule(p, s)
         \/ \E d \in job[p].todo : Claim(p, d)
  PROVE  TypeOK'
  <1>0. job[p] \in JobRow /\ Aimed(job[p])
    BY JobTyped
  <1> USE VarsTyped
  <1>c. faults \in Nat /\ faults + 1 \in Nat
    BY VarsTyped
  <1>s. ASSUME NEW s \in Slots
        PROVE  /\ slot[s] \in SlotRow
               /\ \A m \in Messages \cup {NoMessage} : [slot[s] EXCEPT !.sent = m] \in SlotRow
               /\ [slot[s] EXCEPT !.failed = TRUE] \in SlotRow
               /\ [slot[s] EXCEPT !.told = TRUE] \in SlotRow
               /\ [slot[s] EXCEPT !.state = "claimed"] \in SlotRow
    <2>1. slot[s] \in SlotRow
      BY VarsTyped
    <2> QED BY <2>1 DEF SlotRow
  <1>1. CASE Record(p)
    <2>1. job[p].msg \in Messages \cup {NoMessage}
      BY <1>0 DEF JobRow
    <2>2. slot' = [slot EXCEPT ![job[p].slot] = [slot[job[p].slot] EXCEPT !.sent = job[p].msg]]
      BY <1>1 DEF Record
    <2>3. slot' \in [Slots -> SlotRow]
      BY <1>s, <2>1, <2>2, SlotChangeTyped
    <2>4. Goes(p, Finished(p)) /\ UNCHANGED <<members, archived, active, message, readAt, clock, faults>>
      BY <1>1 DEF Record, room
    <2> QED BY <2>3, <2>4, FinishedFits, StepTyped
  <1>2. CASE Fail(p)
    <2>1. slot' = [slot EXCEPT ![job[p].slot] = [slot[job[p].slot] EXCEPT !.failed = TRUE]]
      BY <1>2 DEF Fail
    <2>2. slot' \in [Slots -> SlotRow]
      BY <1>s, <2>1, SlotChangeTyped
    <2>3. Fits([job[p] EXCEPT !.at = "tell"])
      BY <1>0 DEF Fits, Aimed, JobRow
    <2> QED BY <1>2, <2>2, <2>3, StepTyped DEF Fail, Step, room
  <1>3. CASE Tell(p)
    <2>1. slot' = [slot EXCEPT ![job[p].slot] = [slot[job[p].slot] EXCEPT !.told = TRUE]]
      BY <1>3 DEF Tell
    <2>2. slot' \in [Slots -> SlotRow]
      BY <1>s, <2>1, SlotChangeTyped
    <2> QED BY <1>3, <2>2, FinishedFits, StepTyped DEF Tell, room
  <1>4. CASE PassEnds(p)
    BY <1>4, IdleFits, StepTyped DEF PassEnds, room
  <1>5. CASE QueryFails(p)
    <2>1. faults' \in Nat
      BY <1>5, <1>c DEF QueryFails
    <2> QED BY <1>5, <2>1, FinishedFits, ThrownFits, StepTyped DEF QueryFails, room
  <1>6. CASE PassFails(p)
    <2>1. faults' \in Nat
      BY <1>6, <1>c DEF PassFails
    <2> QED BY <1>6, <2>1, IdleFits, ThrownFits, StepTyped DEF PassFails, room
  <1>7. ASSUME NEW s \in Slots, Schedule(p, s) PROVE TypeOK'
    <2>1. [NoWait EXCEPT !.author = job[p].user, !.state = "waiting"] \in SlotRow
      BY <1>0 DEF NoWait, SlotRow, JobRow
    <2>2. slot' \in [Slots -> SlotRow]
      BY <1>7, <2>1, SlotChangeTyped DEF Schedule
    <2> QED BY <1>7, <2>2, IdleFits, StepTyped DEF Schedule, room
  <1>8. ASSUME NEW d \in job[p].todo, Claim(p, d) PROVE TypeOK'
    <2>1. d.slot \in Slots /\ d.ok \in BOOLEAN /\ slot[d.slot].author \in Users \cup {NoOne}
      <3>1. d \in [slot : Slots, ok : BOOLEAN]
        BY <1>0 DEF JobRow
      <3> QED BY <3>1, <1>s DEF SlotRow
    <2> DEFINE rest == [job[p] EXCEPT !.todo = @ \ {d}]
    <2>2. Fits(rest)
      BY <1>0 DEF Fits, Aimed, JobRow
    <2>3. \A at \in {"enter", "fail"} :
            Fits([rest EXCEPT !.at = at, !.slot = d.slot, !.user = slot[d.slot].author])
      BY <1>0, <2>1, <2>2 DEF Fits, Aimed, JobRow
    <2>4. CASE Claimable(d.slot)
      <3>1. slot' = [slot EXCEPT ![d.slot] = [slot[d.slot] EXCEPT !.state = "claimed"]]
        BY <1>8, <2>4 DEF Claim
      <3>2. slot' \in [Slots -> SlotRow]
        BY <1>s, <3>1, SlotChangeTyped
      <3>3. \E at \in {"enter", "fail"} :
              Goes(p, [rest EXCEPT !.at = at, !.slot = d.slot, !.user = slot[d.slot].author])
        BY <1>8, <2>4 DEF Claim
      <3>4. UNCHANGED <<members, archived, active, message, readAt, clock, faults>>
        BY <1>8 DEF Claim, room
      <3> HIDE DEF rest
      <3> QED BY <2>3, <3>2, <3>3, <3>4, StepTyped
    <2>5. CASE ~ Claimable(d.slot)
      BY <1>8, <2>2, <2>5, StepTyped DEF Claim, room
    <2> QED BY <2>4, <2>5
  <1> QED BY <1>1, <1>2, <1>3, <1>4, <1>5, <1>6, <1>7, <1>8

LEMMA AloneTyped ==
  ASSUME TypeOK, \/ \E s \in Slots : CancelScheduled(s)
                 \/ \E u \in Users : Deactivate(u)
                 \/ Crash
  PROVE  TypeOK'
  <1>1. ASSUME NEW s \in Slots, CancelScheduled(s) PROVE TypeOK'
    <2>1. slot[s] \in SlotRow
      BY VarsTyped
    <2>2. [slot[s] EXCEPT !.state = "cancelled"] \in SlotRow
      BY <2>1 DEF SlotRow
    <2>3. slot' = [slot EXCEPT ![s] = [slot[s] EXCEPT !.state = "cancelled"]]
      BY <1>1 DEF CancelScheduled
    <2>4. slot' \in [Slots -> SlotRow]
      BY <2>2, <2>3, SlotChangeTyped
    <2> QED BY <1>1, <2>4 DEF CancelScheduled, TypeOK, room
  <1>2. ASSUME NEW u \in Users, Deactivate(u) PROVE TypeOK'
    BY <1>2 DEF Deactivate, TypeOK
  <1>3. CASE Crash
    <2>1. job' \in [Procs -> JobRow] /\ \A p \in Procs : Aimed(job'[p])
      BY <1>3, IdleFits DEF Crash, Fits
    <2>2. faults' \in Nat
      BY <1>3, VarsTyped DEF Crash
    <2> QED BY <1>3, <2>1, <2>2 DEF Crash, TypeOK, room
  <1> QED BY <1>1, <1>2, <1>3

LEMMA NextTyped == ASSUME TypeOK, [Next]_vars PROVE TypeOK'
  <1>1. ASSUME NEW p \in Procs, Progress(p) \/ QueryFails(p) \/ PassFails(p) PROVE TypeOK'
    BY <1>1, SendingTyped, ChangingTyped, SchedulingTyped DEF Progress
  <1>2. ASSUME NEW p \in Calls, NEW u \in Users, Begin(p, u) PROVE TypeOK'
    BY <1>2, BeginTyped DEF Begin, Procs
  <1>3. ASSUME NEW p \in Passes, NEW due \in SUBSET Slots, PassRead(p, due) PROVE TypeOK'
    BY <1>3, BeginTyped DEF Procs
  <1>4. CASE UNCHANGED vars
    BY <1>4 DEF vars, TypeOK
  <1> QED BY <1>1, <1>2, <1>3, <1>4, AloneTyped DEF Next

\* Rows and handlers keep their shape under every interleaving.
THEOREM TypeCorrect == Spec => []TypeOK
  BY InitTyped, NextTyped, PTL DEF Spec

-----------------------------------------------------------------------------
\* Sent once

SendsStep(row) == row.at \in {"enter", "insert", "commit"}
KeepsMessages == \A m \in Messages : message'[m].at = message[m].at /\ message'[m].slot = message[m].slot
KeepsClaims == \A s \in Slots : slot[s].state = "claimed" => slot'[s].state = "claimed"

\* A step of one job that claims nothing and draws no id.
QuietMove(p, next) ==
  /\ Goes(p, next) /\ KeepsMessages /\ KeepsClaims
  /\ SendsStep(next) /\ next.slot \in Slots => Sending(p) /\ next.slot = job[p].slot
  /\ next.at # "commit"
  /\ next.msg \in {job[p].msg, NoMessage} \/ (next.msg \in Messages /\ Posted(next.msg))

LEMMA QuietStep ==
  ASSUME TypeOK, SendInv, NEW p \in Procs, NEW next, QuietMove(p, next)
  PROVE  SendInv'
  <1> USE DEF QuietMove
  <1> DEFINE J == job'
  <1>1. J[p] = next /\ \A q \in Procs : q # p => J[q] = job[q]
    BY DEF Goes, TypeOK
  <1>2. \A m \in Messages : Posted(m)' <=> Posted(m)
    BY DEF Posted, KeepsMessages
  <1> HIDE DEF J
  <1>3. SentOnce'
    <2>1. \A m \in Messages : message[m].slot \in Slots \cup {NoSlot}
      <3>1. \A m \in Messages : message[m] \in MessageRow
        BY VarsTyped
      <3> QED BY <3>1 DEF MessageRow
    <2>2. \A m \in Messages : (message'[m].slot = message[m].slot) /\ (Posted(m)' <=> Posted(m))
      BY <1>2 DEF KeepsMessages
    <2>3. SentOnce
      BY DEF SendInv
    <2> QED BY <2>1, <2>2, <2>3 DEF SentOnce, KeepsClaims
  <1>4. \A q \in Procs, s \in Slots : SendsFor(q, s)' => SendsFor(q, s)
    BY <1>1 DEF SendsFor, Sending, SendsStep, J
  <1>5. OneSender'
    BY <1>2, <1>4 DEF SendInv, OneSender, KeepsMessages, KeepsClaims
  <1>6. ASSUME NEW q \in Procs, job'[q].at = "commit"
        PROVE  /\ job'[q].msg \in Messages /\ ~ (message'[job'[q].msg].at > 0)
               /\ \A r \in Procs : job'[r].msg = job'[q].msg => r = q
    <2>1. q # p /\ job'[q] = job[q]
      BY <1>1, <1>6 DEF J
    <2>2. /\ job[q].msg \in Messages /\ ~ Posted(job[q].msg)
          /\ \A r \in Procs : job[r].msg = job[q].msg => r = q
      BY <1>6, <2>1 DEF SendInv, IdsAreOwn
    <2>3. job[q].msg # NoMessage
      BY <2>2, ChatAssumption
    <2>4. next.msg # job[q].msg
      BY <2>1, <2>2, <2>3
    <2>5. ~ (message'[job[q].msg].at > 0)
      BY <2>2 DEF Posted, KeepsMessages
    <2> QED BY <1>1, <2>1, <2>2, <2>4, <2>5 DEF J
  <1>7. IdsAreOwn'
    BY <1>6 DEF IdsAreOwn, Posted
  <1> QED BY <1>3, <1>5, <1>7 DEF SendInv

LEMMA InitSends == ASSUME Init PROVE SendInv
  <1>1. /\ \A p \in Procs : job[p].at = "idle"
        /\ \A m \in Messages : message[m].at = 0
    BY DEF Init, Idle, NoRow
  <1> QED BY <1>1 DEF SendInv, SentOnce, OneSender, IdsAreOwn, SendsFor, Sending, Posted

LEMMA FinishedIsQuiet ==
  ASSUME NEW p \in Procs
  PROVE  Finished(p).at \in {"pass", "idle"} /\ Finished(p).msg = NoMessage
  BY DEF Finished, Idle

LEMMA ThrownIsQuiet ==
  ASSUME TypeOK, NEW p \in Procs
  PROVE  Thrown(p).at \in {"fail", "idle"} /\ Thrown(p).msg \in {job[p].msg, NoMessage}
  <1>1. job[p] \in JobRow
    BY JobTyped
  <1> QED BY <1>1 DEF Thrown, Idle, JobRow

LEMMA IdleIsQuiet == Idle.at = "idle" /\ Idle.msg = NoMessage /\ Idle.slot = NoSlot
  BY DEF Idle

LEMMA NothingMoves == ASSUME UNCHANGED <<message, slot>> PROVE KeepsMessages /\ KeepsClaims
  BY DEF KeepsMessages, KeepsClaims

LEMMA BeginSends ==
  ASSUME TypeOK, SendInv, NEW p \in Procs,
         \/ \E u \in Users : \/ PostCheck(p, u) \/ ReadCall(p, u) \/ ScheduleCheck(p, u)
                             \/ ArchiveCheck(p, u)
                             \/ \E v \in Users : AddCheck(p, u, v) \/ RemoveCheck(p, u, v)
                             \/ \E m \in Messages : EditCheck(p, u, m) \/ DeleteCheck(p, u, m)
         \/ \E due \in SUBSET Slots : PassRead(p, due)
  PROVE  SendInv'
  <1>1. UNCHANGED <<message, slot>>
    BY DEF PostCheck, ReadCall, ScheduleCheck, ArchiveCheck, AddCheck, RemoveCheck, AdminCheck,
           EditCheck, DeleteCheck, ChangeCheck, PassRead
  <1>2. KeepsMessages /\ KeepsClaims
    BY <1>1, NothingMoves
  <1>3. ASSUME NEW at, NEW u, at # "commit", Goes(p, [Idle EXCEPT !.at = at, !.user = u])
        PROVE  SendInv'
    <2> DEFINE next == [Idle EXCEPT !.at = at, !.user = u]
    <2>1. next.at = at /\ next.msg = NoMessage /\ next.slot \notin Slots
      BY ChatAssumption DEF Idle
    <2>2. Goes(p, next)
      BY <1>3
    <2> HIDE DEF next
    <2>3. QuietMove(p, next)
      BY <1>2, <1>3, <2>1, <2>2 DEF QuietMove
    <2> QED BY <2>3, QuietStep
  <1>4. ASSUME NEW u \in Users, PostCheck(p, u) \/ ReadCall(p, u) \/ ScheduleCheck(p, u) PROVE SendInv'
    BY <1>3, <1>4 DEF PostCheck, ReadCall, ScheduleCheck
  <1>5. ASSUME NEW u \in Users, NEW v \in Users,
               ArchiveCheck(p, u) \/ AddCheck(p, u, v) \/ RemoveCheck(p, u, v)
        PROVE  SendInv'
    BY <1>3, <1>5 DEF ArchiveCheck, AddCheck, RemoveCheck, AdminCheck
  <1>6. ASSUME NEW u \in Users, NEW m \in Messages, NEW at \in {"edit", "delete"},
               ChangeCheck(p, u, m, at)
        PROVE  SendInv'
    <2> DEFINE next == [Idle EXCEPT !.at = at, !.user = u, !.msg = m]
    <2>1. next.at = at /\ next.msg = m
      BY DEF Idle
    <2>2. Goes(p, next) /\ Posted(m)
      BY <1>6 DEF ChangeCheck
    <2> HIDE DEF next
    <2>3. QuietMove(p, next)
      BY <1>2, <2>1, <2>2 DEF QuietMove, SendsStep
    <2> QED BY <2>3, QuietStep
  <1>7. ASSUME NEW due \in SUBSET Slots, PassRead(p, due) PROVE SendInv'
    <2> DEFINE todo == {[slot |-> s, ok |-> slot[s].author \in active] : s \in due}
               next == [Idle EXCEPT !.at = "pass", !.todo = todo]
    <2>1. next.at = "pass" /\ next.msg = NoMessage
      BY DEF Idle
    <2>2. Goes(p, next)
      BY <1>7 DEF PassRead
    <2> HIDE DEF next
    <2>3. QuietMove(p, next)
      BY <1>2, <2>1, <2>2 DEF QuietMove, SendsStep
    <2> QED BY <2>3, QuietStep
  <1> QED BY <1>4, <1>5, <1>6, <1>7 DEF EditCheck, DeleteCheck

LEMMA InsertSends ==
  ASSUME TypeOK, SendInv, NEW p \in Procs, NEW m \in Messages, Insert(p, m)
  PROVE  SendInv'
  <1> DEFINE next == [job[p] EXCEPT !.at = "commit", !.msg = m, !.tick = clock + 1]
  <1>1. next.at = "commit" /\ next.msg = m /\ next.slot = job[p].slot
    <2>1. job[p] \in JobRow
      BY JobTyped
    <2> QED BY <2>1 DEF JobRow
  <1>2. /\ Sending(p) /\ ~ Posted(m) /\ \A q \in Procs : job[q].msg # m
        /\ UNCHANGED <<message, slot>>
    BY DEF Insert, Sending, Held
  <1>3. job' = [job EXCEPT ![p] = next] /\ DOMAIN job = Procs
    BY DEF Insert, Goes, TypeOK
  <1> HIDE DEF next
  <1>4. job'[p] = next /\ \A q \in Procs : q # p => job'[q] = job[q]
    BY <1>3
  <1>5. SentOnce'
    BY <1>2 DEF SendInv, SentOnce, Posted
  <1>6. \A q \in Procs, s \in Slots : SendsFor(q, s)' => SendsFor(q, s)
    BY <1>1, <1>2, <1>4 DEF SendsFor, Sending
  <1>7. OneSender'
    BY <1>2, <1>6 DEF SendInv, OneSender, Posted
  <1>8. IdsAreOwn'
    BY <1>1, <1>2, <1>4 DEF SendInv, IdsAreOwn, Posted
  <1> QED BY <1>5, <1>7, <1>8 DEF SendInv

LEMMA CommitSends ==
  ASSUME TypeOK, SendInv, NEW p \in Procs, Commit(p)
  PROVE  SendInv'
  <1> DEFINE m == job[p].msg
             row == [author |-> job[p].user, at |-> job[p].tick, text |-> 0, deleted |-> FALSE,
                     slot |-> job[p].slot]
             next == [job[p] EXCEPT !.at = "audience", !.event = EventOf("message", job[p].msg, row)]
  <1>0. job[p] \in JobRow
    BY JobTyped
  <1>1. next.at = "audience" /\ next.msg = m /\ row.slot = job[p].slot
    BY <1>0 DEF JobRow
  <1>2. /\ Sending(p) /\ job[p].at = "commit" /\ UNCHANGED slot
        /\ message' = [message EXCEPT ![m] = row]
    BY DEF Commit, Sending
  <1>3. job' = [job EXCEPT ![p] = next] /\ DOMAIN job = Procs
    BY DEF Commit, Goes, TypeOK
  <1>4. m \in Messages /\ ~ Posted(m) /\ \A q \in Procs : job[q].msg = m => q = p
    BY <1>2 DEF SendInv, IdsAreOwn
  <1>5. job[p].slot \in Slots \cup {NoSlot}
    BY <1>0 DEF JobRow
  <1>t. DOMAIN message = Messages /\ \A n \in Messages : message[n].slot \in Slots \cup {NoSlot}
    <2>1. message \in [Messages -> MessageRow]
      BY VarsTyped
    <2> QED BY <2>1 DEF MessageRow
  <1> HIDE DEF next, row, m
  <1>6. job'[p] = next /\ \A q \in Procs : q # p => job'[q] = job[q]
    BY <1>3
  <1>7. message'[m] = row /\ \A n \in Messages : n # m => message'[n] = message[n]
    BY <1>2, <1>4, <1>t
  <1>8. ASSUME NEW s \in Slots, job[p].slot = s
        PROVE  /\ slot[s].state = "claimed"
               /\ \A n \in Messages : Posted(n) => message[n].slot # s
               /\ \A q \in Procs : SendsFor(q, s) => q = p
    BY <1>2, <1>8 DEF SendInv, OneSender, SendsFor
  <1>9. SentOnce'
    <2> SUFFICES ASSUME NEW n \in Messages, Posted(n)', message'[n].slot # NoSlot
                 PROVE  /\ slot'[message'[n].slot].state = "claimed"
                        /\ \A k \in Messages : Posted(k)' /\ message'[k].slot = message'[n].slot => k = n
      BY DEF SentOnce
    <2>1. CASE n = m
      <3>1. message'[n].slot = job[p].slot /\ job[p].slot \in Slots
        BY <1>1, <1>5, <1>7, <2>1
      <3>2. \A k \in Messages : k # m /\ Posted(k)' => message'[k].slot # job[p].slot
        BY <1>7, <1>8, <3>1 DEF Posted
      <3> QED BY <1>2, <1>8, <2>1, <3>1, <3>2
    <2>2. CASE n # m
      <3>1. message'[n] = message[n] /\ Posted(n)
        BY <1>7, <2>2 DEF Posted
      <3>2. slot[message[n].slot].state = "claimed"
        BY <3>1 DEF SendInv, SentOnce
      <3>3. message[n].slot \in Slots
        BY <1>t, <3>1
      <3>4. job[p].slot # message[n].slot
        BY <1>8, <3>1, <3>3
      <3>5. ASSUME NEW k \in Messages, Posted(k)', message'[k].slot = message'[n].slot PROVE k = n
        <4>1. k # m
          BY <1>1, <1>7, <3>1, <3>4, <3>5
        <4>2. Posted(k) /\ message[k].slot = message[n].slot
          BY <1>7, <3>1, <3>5, <4>1 DEF Posted
        <4> QED BY <3>1, <3>3, <4>2, ChatAssumption DEF SendInv, SentOnce
      <3> QED BY <1>2, <3>1, <3>2, <3>5
    <2> QED BY <2>1, <2>2
  <1>10. \A q \in Procs, s \in Slots : SendsFor(q, s)' => SendsFor(q, s) /\ q # p
    BY <1>1, <1>6 DEF SendsFor, Sending
  <1>11. OneSender'
    <2> SUFFICES ASSUME NEW s \in Slots, NEW q \in Procs, SendsFor(q, s)'
                 PROVE  /\ slot'[s].state = "claimed"
                        /\ \A n \in Messages : Posted(n)' => message'[n].slot # s
                        /\ \A r \in Procs : SendsFor(r, s)' => r = q
      BY DEF OneSender
    <2>1. /\ SendsFor(q, s) /\ q # p /\ slot[s].state = "claimed"
          /\ \A n \in Messages : Posted(n) => message[n].slot # s
          /\ \A r \in Procs : SendsFor(r, s) => r = q
      BY <1>10 DEF SendInv, OneSender
    <2>2. job[p].slot # s
      BY <1>8, <2>1
    <2>3. \A n \in Messages : Posted(n)' => message'[n].slot # s
      BY <1>1, <1>7, <2>1, <2>2 DEF Posted
    <2> QED BY <1>2, <1>10, <2>1, <2>3
  <1>12. IdsAreOwn'
    <2> SUFFICES ASSUME NEW q \in Procs, job'[q].at = "commit"
                 PROVE  /\ job'[q].msg \in Messages /\ ~ (message'[job'[q].msg].at > 0)
                        /\ \A r \in Procs : job'[r].msg = job'[q].msg => r = q
      BY DEF IdsAreOwn, Posted
    <2>1. q # p /\ job'[q] = job[q]
      BY <1>1, <1>6
    <2>2. /\ job[q].msg \in Messages /\ ~ Posted(job[q].msg)
          /\ \A r \in Procs : job[r].msg = job[q].msg => r = q
      BY <2>1 DEF SendInv, IdsAreOwn
    <2>3. job[q].msg # m
      BY <2>1, <2>2 DEF m
    <2>4. message'[job[q].msg] = message[job[q].msg]
      BY <1>7, <2>2, <2>3
    <2> QED BY <1>1, <1>6, <2>1, <2>2, <2>3, <2>4 DEF Posted
  <1> QED BY <1>9, <1>11, <1>12 DEF SendInv

LEMMA ClaimSends ==
  ASSUME TypeOK, SendInv, NEW p \in Procs, NEW d \in job[p].todo, Claim(p, d)
  PROVE  SendInv'
  <1>0. job[p] \in JobRow
    BY JobTyped
  <1>1. d.slot \in Slots /\ job[p].at = "pass"
    <2>1. d \in [slot : Slots, ok : BOOLEAN]
      BY <1>0 DEF JobRow
    <2> QED BY <2>1 DEF Claim
  <1>2. CASE ~ Claimable(d.slot)
    <2> DEFINE next == [job[p] EXCEPT !.todo = @ \ {d}]
    <2>1. next.at = "pass" /\ next.msg = job[p].msg
      BY <1>0, <1>1 DEF JobRow
    <2>2. Goes(p, next) /\ UNCHANGED <<message, slot>>
      BY <1>2 DEF Claim
    <2> HIDE DEF next
    <2>3. QuietMove(p, next)
      BY <2>1, <2>2, NothingMoves DEF QuietMove, SendsStep
    <2> QED BY <2>3, QuietStep
  <1>3. CASE Claimable(d.slot)
    <2> DEFINE s == d.slot
               next(at) == [[job[p] EXCEPT !.todo = @ \ {d}] EXCEPT !.at = at, !.slot = s,
                                                                     !.user = slot[s].author]
    <2>1. PICK at \in {"enter", "fail"} : job' = [job EXCEPT ![p] = next(at)]
      BY <1>3 DEF Claim, Goes
    <2>2. next(at).at = at /\ next(at).slot = s /\ next(at).msg = job[p].msg
      BY <1>0 DEF JobRow
    <2>3. /\ slot[s].state = "waiting" /\ slot' = [slot EXCEPT ![s].state = "claimed"]
          /\ UNCHANGED message
      BY <1>3 DEF Claim, Claimable, Waiting
    <2>t. s \in Slots /\ DOMAIN job = Procs /\ slot \in [Slots -> SlotRow]
      BY <1>1, VarsTyped DEF TypeOK
    <2> DEFINE N == next(at)
    <2>4. N.at = at /\ N.slot = s /\ N.msg = job[p].msg /\ job' = [job EXCEPT ![p] = N]
      BY <2>1, <2>2
    <2> HIDE DEF N, s
    <2>5. job'[p] = N /\ \A q \in Procs : q # p => job'[q] = job[q]
      BY <2>4, <2>t
    <2>6. slot'[s].state = "claimed" /\ \A r \in Slots : r # s => slot'[r] = slot[r]
      BY <2>3, <2>t DEF SlotRow
    <2>7. \A q \in Procs : ~ SendsFor(q, s)
      BY <2>3, <2>t DEF SendInv, OneSender
    <2>8. \A m \in Messages : Posted(m) => message[m].slot # s
      BY <2>3, <2>t, ChatAssumption DEF SendInv, SentOnce
    <2>9. SentOnce'
      <3>1. \A m \in Messages : message[m].slot \in Slots \cup {NoSlot}
        <4>1. \A m \in Messages : message[m] \in MessageRow
          BY VarsTyped
        <4> QED BY <4>1 DEF MessageRow
      <3> QED BY <2>3, <2>6, <2>8, <3>1 DEF SendInv, SentOnce, Posted
    <2>10. OneSender'
      <3> SUFFICES ASSUME NEW r \in Slots, NEW q \in Procs, SendsFor(q, r)'
                   PROVE  /\ slot'[r].state = "claimed"
                          /\ \A m \in Messages : Posted(m)' => message'[m].slot # r
                          /\ \A k \in Procs : SendsFor(k, r)' => k = q
        BY DEF OneSender
      <3>1. \A k \in Procs \ {p}, x \in Slots : SendsFor(k, x)' => SendsFor(k, x)
        BY <2>5 DEF SendsFor, Sending
      <3>2. \A x \in Slots : SendsFor(p, x)' => x = s
        BY <2>4, <2>5 DEF SendsFor, Sending
      <3>3. CASE r = s
        BY <2>3, <2>6, <2>7, <2>8, <3>1, <3>3 DEF Posted
      <3>4. CASE r # s
        <4>1. q # p /\ SendsFor(q, r) /\ \A k \in Procs : SendsFor(k, r)' => SendsFor(k, r)
          BY <3>1, <3>2, <3>4
        <4> QED BY <2>3, <2>6, <3>4, <4>1 DEF SendInv, OneSender, Posted
      <3> QED BY <3>3, <3>4
    <2>11. IdsAreOwn'
      BY <2>3, <2>4, <2>5 DEF SendInv, IdsAreOwn, Posted
    <2> QED BY <2>9, <2>10, <2>11 DEF SendInv
  <1> QED BY <1>2, <1>3

\* The other steps of a handler, and its failures.
LEMMA OtherSends ==
  ASSUME TypeOK, SendInv, NEW p \in Procs,
         \/ Audience(p) \/ Emit(p) \/ Mentions(p) \/ Enter(p)
         \/ Mark(p) \/ Marking(p) \/ Edit(p) \/ Delete(p) \/ AddMember(p) \/ RemoveMember(p)
         \/ Archive(p) \/ CancelAll(p) \/ Record(p) \/ Fail(p) \/ Tell(p) \/ PassEnds(p)
         \/ QueryFails(p) \/ PassFails(p)
         \/ \E s \in Slots : Schedule(p, s)
  PROVE  SendInv'
  <1>0. job[p] \in JobRow /\ Aimed(job[p])
    BY JobTyped
  <1>1. SUFFICES \E next : QuietMove(p, next)
    BY QuietStep
  <1>2. \A at \in {"record", "insert", "marking", "mentions", "cancelAll", "tell"} :
          /\ [job[p] EXCEPT !.at = at].at = at
          /\ [job[p] EXCEPT !.at = at].msg = job[p].msg
          /\ [job[p] EXCEPT !.at = at].slot = job[p].slot
    BY <1>0 DEF JobRow
  \* A job that goes on to a step which posts nothing, the rows of messages and claims as they were.
  <1>3. ASSUME NEW next, Goes(p, next), KeepsMessages, KeepsClaims, ~ SendsStep(next),
               next.msg \in {job[p].msg, NoMessage}
        PROVE  \E n : QuietMove(p, n)
    BY <1>3 DEF QuietMove, SendsStep
  <1>4. CASE Audience(p)
    <2> DEFINE next == [job[p] EXCEPT !.at = "emit", !.to = members]
    <2>1. next.at = "emit" /\ next.msg = job[p].msg
      BY <1>0 DEF JobRow
    <2>2. Goes(p, next) /\ UNCHANGED <<message, slot>>
      BY <1>4 DEF Audience
    <2> HIDE DEF next
    <2> QED BY <1>3, <2>1, <2>2, NothingMoves DEF SendsStep
  <1>5. CASE Emit(p)
    <2>1. AfterEmit(p).at \in {"idle", "mentions", "mark"} /\ AfterEmit(p).msg \in {job[p].msg, NoMessage}
      BY <1>0 DEF AfterEmit, JobRow, Idle
    <2>2. Goes(p, AfterEmit(p)) /\ UNCHANGED <<message, slot>>
      BY <1>5 DEF Emit
    <2> QED BY <1>3, <2>1, <2>2, NothingMoves DEF SendsStep
  <1>6. CASE Mentions(p)
    <2>1. \/ Goes(p, [job[p] EXCEPT !.at = "record"])
          \/ Goes(p, Idle)
      BY <1>6 DEF Mentions, Step
    <2>2. UNCHANGED <<message, slot>>
      BY <1>6 DEF Mentions
    <2> QED BY <1>2, <1>3, <2>1, <2>2, IdleIsQuiet, NothingMoves DEF SendsStep
  <1>7. CASE Enter(p)
    <2>1. \/ Goes(p, [job[p] EXCEPT !.at = "insert"])
          \/ Goes(p, Thrown(p))
      BY <1>7 DEF Enter, Step
    <2>2. Sending(p) /\ UNCHANGED <<message, slot>>
      BY <1>7 DEF Enter, Sending
    <2>3. CASE Goes(p, Thrown(p))
      BY <1>3, <2>2, <2>3, ThrownIsQuiet, NothingMoves DEF SendsStep
    <2>4. CASE Goes(p, [job[p] EXCEPT !.at = "insert"])
      <3>1. QuietMove(p, [job[p] EXCEPT !.at = "insert"])
        BY <1>2, <2>2, <2>4, NothingMoves DEF QuietMove
      <3> QED BY <3>1
    <2> QED BY <2>1, <2>3, <2>4
  <1>8. CASE Mark(p)
    <2> DEFINE next == [job[p] EXCEPT !.at = "marking", !.tick = clock + 1]
    <2>1. next.at = "marking" /\ next.msg = job[p].msg
      BY <1>0 DEF JobRow
    <2>2. (Goes(p, next) \/ Goes(p, Thrown(p))) /\ UNCHANGED <<message, slot>>
      BY <1>8 DEF Mark
    <2> HIDE DEF next
    <2> QED BY <1>3, <2>1, <2>2, ThrownIsQuiet, NothingMoves DEF SendsStep
  <1>9. CASE Marking(p)
    <2>1. \/ Goes(p, [job[p] EXCEPT !.at = "mentions"])
          \/ Goes(p, Idle) \/ Goes(p, Thrown(p))
      BY <1>9 DEF Marking, Step
    <2>2. UNCHANGED <<message, slot>>
      BY <1>9 DEF Marking
    <2> QED BY <1>2, <1>3, <2>1, <2>2, IdleIsQuiet, ThrownIsQuiet, NothingMoves DEF SendsStep
  <1>10. ASSUME NEW row, NEW kind, Changed(p, row, kind), job[p].msg \in Messages,
                row.at = message[job[p].msg].at, row.slot = message[job[p].msg].slot
         PROVE  \E next : QuietMove(p, next)
    <2> DEFINE next == [job[p] EXCEPT !.at = "audience", !.event = EventOf(kind, job[p].msg, row)]
    <2>1. next.at = "audience" /\ next.msg = job[p].msg
      BY <1>0 DEF JobRow
    <2>2. /\ Goes(p, next) /\ UNCHANGED slot
          /\ message' = [message EXCEPT ![job[p].msg] = row]
      BY <1>10 DEF Changed
    <2> HIDE DEF next
    <2>3. DOMAIN message = Messages
      BY VarsTyped
    <2>4. KeepsMessages /\ KeepsClaims
      BY <1>10, <2>2, <2>3 DEF KeepsMessages, KeepsClaims
    <2> QED BY <1>3, <2>1, <2>2, <2>4 DEF SendsStep
  <1>11. CASE Edit(p) \/ Delete(p)
    <2>1. job[p].msg \in Messages
      BY <1>0, <1>11 DEF Aimed, Edit, Delete
    <2>2. message[job[p].msg] \in MessageRow
      BY <2>1, VarsTyped
    <2> DEFINE old == message[job[p].msg]
    <2>3. /\ [old EXCEPT !.text = @ + 1].at = old.at /\ [old EXCEPT !.text = @ + 1].slot = old.slot
          /\ [old EXCEPT !.deleted = TRUE].at = old.at /\ [old EXCEPT !.deleted = TRUE].slot = old.slot
      BY <2>2 DEF MessageRow
    <2> QED BY <1>10, <1>11, <2>1, <2>3 DEF Edit, Delete
  <1>12. CASE AddMember(p) \/ RemoveMember(p) \/ PassEnds(p)
    <2>1. Goes(p, Idle) /\ UNCHANGED <<message, slot>>
      BY <1>12 DEF AddMember, RemoveMember, PassEnds
    <2> QED BY <1>3, <2>1, IdleIsQuiet, NothingMoves DEF SendsStep
  <1>13. CASE Archive(p)
    <2>1. Goes(p, [job[p] EXCEPT !.at = "cancelAll"]) /\ UNCHANGED <<message, slot>>
      BY <1>13 DEF Archive, Step
    <2> QED BY <1>2, <1>3, <2>1, NothingMoves DEF SendsStep
  <1>14. CASE CancelAll(p)
    <2>1. Goes(p, Idle) /\ UNCHANGED message
      BY <1>14 DEF CancelAll
    <2>2. KeepsClaims
      BY <1>14 DEF CancelAll, KeepsClaims, Waiting
    <2> QED BY <1>3, <2>1, <2>2, IdleIsQuiet DEF SendsStep, KeepsMessages
  <1>15. CASE Record(p) \/ Fail(p) \/ Tell(p)
    <2>1. Goes(p, [job[p] EXCEPT !.at = "tell"]) \/ Goes(p, Finished(p))
      BY <1>15 DEF Record, Fail, Tell, Step
    <2>2. KeepsClaims
      <3>1. slot \in [Slots -> SlotRow]
        BY VarsTyped
      <3>2. CASE Record(p)
        BY <3>1, <3>2 DEF Record, KeepsClaims, SlotRow
      <3>3. CASE Fail(p)
        BY <3>1, <3>3 DEF Fail, KeepsClaims, SlotRow
      <3>4. CASE Tell(p)
        BY <3>1, <3>4 DEF Tell, KeepsClaims, SlotRow
      <3> QED BY <1>15, <3>2, <3>3, <3>4
    <2>3. KeepsMessages
      BY <1>15 DEF Record, Fail, Tell, KeepsMessages
    <2> QED BY <1>2, <1>3, <2>1, <2>2, <2>3, FinishedIsQuiet DEF SendsStep
  <1>16. CASE QueryFails(p) \/ PassFails(p)
    <2>1. Goes(p, Finished(p)) \/ Goes(p, Thrown(p)) \/ Goes(p, Idle)
      BY <1>16 DEF QueryFails, PassFails
    <2>2. UNCHANGED <<message, slot>>
      BY <1>16 DEF QueryFails, PassFails
    <2> QED BY <1>3, <2>1, <2>2, FinishedIsQuiet, ThrownIsQuiet, IdleIsQuiet, NothingMoves DEF SendsStep
  <1>17. ASSUME NEW s \in Slots, Schedule(p, s) PROVE \E next : QuietMove(p, next)
    <2>1. Goes(p, Idle) /\ UNCHANGED message
      BY <1>17 DEF Schedule
    <2>2. KeepsClaims
      <3>1. slot[s].state = "none"
        BY <1>17 DEF Schedule, NoWait
      <3> QED BY <1>17, <3>1 DEF Schedule, KeepsClaims
    <2> QED BY <1>3, <2>1, <2>2, IdleIsQuiet DEF SendsStep, KeepsMessages
  <1> QED BY <1>4, <1>5, <1>6, <1>7, <1>8, <1>9, <1>11, <1>12, <1>13, <1>14, <1>15, <1>16, <1>17

LEMMA AloneSends ==
  ASSUME TypeOK, SendInv,
         \/ \E s \in Slots : CancelScheduled(s)
         \/ \E u \in Users : Deactivate(u)
         \/ Crash
  PROVE  SendInv'
  <1>1. ASSUME NEW s \in Slots, CancelScheduled(s) PROVE SendInv'
    <2>1. UNCHANGED <<message, job>> /\ \A r \in Slots : slot[r].state = "claimed" => slot'[r].state = "claimed"
      BY <1>1 DEF CancelScheduled, Waiting
    <2>2. \A m \in Messages : message[m].slot \in Slots \cup {NoSlot}
      <3>1. \A m \in Messages : message[m] \in MessageRow
        BY VarsTyped
      <3> QED BY <3>1 DEF MessageRow
    <2> QED BY <2>1, <2>2 DEF SendInv, SentOnce, OneSender, IdsAreOwn, SendsFor, Sending, Posted
  <1>2. ASSUME NEW u \in Users, Deactivate(u) PROVE SendInv'
    BY <1>2 DEF Deactivate, SendInv, SentOnce, OneSender, IdsAreOwn, SendsFor, Sending, Posted
  <1>3. CASE Crash
    <2>1. UNCHANGED <<message, slot>> /\ \A p \in Procs : job'[p].at = "idle"
      BY <1>3 DEF Crash, Idle
    <2> QED BY <2>1 DEF SendInv, SentOnce, OneSender, IdsAreOwn, SendsFor, Sending, Posted
  <1> QED BY <1>1, <1>2, <1>3

LEMMA NextSends == ASSUME TypeOK, SendInv, [Next]_vars PROVE SendInv'
  <1>1. ASSUME NEW p \in Procs, Progress(p) \/ QueryFails(p) \/ PassFails(p) PROVE SendInv'
    BY <1>1, CommitSends, InsertSends, ClaimSends, OtherSends DEF Progress
  <1>2. ASSUME NEW p \in Calls, NEW u \in Users, Begin(p, u) PROVE SendInv'
    BY <1>2, BeginSends DEF Begin, Procs
  <1>3. ASSUME NEW p \in Passes, NEW due \in SUBSET Slots, PassRead(p, due) PROVE SendInv'
    BY <1>3, BeginSends DEF Procs
  <1>4. CASE UNCHANGED vars
    BY <1>4 DEF vars, SendInv, SentOnce, OneSender, IdsAreOwn, SendsFor, Sending, Posted
  <1> QED BY <1>1, <1>2, <1>3, <1>4, AloneSends DEF Next

\* However many passes of the scheduler overlap with cancels, deletions of the group, failures
\* and restarts, a scheduled message is posted at most once and never after it was cancelled.
THEOREM ScheduledIsSentOnce == Spec => []SentOnce
  <1>1. Init => TypeOK /\ SendInv
    BY InitTyped, InitSends
  <1>2. TypeOK /\ SendInv /\ [Next]_vars => (TypeOK /\ SendInv)'
    BY NextTyped, NextSends
  <1>3. SendInv => SentOnce
    BY DEF SendInv
  <1> QED BY <1>1, <1>2, <1>3, PTL DEF Spec

-----------------------------------------------------------------------------
\* Never silent.  While nothing has failed a pass works on a claimed message until it was posted
\* and recorded, or until its author was told; nobody else works on it.
SentFor(s) == \E m \in Messages : Posted(m) /\ message[m].slot = s
SendsSteps == {"enter", "insert", "commit"}
SentSteps == {"audience", "emit", "mentions", "record"}
WorksOn(k, s) ==
  /\ k.at \in SendsSteps \cup SentSteps \cup {"fail", "tell"}
  /\ slot[s].state = "claimed" /\ slot[s].sent = NoMessage /\ ~ slot[s].told
  /\ slot[s].failed <=> k.at = "tell"
  /\ k.at = "commit" => k.tick > 0
  /\ k.at \notin SentSteps => ~ SentFor(s)
  /\ k.at \in SentSteps =>
       k.msg \in Messages /\ Posted(k.msg) /\ message[k.msg].slot = s /\ k.event.kind = "message"
Untouched(s) ==
  slot[s].sent = NoMessage /\ ~ slot[s].told /\ (slot[s].state # "cancelled" => ~ slot[s].failed)
SettledRow(s) ==
  /\ SentFor(s) <=> slot[s].sent # NoMessage
  /\ SentFor(s) <=> ~ slot[s].told
  /\ slot[s].told <=> slot[s].failed
Tended ==
  /\ \A p \in Procs : job[p].slot \in Slots => p \in Passes /\ WorksOn(job[p], job[p].slot)
  /\ \A p, q \in Procs : job[p].slot \in Slots /\ job[q].slot = job[p].slot => p = q
  /\ \A s \in Slots :
       /\ slot[s].state # "claimed" => Untouched(s)
       /\ slot[s].state = "claimed" /\ (\A p \in Procs : job[p].slot # s) => SettledRow(s)
TendedInv == faults = 0 => Tended

KeepsPosted == \A m \in Messages : Posted(m) => Posted(m)' /\ message'[m].slot = message[m].slot
KeepsSent == KeepsPosted /\ \A s \in Slots : SentFor(s)' => SentFor(s)
LEMMA MessagesSame == KeepsMessages => KeepsSent
  BY DEF KeepsMessages, KeepsSent, KeepsPosted, SentFor, Posted

\* A step that leaves the claimed slots and the messages of slots alone.
Moved(q) ==
  \/ job'[q] = job[q]
  \/ job[q].slot \notin Slots /\ job'[q].slot \notin Slots
  \/ job'[q].slot = job[q].slot /\ WorksOn(job'[q], job[q].slot)
LEMMA SlotsStay ==
  ASSUME Tended, \A q \in Procs : Moved(q), KeepsSent,
         \A s \in Slots : \/ slot'[s] = slot[s]
                          \/ slot[s].state # "claimed" /\ slot'[s].state # "claimed" /\ Untouched(s)'
  PROVE  Tended'
  <1>1. ASSUME NEW s \in Slots PROVE SentFor(s)' <=> SentFor(s)
    BY DEF SentFor, KeepsSent, KeepsPosted
  <1>2. ASSUME NEW s \in Slots, NEW k, WorksOn(k, s) PROVE WorksOn(k, s)'
    <2>1. slot'[s] = slot[s]
      BY <1>2 DEF WorksOn
    <2>2. \A m \in Messages : Posted(m) => Posted(m)' /\ message'[m].slot = message[m].slot
      BY DEF KeepsSent, KeepsPosted
    <2> QED BY <1>1, <1>2, <2>1, <2>2 DEF WorksOn
  <1>3. ASSUME NEW q \in Procs, NEW k, k = job'[q], NEW s \in Slots, k.slot = s
        PROVE  job[q].slot = s /\ q \in Passes /\ WorksOn(k, s)'
    <2>1. job[q].slot = s
      BY <1>3 DEF Moved
    <2>2. q \in Passes /\ WorksOn(k, s)
      BY <1>3, <2>1 DEF Moved, Tended
    <2> QED BY <1>2, <2>1, <2>2
  <1>4. ASSUME NEW q \in Procs, job'[q].slot \in Slots
        PROVE  q \in Passes /\ WorksOn(job[q], job[q].slot)'
    <2>1. PICK k : k = job'[q]
      OBVIOUS
    <2>2. PICK s \in Slots : s = k.slot
      BY <1>4, <2>1
    <2>3. q \in Passes /\ WorksOn(k, s)'
      BY <1>3, <2>1, <2>2
    <2> QED BY <2>1, <2>2, <2>3 DEF WorksOn
  <1>5. ASSUME NEW p \in Procs, NEW q \in Procs, job'[p].slot \in Slots, job'[q].slot = job'[p].slot
        PROVE  p = q
    <2>1. job[p].slot = job'[p].slot /\ job[q].slot = job'[p].slot
      BY <1>3, <1>5
    <2> QED BY <1>5, <2>1 DEF Tended
  <1>6. ASSUME NEW s \in Slots
        PROVE  /\ slot'[s].state # "claimed" => Untouched(s)'
               /\ slot'[s].state = "claimed" /\ (\A p \in Procs : job'[p].slot # s) => SettledRow(s)'
    <2>1. CASE slot'[s] = slot[s]
      <3>1. slot'[s].state # "claimed" => Untouched(s)'
        BY <2>1 DEF Tended, Untouched
      <3>2. ASSUME slot'[s].state = "claimed", \A p \in Procs : job'[p].slot # s PROVE SettledRow(s)'
        <4>1. \A p \in Procs : job[p].slot # s
          BY <3>2 DEF Moved
        <4> QED BY <1>1, <2>1, <3>2, <4>1 DEF Tended, SettledRow
      <3> QED BY <3>1, <3>2
    <2>2. CASE slot'[s].state # "claimed" /\ Untouched(s)'
      BY <2>2
    <2> QED BY <2>1, <2>2
  <1> QED BY <1>4, <1>5, <1>6 DEF Tended

\* A step of a pass for the slot it works on, or comes to work on.
LEMMA OneSlot ==
  ASSUME Tended, NEW p \in Procs, NEW k, NEW s \in Slots,
         job'[p] = k, \A q \in Procs : q # p => job'[q] = job[q],
         \A r \in Slots : r # s => slot'[r] = slot[r] /\ (SentFor(r)' <=> SentFor(r)),
         KeepsPosted,
         job[p].slot = s \/ job[p].slot \notin Slots, k.slot = s \/ k.slot \notin Slots,
         \A q \in Procs : q # p => job[q].slot # s,
         k.slot = s => p \in Passes /\ WorksOn(k, s)',
         slot'[s].state # "claimed" => Untouched(s)',
         k.slot # s /\ slot'[s].state = "claimed" => SettledRow(s)'
  PROVE  Tended'
  <1>1. ASSUME NEW q \in Procs, q # p, job[q].slot \in Slots
        PROVE  q \in Passes /\ WorksOn(job[q], job[q].slot)'
    <2>1. job[q].slot # s /\ WorksOn(job[q], job[q].slot) /\ q \in Passes /\ job'[q] = job[q]
      BY <1>1 DEF Tended
    <2>2. slot'[job[q].slot] = slot[job[q].slot] /\ (SentFor(job[q].slot) <=> \E m \in Messages : Posted(m)' /\ message'[m].slot = job[q].slot)
      BY <1>1, <2>1 DEF SentFor
    <2> QED BY <1>1, <2>1, <2>2 DEF WorksOn, SentFor, KeepsPosted
  <1>2. k.slot = s => WorksOn(job[p], job[p].slot)'
    BY DEF WorksOn, SentFor
  <1>3. \A q \in Procs : job'[q].slot \in Slots => q \in Passes /\ WorksOn(job[q], job[q].slot)'
    BY <1>1, <1>2
  <1>4. \A q, r \in Procs : job'[q].slot \in Slots /\ job'[r].slot = job'[q].slot => q = r
    BY DEF Tended
  <1>5. ASSUME NEW r \in Slots
        PROVE  /\ slot'[r].state # "claimed" => Untouched(r)'
               /\ slot'[r].state = "claimed" /\ (\A q \in Procs : job'[q].slot # r) => SettledRow(r)'
    <2>1. CASE r = s
      BY <2>1
    <2>2. CASE r # s
      <3>1. slot'[r] = slot[r] /\ (SentFor(r)' <=> SentFor(r))
        BY <2>2
      <3>2. (\A q \in Procs : job'[q].slot # r) => \A q \in Procs : job[q].slot # r
        BY <2>2
      <3> QED BY <3>1, <3>2 DEF Tended, Untouched, SettledRow
    <2> QED BY <2>1, <2>2
  <1> QED BY <1>3, <1>4, <1>5 DEF Tended

SlotRows ==
  \A s \in Slots : \/ slot'[s] = slot[s]
                   \/ slot[s].state # "claimed" /\ slot'[s].state # "claimed" /\ Untouched(s)'
LEMMA OneMoves ==
  ASSUME TypeOK, Tended, NEW p \in Procs, NEW next, Goes(p, next), KeepsSent, SlotRows,
         \/ job[p].slot \notin Slots /\ next.slot \notin Slots
         \/ next.slot = job[p].slot /\ WorksOn(next, job[p].slot)
  PROVE  Tended'
  <1>1. job'[p] = next /\ \A q \in Procs : q # p => job'[q] = job[q]
    BY DEF Goes, TypeOK
  <1>2. \A q \in Procs : Moved(q)
    BY <1>1 DEF Moved
  <1> QED BY <1>2, SlotsStay DEF SlotRows

LEMMA RowsSame == ASSUME UNCHANGED slot PROVE SlotRows
  BY DEF SlotRows

\* A job of any other step works for no slot.
LEMMA FreeOfSlots ==
  ASSUME Tended, NEW p \in Procs,
         job[p].at \notin SendsSteps \cup SentSteps \cup {"fail", "tell"} \/ p \notin Passes
  PROVE  job[p].slot \notin Slots
  BY DEF Tended, WorksOn

LEMMA BeginTends ==
  ASSUME TypeOK, Tended, NEW p \in Procs,
         \/ \E u \in Users : \/ PostCheck(p, u) \/ ReadCall(p, u) \/ ScheduleCheck(p, u)
                             \/ ArchiveCheck(p, u)
                             \/ \E v \in Users : AddCheck(p, u, v) \/ RemoveCheck(p, u, v)
                             \/ \E m \in Messages : EditCheck(p, u, m) \/ DeleteCheck(p, u, m)
         \/ \E due \in SUBSET Slots : PassRead(p, due)
  PROVE  Tended'
  <1>1. UNCHANGED <<message, slot>> /\ job[p] = Idle
    BY DEF PostCheck, ReadCall, ScheduleCheck, ArchiveCheck, AddCheck, RemoveCheck, AdminCheck,
           EditCheck, DeleteCheck, ChangeCheck, PassRead
  <1>2. KeepsSent /\ SlotRows /\ job[p].slot \notin Slots
    BY <1>1, NothingMoves, MessagesSame, RowsSame, IdleIsQuiet, ChatAssumption
  <1>3. SUFFICES ASSUME NEW next, Goes(p, next), next.slot = NoSlot
                 PROVE  Tended'
    <2>1. ASSUME NEW at, NEW u, Goes(p, [Idle EXCEPT !.at = at, !.user = u]) PROVE Tended'
      <3>1. [Idle EXCEPT !.at = at, !.user = u].slot = NoSlot
        BY DEF Idle
      <3> QED BY <1>3, <2>1, <3>1
    <2>2. ASSUME NEW at, NEW u, NEW m, Goes(p, [Idle EXCEPT !.at = at, !.user = u, !.msg = m])
          PROVE  Tended'
      <3>1. [Idle EXCEPT !.at = at, !.user = u, !.msg = m].slot = NoSlot
        BY DEF Idle
      <3> QED BY <1>3, <2>2, <3>1
    <2>3. ASSUME NEW todo, Goes(p, [Idle EXCEPT !.at = "pass", !.todo = todo]) PROVE Tended'
      <3>1. [Idle EXCEPT !.at = "pass", !.todo = todo].slot = NoSlot
        BY DEF Idle
      <3> QED BY <1>3, <2>3, <3>1
    <2>4. ASSUME NEW u \in Users, PostCheck(p, u) \/ ReadCall(p, u) \/ ScheduleCheck(p, u) PROVE Tended'
      BY <2>1, <2>4 DEF PostCheck, ReadCall, ScheduleCheck
    <2>5. ASSUME NEW u \in Users, NEW v \in Users,
                 ArchiveCheck(p, u) \/ AddCheck(p, u, v) \/ RemoveCheck(p, u, v)
          PROVE  Tended'
      BY <2>1, <2>5 DEF ArchiveCheck, AddCheck, RemoveCheck, AdminCheck
    <2>6. ASSUME NEW u \in Users, NEW m \in Messages, EditCheck(p, u, m) \/ DeleteCheck(p, u, m)
          PROVE  Tended'
      BY <2>2, <2>6 DEF EditCheck, DeleteCheck, ChangeCheck
    <2>7. ASSUME NEW due \in SUBSET Slots, PassRead(p, due) PROVE Tended'
      BY <2>3, <2>7 DEF PassRead
    <2>8. ASSUME NEW u \in Users, ArchiveCheck(p, u) PROVE Tended'
      BY <2>1, <2>8 DEF ArchiveCheck, AdminCheck
    <2> QED BY <2>4, <2>5, <2>6, <2>7, <2>8
  <1> QED BY <1>2, <1>3, OneMoves, ChatAssumption

\* Requests, and the end of a pass.
LEMMA RequestTends ==
  ASSUME TypeOK, Tended, NEW p \in Procs,
         \/ Mark(p) \/ Marking(p) \/ Edit(p) \/ Delete(p) \/ AddMember(p) \/ RemoveMember(p)
         \/ Archive(p) \/ CancelAll(p) \/ PassEnds(p) \/ \E s \in Slots : Schedule(p, s)
  PROVE  Tended'
  <1>0. job[p] \in JobRow /\ Aimed(job[p]) /\ slot \in [Slots -> SlotRow] /\ DOMAIN message = Messages
    BY JobTyped, VarsTyped
  <1>1. job[p].slot \notin Slots
    <2>1. job[p].at \notin SendsSteps \cup SentSteps \cup {"fail", "tell"}
      BY DEF Mark, Marking, Edit, Delete, AddMember, RemoveMember, Archive, CancelAll, PassEnds, Schedule,
             SendsSteps, SentSteps
    <2> QED BY <2>1, FreeOfSlots
  <1>2. \A n : n = Idle \/ n = Thrown(p) => n.slot \notin Slots
    BY <1>0, <1>1, IdleIsQuiet, ChatAssumption DEF Thrown, JobRow
  <1>3. KeepsMessages
    <2>1. CASE UNCHANGED message
      BY <2>1 DEF KeepsMessages
    <2>2. CASE Edit(p) \/ Delete(p)
      <3>1. job[p].msg \in Messages
        BY <1>0, <2>2 DEF Aimed, Edit, Delete
      <3>2. PICK old : old = message[job[p].msg]
        OBVIOUS
      <3>3. old \in MessageRow
        BY <3>1, <3>2, VarsTyped
      <3>4. /\ [old EXCEPT !.text = @ + 1].at = old.at /\ [old EXCEPT !.text = @ + 1].slot = old.slot
            /\ [old EXCEPT !.deleted = TRUE].at = old.at /\ [old EXCEPT !.deleted = TRUE].slot = old.slot
        BY <3>3 DEF MessageRow
      <3>5. PICK new : /\ new.at = old.at /\ new.slot = old.slot
                       /\ message' = [message EXCEPT ![job[p].msg] = new]
        BY <2>2, <3>2, <3>4 DEF Edit, Delete, Changed
      <3> QED BY <1>0, <3>1, <3>2, <3>5 DEF KeepsMessages
    <2> QED BY <2>1, <2>2 DEF Mark, Marking, AddMember, RemoveMember, Archive, CancelAll, PassEnds, Schedule
  <1>4. SlotRows
    <2>1. CASE UNCHANGED slot
      BY <2>1, RowsSame
    <2>2. CASE CancelAll(p)
      <3>1. ASSUME NEW s \in Slots, Waiting(s)
            PROVE  slot[s].state # "claimed" /\ slot'[s].state # "claimed" /\ Untouched(s)'
        <4>1. Untouched(s) /\ slot'[s] = [slot[s] EXCEPT !.state = "cancelled", !.failed = TRUE]
          BY <2>2, <3>1 DEF Tended, Waiting, CancelAll
        <4>2. slot[s] \in SlotRow
          BY <1>0
        <4>3. slot'[s].state = "cancelled" /\ slot'[s].sent = slot[s].sent /\ slot'[s].told = slot[s].told
          BY <4>1, <4>2 DEF SlotRow
        <4> QED BY <3>1, <4>1, <4>3 DEF Untouched, Waiting
      <3>2. \A s \in Slots : ~ Waiting(s) => slot'[s] = slot[s]
        BY <2>2 DEF CancelAll
      <3> QED BY <3>1, <3>2 DEF SlotRows
    <2>3. ASSUME NEW s \in Slots, Schedule(p, s) PROVE SlotRows
      <3>1. PICK r : r = [NoWait EXCEPT !.author = job[p].user, !.state = "waiting"]
        OBVIOUS
      <3>2. r.state = "waiting" /\ r.sent = NoMessage /\ ~ r.told /\ ~ r.failed
        BY <3>1 DEF NoWait
      <3>3. slot' = [slot EXCEPT ![s] = r] /\ slot[s].state = "none"
        BY <2>3, <3>1 DEF Schedule, NoWait
      <3> QED BY <1>0, <3>2, <3>3 DEF SlotRows, Untouched
    <2> QED BY <2>1, <2>2, <2>3 DEF Mark, Marking, Edit, Delete, Changed, AddMember, RemoveMember, Archive, PassEnds
  <1>5. PICK next : Goes(p, next) /\ next.slot \notin Slots
    <2>1. \A at : [job[p] EXCEPT !.at = at].slot = job[p].slot
      BY <1>0 DEF JobRow
    <2>2. [job[p] EXCEPT !.at = "marking", !.tick = clock + 1].slot = job[p].slot
      BY <1>0 DEF JobRow
    <2>3. \A e : [job[p] EXCEPT !.at = "audience", !.event = e].slot = job[p].slot
      BY <1>0 DEF JobRow
    <2>4. CASE Mark(p)
      BY <1>1, <1>2, <2>2, <2>4 DEF Mark
    <2>5. CASE Marking(p)
      BY <1>1, <1>2, <2>1, <2>5 DEF Marking, Step
    <2>6. CASE Edit(p) \/ Delete(p)
      BY <1>1, <2>3, <2>6 DEF Edit, Delete, Changed
    <2>7. CASE Archive(p)
      BY <1>1, <2>1, <2>7 DEF Archive, Step
    <2> QED BY <1>2, <2>4, <2>5, <2>6, <2>7 DEF AddMember, RemoveMember, CancelAll, PassEnds, Schedule
  <1> QED BY <1>1, <1>3, <1>4, <1>5, OneMoves, MessagesSame

\* The steps of posting before and after the message is there; requests post too, for no slot.
LEMMA PostingTends ==
  ASSUME TypeOK, Tended, NEW p \in Procs,
         \/ Audience(p) \/ Emit(p) \/ Mentions(p) \/ Enter(p) \/ \E m \in Messages : Insert(p, m)
         \/ \E d \in job[p].todo : Claim(p, d) /\ ~ Claimable(d.slot)
  PROVE  Tended'
  <1>0. job[p] \in JobRow /\ clock \in Nat
    BY JobTyped, VarsTyped
  <1>1. UNCHANGED <<message, slot>>
    BY DEF Audience, Emit, Mentions, Enter, Insert, Claim
  <1>2. KeepsSent /\ SlotRows
    BY <1>1, NothingMoves, MessagesSame, RowsSame
  <1>3. job[p].slot \in Slots => p \in Passes /\ WorksOn(job[p], job[p].slot)
    BY DEF Tended
  <1>4. SUFFICES \E next : /\ Goes(p, next)
                           /\ \/ job[p].slot \notin Slots /\ next.slot \notin Slots
                              \/ next.slot = job[p].slot /\ WorksOn(next, job[p].slot)
    BY <1>2, OneMoves
  <1>5. CASE Audience(p)
    <2>1. PICK next : next = [job[p] EXCEPT !.at = "emit", !.to = members]
      OBVIOUS
    <2>2. /\ next.at = "emit" /\ next.msg = job[p].msg /\ next.slot = job[p].slot
          /\ next.event = job[p].event /\ Goes(p, next) /\ job[p].at = "audience"
      BY <1>0, <1>5, <2>1 DEF JobRow, Audience
    <2> QED BY <1>3, <2>2 DEF WorksOn, SentSteps, SendsSteps
  <1>6. CASE Emit(p)
    <2>1. Goes(p, AfterEmit(p)) /\ job[p].at = "emit"
      BY <1>6 DEF Emit
    <2>2. CASE job[p].slot \notin Slots
      <3>1. AfterEmit(p).slot \in {job[p].slot, NoSlot}
        BY <1>0, IdleIsQuiet DEF AfterEmit, JobRow
      <3> QED BY <2>1, <2>2, <3>1, ChatAssumption
    <2>3. CASE job[p].slot \in Slots
      <3>1. AfterEmit(p) = [job[p] EXCEPT !.at = "mentions", !.to = {}]
        BY <1>3, <2>1, <2>3 DEF AfterEmit, WorksOn, SentSteps
      <3>2. PICK next : next = AfterEmit(p)
        OBVIOUS
      <3>3. /\ next.at = "mentions" /\ next.msg = job[p].msg /\ next.slot = job[p].slot
            /\ next.event = job[p].event
        BY <1>0, <3>1, <3>2 DEF JobRow
      <3> QED BY <1>3, <2>1, <2>3, <3>2, <3>3 DEF WorksOn, SentSteps, SendsSteps
    <2> QED BY <2>2, <2>3
  <1>7. CASE Mentions(p)
    <2>1. CASE p \in Passes
      <3>1. PICK next : next = [job[p] EXCEPT !.at = "record"]
        OBVIOUS
      <3>2. /\ next.at = "record" /\ next.msg = job[p].msg /\ next.slot = job[p].slot
            /\ next.event = job[p].event /\ Goes(p, next) /\ job[p].at = "mentions"
        BY <1>0, <1>7, <2>1, <3>1 DEF JobRow, Mentions, Step
      <3> QED BY <1>3, <3>2 DEF WorksOn, SentSteps, SendsSteps
    <2>2. CASE p \notin Passes
      BY <1>3, <1>7, <2>2, IdleIsQuiet, ChatAssumption DEF Mentions
    <2> QED BY <2>1, <2>2
  <1>8. CASE Enter(p)
    <2>1. ASSUME NEW next, NEW at \in {"insert", "fail"}, next = [job[p] EXCEPT !.at = at], Goes(p, next)
          PROVE  \/ job[p].slot \notin Slots /\ next.slot \notin Slots
                 \/ next.slot = job[p].slot /\ WorksOn(next, job[p].slot)
      <3>1. next.at = at /\ next.slot = job[p].slot /\ job[p].at = "enter"
        BY <1>0, <1>8, <2>1 DEF JobRow, Enter
      <3> QED BY <1>3, <3>1 DEF WorksOn, SentSteps, SendsSteps
    <2>2. CASE Goes(p, [job[p] EXCEPT !.at = "insert"])
      BY <2>1, <2>2
    <2>3. CASE Goes(p, Thrown(p))
      <3>1. CASE p \in Passes
        BY <2>1, <2>3, <3>1 DEF Thrown
      <3>2. CASE p \notin Passes
        BY <1>3, <2>3, <3>2, IdleIsQuiet, ChatAssumption DEF Thrown
      <3> QED BY <3>1, <3>2
    <2> QED BY <1>8, <2>2, <2>3 DEF Enter, Step
  <1>9. ASSUME NEW m \in Messages, Insert(p, m)
        PROVE  \E next : /\ Goes(p, next)
                         /\ \/ job[p].slot \notin Slots /\ next.slot \notin Slots
                            \/ next.slot = job[p].slot /\ WorksOn(next, job[p].slot)
    <2>0. PICK t : t = clock + 1
      OBVIOUS
    <2>1. PICK next : next = [job[p] EXCEPT !.at = "commit", !.msg = m, !.tick = t]
      OBVIOUS
    <2>2. next.at = "commit" /\ next.slot = job[p].slot /\ next.tick = t
      BY <1>0, <2>1 DEF JobRow
    <2>3. t > 0
      BY <1>0, <2>0
    <2>4. Goes(p, next) /\ job[p].at = "insert"
      BY <1>9, <2>0, <2>1 DEF Insert
    <2> QED BY <1>3, <2>2, <2>3, <2>4 DEF WorksOn, SentSteps, SendsSteps
  <1>10. ASSUME NEW d \in job[p].todo, Claim(p, d), ~ Claimable(d.slot)
         PROVE  \E next : Goes(p, next) /\ job[p].slot \notin Slots /\ next.slot \notin Slots
    <2>1. PICK next : next = [job[p] EXCEPT !.todo = @ \ {d}]
      OBVIOUS
    <2>2. next.slot = job[p].slot /\ Goes(p, next) /\ job[p].at = "pass"
      BY <1>0, <1>10, <2>1 DEF JobRow, Claim
    <2>3. job[p].slot \notin Slots
      BY <2>2, FreeOfSlots DEF SendsSteps, SentSteps
    <2> QED BY <2>2, <2>3
  <1> QED BY <1>5, <1>6, <1>7, <1>8, <1>9, <1>10

\* The row of the message is there: for a slot it is the first one.
LEMMA CommitTends ==
  ASSUME TypeOK, SendInv, Tended, NEW p \in Procs, Commit(p)
  PROVE  Tended'
  <1>0. job[p] \in JobRow /\ message \in [Messages -> MessageRow]
    BY JobTyped, VarsTyped
  <1>1. PICK row : row = [author |-> job[p].user, at |-> job[p].tick, text |-> 0, deleted |-> FALSE,
                          slot |-> job[p].slot]
    OBVIOUS
  <1>2. PICK e : e = EventOf("message", job[p].msg, row)
    OBVIOUS
  <1>3. PICK next : next = [job[p] EXCEPT !.at = "audience", !.event = e]
    OBVIOUS
  <1>4. PICK m \in Messages : m = job[p].msg /\ ~ Posted(m)
    BY DEF SendInv, IdsAreOwn, Commit
  <1>5. /\ job[p].at = "commit" /\ Goes(p, next) /\ message' = [message EXCEPT ![m] = row]
        /\ UNCHANGED slot
    BY <1>1, <1>2, <1>3, <1>4 DEF Commit
  <1>6. /\ row.at = job[p].tick /\ row.slot = job[p].slot /\ e.kind = "message"
        /\ next.at = "audience" /\ next.event = e /\ next.msg = m /\ next.slot = job[p].slot
    BY <1>0, <1>1, <1>2, <1>3, <1>4 DEF JobRow, EventOf
  <1>7. message'[m] = row /\ \A n \in Messages : n # m => message'[n] = message[n]
    BY <1>0, <1>5
  <1>8. KeepsPosted
    BY <1>4, <1>7 DEF KeepsPosted, Posted
  <1>9. CASE job[p].slot \notin Slots
    <2>1. ASSUME NEW s \in Slots, NEW n \in Messages, Posted(n)', message'[n].slot = s PROVE SentFor(s)
      <3>1. n # m
        BY <1>6, <1>7, <1>9, <2>1
      <3> QED BY <1>7, <2>1, <3>1 DEF SentFor, Posted
    <2>2. KeepsSent
      BY <1>8, <2>1 DEF KeepsSent, SentFor
    <2> QED BY <1>5, <1>6, <1>9, <2>2, OneMoves, RowsSame
  <1>10. ASSUME NEW s \in Slots, s = job[p].slot PROVE Tended'
    <2>1. p \in Passes /\ WorksOn(job[p], s)
      BY <1>10 DEF Tended
    <2>2. Posted(m)' /\ SentFor(s)'
      BY <1>0, <1>5, <1>6, <1>7, <1>10, <2>1 DEF WorksOn, Posted, SentFor
    <2>3. \A r \in Slots : r # s => (SentFor(r)' <=> SentFor(r))
      BY <1>4, <1>6, <1>7, <1>10 DEF SentFor, Posted
    <2>4. WorksOn(next, s)'
      BY <1>5, <1>6, <1>7, <1>10, <2>1, <2>2 DEF WorksOn, SentSteps, SendsSteps
    <2>5. slot'[s].state = "claimed"
      BY <1>5, <2>1 DEF WorksOn
    <2>6. /\ job'[p] = next /\ \A q \in Procs : q # p => job'[q] = job[q]
      BY <1>5 DEF Goes, TypeOK
    <2>7. \A q \in Procs : q # p => job[q].slot # s
      BY <1>10 DEF Tended
    <2> QED BY <1>5, <1>6, <1>8, <1>10, <2>1, <2>3, <2>4, <2>5, <2>6, <2>7, OneSlot
  <1> QED BY <1>9, <1>10

\* Only the scheduler's passes claim.
PassSteps == \A p \in Procs : job[p].at = "pass" => p \in Passes
LEMMA PassGoes ==
  ASSUME TypeOK, PassSteps, NEW p \in Procs, NEW next, Goes(p, next), next.at = "pass" => p \in Passes
  PROVE  PassSteps'
  BY DEF TypeOK, PassSteps, Goes

LEMMA BeginPasses ==
  ASSUME TypeOK, PassSteps, NEW p \in Procs,
         \/ \E u \in Users : \/ PostCheck(p, u) \/ ReadCall(p, u) \/ ScheduleCheck(p, u)
                             \/ ArchiveCheck(p, u)
                             \/ \E v \in Users : AddCheck(p, u, v) \/ RemoveCheck(p, u, v)
                             \/ \E m \in Messages : EditCheck(p, u, m) \/ DeleteCheck(p, u, m)
         \/ \E due \in SUBSET Slots : PassRead(p, due)
  PROVE  PassSteps'
  <1>1. ASSUME NEW at, at # "pass",
               \/ \E u : Goes(p, [Idle EXCEPT !.at = at, !.user = u])
               \/ \E u, m : Goes(p, [Idle EXCEPT !.at = at, !.user = u, !.msg = m])
        PROVE  PassSteps'
    <2>1. ASSUME NEW u, Goes(p, [Idle EXCEPT !.at = at, !.user = u]) PROVE PassSteps'
      <3>1. [Idle EXCEPT !.at = at, !.user = u].at = at
        BY DEF Idle
      <3> QED BY <1>1, <2>1, <3>1, PassGoes
    <2>2. ASSUME NEW u, NEW m, Goes(p, [Idle EXCEPT !.at = at, !.user = u, !.msg = m]) PROVE PassSteps'
      <3>1. [Idle EXCEPT !.at = at, !.user = u, !.msg = m].at = at
        BY DEF Idle
      <3> QED BY <1>1, <2>2, <3>1, PassGoes
    <2> QED BY <1>1, <2>1, <2>2
  <1>2. ASSUME NEW u \in Users, PostCheck(p, u) \/ ReadCall(p, u) \/ ScheduleCheck(p, u) PROVE PassSteps'
    BY <1>1, <1>2 DEF PostCheck, ReadCall, ScheduleCheck
  <1>3. ASSUME NEW u \in Users, ArchiveCheck(p, u) PROVE PassSteps'
    BY <1>1, <1>3 DEF ArchiveCheck, AdminCheck
  <1>4. ASSUME NEW u \in Users, NEW v \in Users, AddCheck(p, u, v) \/ RemoveCheck(p, u, v)
        PROVE  PassSteps'
    BY <1>1, <1>4 DEF AddCheck, RemoveCheck, AdminCheck
  <1>5. ASSUME NEW u \in Users, NEW m \in Messages, EditCheck(p, u, m) \/ DeleteCheck(p, u, m)
        PROVE  PassSteps'
    BY <1>1, <1>5 DEF EditCheck, DeleteCheck, ChangeCheck
  <1>6. ASSUME NEW due \in SUBSET Slots, PassRead(p, due) PROVE PassSteps'
    <2>1. p \in Passes /\ \E next : Goes(p, next)
      BY <1>6 DEF PassRead
    <2> QED BY <2>1, PassGoes
  <1> QED BY <1>2, <1>3, <1>4, <1>5, <1>6

LEMMA ProgressPasses ==
  ASSUME TypeOK, PassSteps, NEW p \in Procs, Progress(p) \/ QueryFails(p) \/ PassFails(p)
  PROVE  PassSteps'
  <1>0. job[p] \in JobRow
    BY JobTyped
  <1> DEFINE Leaves == \E next : Goes(p, next) /\ next.at # "pass"
  <1>1. SUFFICES ASSUME p \notin Passes PROVE Leaves
    <2>1. CASE p \in Passes
      <3>1. \E next : Goes(p, next)
        BY DEF Progress, QueryFails, PassFails, Commit, Audience, Emit, Mentions, Mark, Marking, Edit, Delete,
               Changed, AddMember, RemoveMember, Archive, CancelAll, Enter, Record, Fail, Tell, PassEnds,
               Insert, Schedule, Claim, Step
      <3> QED BY <2>1, <3>1, PassGoes
    <2>2. CASE p \notin Passes
      BY <1>1, <2>2, PassGoes
    <2> QED BY <2>1, <2>2
  <1>2. job[p].at # "pass"
    BY <1>1 DEF PassSteps
  <1>3. /\ Idle.at # "pass" /\ Finished(p).at # "pass" /\ Thrown(p).at # "pass"
        /\ AfterEmit(p).at # "pass"
    BY <1>0, <1>1 DEF Finished, Thrown, Idle, AfterEmit, JobRow
  <1>4. ASSUME NEW at, at # "pass", Goes(p, [job[p] EXCEPT !.at = at]) PROVE Leaves
    <2>1. [job[p] EXCEPT !.at = at].at = at
      BY <1>0 DEF JobRow
    <2> QED BY <1>4, <2>1
  <1>5. ASSUME NEW at, NEW e, at # "pass", Goes(p, [job[p] EXCEPT !.at = at, !.event = e]) PROVE Leaves
    <2>1. [job[p] EXCEPT !.at = at, !.event = e].at = at
      BY <1>0 DEF JobRow
    <2> QED BY <1>5, <2>1
  <1>6. ASSUME NEW at, NEW to, at # "pass", Goes(p, [job[p] EXCEPT !.at = at, !.to = to]) PROVE Leaves
    <2>1. [job[p] EXCEPT !.at = at, !.to = to].at = at
      BY <1>0 DEF JobRow
    <2> QED BY <1>6, <2>1
  <1>7. ASSUME NEW at, NEW t, at # "pass", Goes(p, [job[p] EXCEPT !.at = at, !.tick = t]) PROVE Leaves
    <2>1. [job[p] EXCEPT !.at = at, !.tick = t].at = at
      BY <1>0 DEF JobRow
    <2> QED BY <1>7, <2>1
  <1>8. ASSUME NEW at, NEW m, NEW t, at # "pass", Goes(p, [job[p] EXCEPT !.at = at, !.msg = m, !.tick = t]) PROVE Leaves
    <2>1. [job[p] EXCEPT !.at = at, !.msg = m, !.tick = t].at = at
      BY <1>0 DEF JobRow
    <2> QED BY <1>8, <2>1
  <1>l. ASSUME Goes(p, Idle) \/ Goes(p, Finished(p)) \/ Goes(p, Thrown(p)) \/ Goes(p, AfterEmit(p))
        PROVE  Leaves
    BY <1>3, <1>l
  <1> HIDE DEF Leaves
  <1>9. CASE Commit(p) \/ Edit(p) \/ Delete(p)
    BY <1>5, <1>9 DEF Commit, Edit, Delete, Changed
  <1>10. CASE Audience(p)
    BY <1>6, <1>10 DEF Audience
  <1>11. CASE Mark(p)
    BY <1>l, <1>7, <1>11 DEF Mark
  <1>12. CASE \E m \in Messages : Insert(p, m)
    BY <1>8, <1>12 DEF Insert
  <1>13. CASE Mentions(p) \/ Marking(p) \/ Archive(p) \/ Enter(p) \/ Record(p) \/ Fail(p) \/ Tell(p)
    BY <1>l, <1>4, <1>13 DEF Mentions, Marking, Archive, Enter, Record, Fail, Tell, Step
  <1>14. CASE \/ Emit(p) \/ AddMember(p) \/ RemoveMember(p) \/ CancelAll(p) \/ PassEnds(p)
              \/ \E s \in Slots : Schedule(p, s)
    BY <1>l, <1>14 DEF Emit, AddMember, RemoveMember, CancelAll, PassEnds, Schedule
  <1>15. CASE QueryFails(p) \/ PassFails(p)
    BY <1>l, <1>15 DEF QueryFails, PassFails
  <1>16. ~ \E d \in job[p].todo : Claim(p, d)
    BY <1>2 DEF Claim
  <1> QED BY <1>9, <1>10, <1>11, <1>12, <1>13, <1>14, <1>15, <1>16 DEF Progress

LEMMA NextPasses == ASSUME TypeOK, PassSteps, [Next]_vars PROVE PassSteps'
  <1>1. ASSUME NEW p \in Procs, Progress(p) \/ QueryFails(p) \/ PassFails(p) PROVE PassSteps'
    BY <1>1, ProgressPasses
  <1>2. ASSUME NEW p \in Calls, NEW u \in Users, Begin(p, u) PROVE PassSteps'
    BY <1>2, BeginPasses DEF Begin, Procs
  <1>3. ASSUME NEW p \in Passes, NEW due \in SUBSET Slots, PassRead(p, due) PROVE PassSteps'
    BY <1>3, BeginPasses DEF Procs
  <1>4. CASE UNCHANGED job
    BY <1>4 DEF PassSteps
  <1>5. CASE Crash
    BY <1>5 DEF PassSteps, Crash, Idle
  <1> QED BY <1>1, <1>2, <1>3, <1>4, <1>5 DEF Next, vars, CancelScheduled, Deactivate

\* A pass claims a slot that was waiting: nobody works on it and no message of it exists.
LEMMA ClaimTends ==
  ASSUME TypeOK, SendInv, PassSteps, Tended, NEW p \in Procs, NEW d \in job[p].todo, Claim(p, d),
         Claimable(d.slot)
  PROVE  Tended'
  <1>0. job[p] \in JobRow /\ slot \in [Slots -> SlotRow]
    BY JobTyped, VarsTyped
  <1>1. PICK s \in Slots : s = d.slot
    <2>1. d \in [slot : Slots, ok : BOOLEAN]
      BY <1>0 DEF JobRow
    <2> QED BY <2>1
  <1>2. PICK rest : rest = [job[p] EXCEPT !.todo = @ \ {d}]
    OBVIOUS
  <1>3. PICK at \in {"enter", "fail"} : at = IF d.ok THEN "enter" ELSE "fail"
    OBVIOUS
  <1>4. PICK next : next = [rest EXCEPT !.at = at, !.slot = s, !.user = slot[s].author]
    OBVIOUS
  <1>5. next.at = at /\ next.slot = s
    BY <1>0, <1>2, <1>4 DEF JobRow
  <1>6. /\ job[p].at = "pass" /\ Goes(p, next) /\ slot[s].state = "waiting"
        /\ slot' = [slot EXCEPT ![s].state = "claimed"] /\ UNCHANGED message
    BY <1>1, <1>2, <1>3, <1>4 DEF Claim, Claimable, Waiting
  <1>7. job[p].slot \notin Slots
    BY <1>6, FreeOfSlots DEF SendsSteps, SentSteps
  <1>8. /\ job'[p] = next /\ \A q \in Procs : q # p => job'[q] = job[q]
    BY <1>6 DEF Goes, TypeOK
  <1>9. /\ slot'[s].state = "claimed" /\ slot'[s].sent = slot[s].sent
        /\ slot'[s].told = slot[s].told /\ slot'[s].failed = slot[s].failed
        /\ \A r \in Slots : r # s => slot'[r] = slot[r]
    BY <1>0, <1>6 DEF SlotRow
  <1>10. \A r \in Slots : SentFor(r)' <=> SentFor(r)
    BY <1>6 DEF SentFor, Posted
  <1>11. KeepsPosted
    BY <1>6 DEF KeepsPosted, Posted
  <1>12. \A q \in Procs : job[q].slot # s
    BY <1>6 DEF Tended, WorksOn
  <1>13. ~ SentFor(s)
    BY <1>6, ChatAssumption DEF SendInv, SentOnce, SentFor
  <1>14. p \in Passes
    BY <1>6 DEF PassSteps
  <1>15. WorksOn(next, s)'
    BY <1>5, <1>6, <1>9, <1>10, <1>13 DEF WorksOn, SendsSteps, SentSteps, Tended, Untouched
  <1> QED BY <1>5, <1>7, <1>8, <1>9, <1>10, <1>11, <1>12, <1>14, <1>15, OneSlot

\* The pass records what it posted, writes why it could not, or tells the author.
LEMMA EndingTends ==
  ASSUME TypeOK, Tended, NEW p \in Procs, Record(p) \/ Fail(p) \/ Tell(p)
  PROVE  Tended'
  <1>0. job[p] \in JobRow /\ slot \in [Slots -> SlotRow]
    BY JobTyped, VarsTyped
  <1>1. UNCHANGED message /\ job[p].at \in {"record", "fail", "tell"}
    BY DEF Record, Fail, Tell
  <1>2. KeepsPosted /\ KeepsSent /\ \A r \in Slots : SentFor(r)' <=> SentFor(r)
    BY <1>1 DEF KeepsPosted, KeepsSent, SentFor, Posted
  <1>3. PICK next : /\ Goes(p, next) /\ next.slot \in {job[p].slot, NoSlot}
                    /\ job[p].at = "fail" => next.slot = job[p].slot /\ next.at = "tell"
                    /\ job[p].at # "fail" => next.slot = NoSlot
    <2>1. Finished(p).slot = NoSlot
      BY DEF Finished, Idle
    <2>2. [job[p] EXCEPT !.at = "tell"].at = "tell" /\ [job[p] EXCEPT !.at = "tell"].slot = job[p].slot
      BY <1>0 DEF JobRow
    <2>3. CASE Record(p) \/ Tell(p)
      BY <2>1, <2>3 DEF Record, Tell
    <2>4. CASE Fail(p)
      BY <2>2, <2>4 DEF Fail, Step
    <2> QED BY <2>3, <2>4
  <1>4. CASE job[p].slot \notin Slots
    <2>1. slot' = slot
      BY <1>0, <1>4 DEF Record, Fail, Tell
    <2> QED BY <1>2, <1>3, <1>4, <2>1, OneMoves, RowsSame, ChatAssumption
  <1>5. ASSUME NEW s \in Slots, s = job[p].slot PROVE Tended'
    <2>1. p \in Passes /\ WorksOn(job[p], s) /\ \A q \in Procs : q # p => job[q].slot # s
      BY <1>5 DEF Tended
    <2>2. job'[p] = next /\ \A q \in Procs : q # p => job'[q] = job[q]
      BY <1>3 DEF Goes, TypeOK
    <2>3. /\ \A r \in Slots : r # s => slot'[r] = slot[r]
          /\ slot'[s].state = slot[s].state
          /\ slot'[s].sent = IF job[p].at = "record" THEN job[p].msg ELSE slot[s].sent
          /\ slot'[s].failed = IF job[p].at = "fail" THEN TRUE ELSE slot[s].failed
          /\ slot'[s].told = IF job[p].at = "tell" THEN TRUE ELSE slot[s].told
      <3>1. CASE Record(p)
        <4>1. PICK m : m = job[p].msg
          OBVIOUS
        <4>2. slot' = [slot EXCEPT ![s].sent = m] /\ job[p].at = "record"
          BY <1>5, <3>1, <4>1 DEF Record
        <4>3. /\ \A r \in Slots : r # s => slot'[r] = slot[r]
              /\ slot'[s] = [slot[s] EXCEPT !.sent = m]
          BY <1>0, <4>2
        <4>4. slot[s] \in SlotRow
          BY <1>0
        <4>5. /\ slot'[s].state = slot[s].state /\ slot'[s].sent = m
              /\ slot'[s].failed = slot[s].failed /\ slot'[s].told = slot[s].told
          BY <4>3, <4>4 DEF SlotRow
        <4> QED BY <4>1, <4>2, <4>3, <4>5
      <3>2. CASE Fail(p)
        <4>1. slot' = [slot EXCEPT ![s].failed = TRUE] /\ job[p].at = "fail"
          BY <1>5, <3>2 DEF Fail
        <4>2. /\ \A r \in Slots : r # s => slot'[r] = slot[r]
              /\ slot'[s] = [slot[s] EXCEPT !.failed = TRUE]
          BY <1>0, <4>1
        <4>3. slot[s] \in SlotRow
          BY <1>0
        <4>4. /\ slot'[s].state = slot[s].state /\ slot'[s].sent = slot[s].sent /\ slot'[s].failed
              /\ slot'[s].told = slot[s].told
          BY <4>2, <4>3 DEF SlotRow
        <4>5. slot'[s].failed = TRUE
          BY <4>2, <4>3 DEF SlotRow
        <4> QED BY <4>1, <4>2, <4>4, <4>5
      <3>3. CASE Tell(p)
        <4>1. slot' = [slot EXCEPT ![s].told = TRUE] /\ job[p].at = "tell"
          BY <1>5, <3>3 DEF Tell
        <4>2. /\ \A r \in Slots : r # s => slot'[r] = slot[r]
              /\ slot'[s] = [slot[s] EXCEPT !.told = TRUE]
          BY <1>0, <4>1
        <4>3. slot[s] \in SlotRow
          BY <1>0
        <4>4. /\ slot'[s].state = slot[s].state /\ slot'[s].sent = slot[s].sent /\ slot'[s].told
              /\ slot'[s].failed = slot[s].failed
          BY <4>2, <4>3 DEF SlotRow
        <4>5. slot'[s].told = TRUE
          BY <4>2, <4>3 DEF SlotRow
        <4> QED BY <4>1, <4>2, <4>4, <4>5
      <3> QED BY <3>1, <3>2, <3>3
    <2>4. slot'[s].state = "claimed"
      BY <2>1, <2>3 DEF WorksOn
    <2>5. CASE job[p].at = "fail"
      <3>1. next.slot = s /\ next.at = "tell"
        BY <1>3, <1>5, <2>5
      <3>2. WorksOn(next, s)'
        BY <1>2, <2>1, <2>3, <2>5, <3>1 DEF WorksOn, SendsSteps, SentSteps
      <3> QED BY <1>2, <1>5, <2>1, <2>2, <2>3, <2>4, <3>1, <3>2, OneSlot
    <2>6. CASE job[p].at # "fail"
      <3>1. next.slot \notin Slots
        BY <1>3, <2>6, ChatAssumption
      <3>2. SettledRow(s)'
        <4>1. CASE job[p].at = "record"
          <5>1. SentFor(s) /\ job[p].msg \in Messages /\ ~ slot[s].told /\ ~ slot[s].failed
            BY <2>1, <4>1 DEF WorksOn, SentSteps, SentFor
          <5> QED BY <1>2, <2>3, <4>1, <5>1, ChatAssumption DEF SettledRow
        <4>2. CASE job[p].at = "tell"
          <5>1. ~ SentFor(s) /\ slot[s].sent = NoMessage /\ slot[s].failed
            BY <2>1, <4>2 DEF WorksOn, SentSteps
          <5> QED BY <1>2, <2>3, <4>2, <5>1 DEF SettledRow
        <4> QED BY <1>1, <2>6, <4>1, <4>2
      <3> QED BY <1>2, <1>5, <2>1, <2>2, <2>3, <2>4, <3>1, <3>2, OneSlot
    <2> QED BY <2>5, <2>6
  <1> QED BY <1>4, <1>5

LEMMA AloneTends ==
  ASSUME TypeOK, Tended, (\E s \in Slots : CancelScheduled(s)) \/ (\E u \in Users : Deactivate(u))
  PROVE  Tended'
  <1>1. UNCHANGED <<message, job>>
    BY DEF CancelScheduled, Deactivate
  <1>2. KeepsSent /\ \A q \in Procs : Moved(q)
    BY <1>1 DEF KeepsSent, KeepsPosted, SentFor, Posted, Moved
  <1>3. ASSUME NEW s \in Slots, CancelScheduled(s) PROVE SlotRows
    <2>1. slot \in [Slots -> SlotRow] /\ slot[s].state = "waiting" /\ Untouched(s)
      BY <1>3, VarsTyped DEF CancelScheduled, Waiting, Tended
    <2>2. /\ slot'[s].state = "cancelled" /\ slot'[s].sent = slot[s].sent /\ slot'[s].told = slot[s].told
          /\ \A r \in Slots : r # s => slot'[r] = slot[r]
      BY <1>3, <2>1 DEF CancelScheduled, SlotRow
    <2> QED BY <2>1, <2>2 DEF SlotRows, Untouched
  <1>4. SlotRows
    BY <1>3, RowsSame DEF Deactivate
  <1> QED BY <1>2, <1>4, SlotsStay DEF SlotRows

LEMMA InitTends == ASSUME Init PROVE Tended /\ PassSteps
  <1>1. /\ \A p \in Procs : job[p] = Idle
        /\ \A s \in Slots : slot[s] = NoWait
    BY DEF Init
  <1> QED BY <1>1, IdleIsQuiet, ChatAssumption DEF Tended, PassSteps, Untouched, NoWait

LEMMA NextTends ==
  ASSUME TypeOK, SendInv, PassSteps, TendedInv, [Next]_vars
  PROVE  TendedInv'
  <1> SUFFICES ASSUME faults' = 0 PROVE Tended'
    BY DEF TendedInv
  <1>1. ASSUME NEW p \in Procs, QueryFails(p) \/ PassFails(p) PROVE FALSE
    BY <1>1, VarsTyped DEF QueryFails, PassFails
  <1>2. ~ Crash
    BY VarsTyped DEF Crash
  <1>3. ASSUME faults = 0 PROVE Tended'
    <2>1. Tended
      BY <1>3 DEF TendedInv
    <2>2. ASSUME NEW p \in Procs, Progress(p) PROVE Tended'
      BY <2>1, <2>2, CommitTends, PostingTends, ClaimTends, EndingTends, RequestTends DEF Progress
    <2>3. ASSUME NEW p \in Calls, NEW u \in Users, Begin(p, u) PROVE Tended'
      BY <2>1, <2>3, BeginTends DEF Begin, Procs
    <2>4. ASSUME NEW p \in Passes, NEW due \in SUBSET Slots, PassRead(p, due) PROVE Tended'
      BY <2>1, <2>4, BeginTends DEF Procs
    <2>5. CASE UNCHANGED vars
      BY <2>1, <2>5 DEF vars, Tended, WorksOn, SentFor, Posted, Untouched, SettledRow
    <2> QED BY <1>1, <1>2, <2>1, <2>2, <2>3, <2>4, <2>5, AloneTends DEF Next
  <1>4. faults = 0
    <2>1. faults' = faults
      <3>1. ASSUME NEW p \in Procs, Progress(p) PROVE faults' = faults
        BY <3>1 DEF Progress, Commit, Audience, Emit, Mentions, Mark, Marking, Edit, Delete, Changed, AddMember,
           RemoveMember, Archive, CancelAll, Enter, Record, Fail, Tell, PassEnds, Insert, Schedule, Claim
      <3>2. ASSUME NEW p \in Calls, NEW u \in Users, Begin(p, u) PROVE faults' = faults
        BY <3>2 DEF Begin, PostCheck, ReadCall, ScheduleCheck, ArchiveCheck, AddCheck, RemoveCheck,
           AdminCheck, EditCheck, DeleteCheck, ChangeCheck
      <3> QED BY <1>1, <1>2, <3>1, <3>2 DEF Next, vars, PassRead, CancelScheduled, Deactivate
    <2> QED BY <2>1
  <1> QED BY <1>3, <1>4

LEMMA TendedSettles == TendedInv => ScheduledIsSettled
  <1> SUFFICES ASSUME Tended, NEW s \in Slots, slot[s].state = "claimed",
                      \A p \in Passes : job[p].slot # s
               PROVE  SettledRow(s)
    BY DEF TendedInv, ScheduledIsSettled, SettledRow, SentFor
  <1>1. \A p \in Procs : job[p].slot # s
    BY DEF Tended
  <1> QED BY <1>1 DEF Tended

\* ChatScheduler, "never fail silently": while no query fails and the API stays up, a claimed
\* message no pass is working on was posted and recorded, or its author was told, and never both.
THEOREM ScheduledIsNeverSilent == Spec => []ScheduledIsSettled
  <1>1. Init => TypeOK /\ SendInv /\ PassSteps /\ TendedInv
    BY InitTyped, InitSends, InitTends DEF TendedInv
  <1>2. TypeOK /\ SendInv /\ PassSteps /\ TendedInv /\ [Next]_vars
        => (TypeOK /\ SendInv /\ PassSteps /\ TendedInv)'
    BY NextTyped, NextSends, NextPasses, NextTends
  <1> QED BY <1>1, <1>2, TendedSettles, PTL DEF Spec
-----------------------------------------------------------------------------
\* The page

\* Steps that write or tell, and those that tell.
Working(row) == row.at \in {"insert", "commit", "edit", "delete", "audience", "emit"}
Tells(row) == row.at \in {"audience", "emit"}

\* The last message of the room, as its author wrote it.
IsLast(rows, m) ==
  /\ m \in Messages /\ rows[m].at > 0
  /\ \A n \in Messages : rows[n].at <= rows[m].at
  /\ rows[m].text = 0 /\ ~ rows[m].deleted

\* An event that tells what the rows hold.
IsTrue(rows, e) ==
  /\ e.id \in Messages /\ rows[e.id].at > 0
  /\ e.kind \in {"message", "edited", "deleted"}
  /\ e = EventOf(e.kind, e.id, rows[e.id])
  /\ e.kind = "message" => IsLast(rows, e.id)
  /\ e.kind = "deleted" => rows[e.id].deleted

\* What a handler in flight holds, given the rows, the clock and the Viewer's read pointer.
RowStands(row, rows, now, read) ==
  /\ row.at \in {"insert", "commit", "edit", "delete", "audience", "emit",
                 "mark", "marking", "mentions"}
  /\ row.at = "commit" =>
       /\ rows[row.msg].at = 0 /\ 0 < row.tick /\ row.tick <= now /\ read < row.tick
       /\ \A m \in Messages : rows[m].at < row.tick
  /\ row.at = "marking" => row.tick <= now
  /\ row.at \in {"edit", "delete"} => rows[row.msg].at > 0
  /\ Tells(row) => row.msg = row.event.id /\ IsTrue(rows, row.event)
  /\ row.at = "emit" => Viewer \in row.to
  /\ row.at \in {"mark", "marking"} /\ row.msg # NoMessage => IsLast(rows, row.msg)
  /\ row.at = "mentions" => IsLast(rows, row.msg)

RoomStands == members = Users /\ archived = FALSE /\ active = Users
PageTyped ==
  /\ looking \in BOOLEAN /\ reading \in BOOLEAN /\ online \in BOOLEAN /\ joined \in BOOLEAN
  /\ DOMAIN view = Messages

\* One request at a time.
OneRequest ==
  \A p \in Procs : job[p] # Idle =>
    p \in Calls /\ p = c1 /\ RowStands(job[p], message, clock, readAt[Viewer])

PostedIds == {m \in Messages : Posted(m)}
TimesGrow ==
  /\ IsFiniteSet(PostedIds)
  /\ \A m \in Messages : message[m].at <= clock
  /\ readAt[Viewer] <= clock
  /\ \A m \in Messages, n \in Messages : Posted(m) /\ message[m].at = message[n].at => m = n

\* While a message is written and told nothing is on its way to the page, and the Viewer only
\* writes while connected; the read call of a page that has since lost its connection goes on.
NoneWorks == \A p \in Procs : ~ Working(job[p])
ReadOnly(row) == row.at \in {"mark", "marking"} /\ row.msg = NoMessage
WorkIsCalm ==
  \A p \in Procs :
    /\ Working(job[p]) => Still
    /\ job[p].user = Viewer => online \/ ReadOnly(job[p])
InboxStands ==
  inbox # <<>> =>
    joined /\ online /\ fetch = NoFetch /\ NoneWorks /\ \E e : inbox = <<e>> /\ IsTrue(message, e)
AnswersStand ==
  \A m \in answers : IsLast(message, m) /\ online /\ fetch = NoFetch /\ NoneWorks
FetchStands ==
  /\ fetch # NoFetch => Quiet /\ inbox = <<>> /\ answers = {} /\ online
  /\ fetch # NoFetch => fetch.at \in {"asked", "answered"}
  /\ fetch.at = "answered" => fetch.rows = [m \in Newest |-> ViewOf(message[m])]
  /\ fetch = NoFetch => Loaded
OfflineStands == ~ online => fetch = NoFetch /\ ~ joined

\* The screen: in order, and of the newest messages each as it is or with its event under way.
InOrder(s, rows) == \A i, j \in DOMAIN s : i < j => rows[s[i]].at < rows[s[j]].at
ScreenStands ==
  Loaded => shown \in Seq(Messages) /\ ToSet(shown) \subseteq PostedIds /\ InOrder(shown, message)
Fresh(s, v, rows, m) == m \in ToSet(s) /\ v[m] = ViewOf(rows[m])
Brings(s, e, m) == e.id = m /\ (e.kind = "message" <=> m \notin ToSet(s))
Coming(m) ==
  \/ \E p \in Procs : Tells(job[p]) /\ Brings(shown, job[p].event, m)
  \/ inbox # <<>> /\ Brings(shown, inbox[1], m)
PageIsFresh ==
  online /\ fetch = NoFetch => \A m \in Newest : Fresh(shown, view, message, m) \/ Coming(m)

\* Whoever is about to move the Viewer's read pointer has had all of it on screen, but for what
\* was posted after the read call had left.
WatchStands == looking /\ Loaded => ToSet(shown) \subseteq seen
NewestSeen == \A m \in Newest : message[m].author # Viewer => m \in seen \cup crossed
ReadersSaw ==
  /\ reading => NewestSeen
  /\ \A p \in Procs : job[p].user = Viewer => NewestSeen
PointerIsSeen ==
  \A m \in Newest :
    message[m].author # Viewer /\ message[m].at <= readAt[Viewer] => m \in seen \cup crossed

\* PageMatches speaks of moments when nothing is on its way to the page; PageInv says what is on
\* its way in between.
CalmServer == RoomStands /\ OneRequest /\ TimesGrow /\ WorkIsCalm
CalmPage ==
  /\ InboxStands /\ AnswersStand /\ FetchStands /\ OfflineStands
  /\ ScreenStands /\ PageIsFresh /\ WatchStands /\ ReadersSaw /\ PointerIsSeen
PageInv == TypeOK /\ PageTyped /\ CalmServer /\ CalmPage

LEMMA PageInvHolds == PageInv => PageMatches /\ ReadIsSeen
  <1>0. PageInv => ReadIsSeen
    BY DEF PageInv, CalmPage, PointerIsSeen, ReadIsSeen
  <1> SUFFICES ASSUME PageInv, Quiet, Still
               PROVE  online /\ Loaded =>
                        /\ Newest \subseteq ToSet(shown)
                        /\ \A m \in Newest : view[m] = ViewOf(message[m])
                        /\ InOrder(shown, message)
    BY <1>0 DEF PageMatches, InOrder
  <1>1. \A p \in Procs : ~ Tells(job[p])
    BY DEF Quiet, Tells, Idle
  <1>2. inbox = <<>> /\ fetch = NoFetch
    BY DEF Still
  <1>3. online => \A m \in Newest : Fresh(shown, view, message, m)
    BY <1>1, <1>2 DEF PageInv, CalmPage, PageIsFresh, Coming
  <1> QED BY <1>3 DEF PageInv, CalmPage, ScreenStands, Fresh
LEMMA OneJob ==
  ASSUME TypeOK, OneRequest, NEW p \in Calls, p = c1, NEW next, Goes(p, next)
  PROVE  \A q \in Procs : job'[q] = IF q = c1 THEN next ELSE Idle
  BY DEF TypeOK, OneRequest, Goes, Procs

LEMMA IdleRests ==
  ~ Working(Idle) /\ ~ Tells(Idle) /\ Idle.user # Viewer /\ Idle.msg = NoMessage
  BY ChatAssumption DEF Working, Tells, Idle

LEMMA TellingWorks == ASSUME NEW row, Tells(row) PROVE Working(row)
  BY DEF Tells, Working

LEMMA NewestSame == ASSUME UNCHANGED message PROVE Newest' = Newest /\ PostedIds' = PostedIds
  BY DEF Newest, PostedIds, Posted

LEMMA NewestPosted == Newest \subseteq PostedIds
  BY DEF Newest, PostedIds

LEMMA TimesTyped ==
  ASSUME TypeOK
  PROVE  /\ \A m \in Messages : message[m].at \in Nat
         /\ \A u \in Users : readAt[u] \in Nat
         /\ clock \in Nat
  BY DEF TypeOK, MessageRow

LEMMA SeenStays ==
  ASSUME UNCHANGED message, seen \subseteq seen', crossed \subseteq crossed', NewestSeen
  PROVE  NewestSeen'
  BY NewestSame DEF NewestSeen

\* While the server rests, its part of the invariant stands.
LEMMA ServerRests ==
  ASSUME PageInv, UNCHANGED <<room, message, readAt, slot, clock, job, faults>>,
         seen \subseteq seen', crossed \subseteq crossed'
  PROVE  /\ TypeOK' /\ RoomStands' /\ OneRequest' /\ TimesGrow' /\ PointerIsSeen'
         /\ NoneWorks' = NoneWorks /\ Quiet' = Quiet
  <1> USE DEF PageInv, CalmServer, CalmPage, room
  <1>1. TypeOK'
    BY DEF TypeOK
  <1>2. RoomStands' /\ OneRequest'
    BY DEF RoomStands, OneRequest
  <1>3. TimesGrow'
    BY NewestSame DEF TimesGrow, Posted
  <1>4. PointerIsSeen'
    BY NewestSame DEF PointerIsSeen
  <1>5. NoneWorks' = NoneWorks /\ Quiet' = Quiet
    BY DEF NoneWorks, Quiet
  <1> QED BY <1>1, <1>2, <1>3, <1>4, <1>5

\* A step of the request that writes no message and sends no event.
Moves(p, next) ==
  /\ Goes(p, next)
  /\ UNCHANGED <<room, message, inbox, joined, shown, view, looking, fetch, online, seen>>
  /\ crossed \subseteq crossed'
  /\ clock' >= clock /\ readAt'[Viewer] <= clock'
  /\ readAt'[Viewer] = readAt[Viewer] \/ NewestSeen
  /\ next = Idle \/ RowStands(next, message, clock', readAt'[Viewer])
  /\ next # Idle => fetch = NoFetch
  /\ reading' \in BOOLEAN /\ (reading' => reading)
  /\ Working(next) => inbox = <<>> /\ answers' = {} /\ fetch = NoFetch /\ (online => joined)
  /\ next.user = Viewer => (online \/ ReadOnly(next)) /\ NewestSeen
  /\ \A m \in answers' : m \in answers
       \/ (IsLast(message, m) /\ online /\ fetch = NoFetch /\ ~ Working(next))
  /\ Tells(job[p]) => Tells(next) /\ next.event = job[p].event

LEMMA JobMoves ==
  ASSUME PageInv, TypeOK', NEW p \in Calls, p = c1, NEW next, Moves(p, next)
  PROVE  PageInv'
  <1> USE DEF PageInv, CalmServer, CalmPage, Moves
  <1>1. p \in Procs /\ \A q \in Procs : job'[q] = IF q = c1 THEN next ELSE Idle
    BY OneJob DEF Procs
  <1>2. \A q \in Procs : job[q] = IF q = c1 THEN job[p] ELSE Idle
    BY <1>1 DEF OneRequest
  <1>3. RoomStands' /\ PageTyped' /\ OfflineStands' /\ WatchStands'
    BY DEF RoomStands, PageTyped, room, OfflineStands, WatchStands, Loaded
  <1>4. OneRequest'
    BY <1>1 DEF OneRequest
  <1>5. TimesGrow'
    BY NewestSame, TimesTyped DEF TimesGrow, Posted, TypeOK
  <1>6. WorkIsCalm'
    <2>1. Working(next) => Still'
      BY DEF Still
    <2> QED BY <1>1, <2>1, IdleRests DEF WorkIsCalm
  <1>7. ~ Working(next) => NoneWorks'
    BY <1>1, IdleRests DEF NoneWorks
  <1>8. InboxStands' /\ AnswersStand'
    <2>1. inbox # <<>> => NoneWorks'
      BY <1>7
    <2>2. ASSUME NEW m \in answers' PROVE IsLast(message, m) /\ online /\ fetch = NoFetch /\ ~ Working(next)
      BY DEF AnswersStand
    <2> QED BY <1>7, <2>1, <2>2 DEF InboxStands, AnswersStand
  <1>9. FetchStands'
    <2>1. fetch # NoFetch => Quiet' /\ answers' = {}
      BY <1>1 DEF FetchStands, Quiet
    <2> QED BY <2>1, NewestSame DEF FetchStands, Loaded
  <1>10. ScreenStands'
    BY NewestSame DEF ScreenStands, Loaded
  <1>11. PageIsFresh'
    <2>1. ASSUME NEW m \in Newest, Coming(m) PROVE Coming(m)'
      <3>1. ASSUME NEW q \in Procs, Tells(job[q]), Brings(shown, job[q].event, m) PROVE Coming(m)'
        <4>1. q = p
          BY <1>2, <3>1, IdleRests
        <4>2. Tells(job'[q]) /\ job'[q].event = job[q].event
          BY <1>1, <4>1, <3>1
        <4> QED BY <4>2, <3>1 DEF Coming
      <3> QED BY <2>1, <3>1 DEF Coming
    <2> QED BY <2>1, NewestSame DEF PageIsFresh
  <1>12. ReadersSaw' /\ PointerIsSeen'
    <2>1. NewestSeen => NewestSeen'
      BY SeenStays
    <2>2. ReadersSaw'
      BY <1>1, <2>1, IdleRests DEF ReadersSaw
    <2>3. PointerIsSeen'
      BY NewestSame DEF PointerIsSeen, NewestSeen
    <2> QED BY <2>2, <2>3
  <1> QED BY <1>3, <1>4, <1>5, <1>6, <1>8, <1>9, <1>10, <1>11, <1>12
PageRests ==
  /\ UNCHANGED <<shown, view, looking, reading, fetch, online, seen>>
  /\ crossed \subseteq crossed' /\ (reading => JustPosted \subseteq crossed')

\* Between requests, whoever looks at the page has it all before him.
LEMMA LookingSees ==
  ASSUME PageInv, Quiet, Still, online, looking
  PROVE  NewestSeen
  <1>1. Loaded
    BY DEF PageInv, CalmPage, FetchStands, Still
  <1>2. Newest \subseteq ToSet(shown)
    BY <1>1, PageInvHolds DEF PageMatches
  <1>3. ToSet(shown) \subseteq seen
    BY <1>1 DEF PageInv, CalmPage, WatchStands
  <1> QED BY <1>2, <1>3 DEF NewestSeen

LEMMA BeginCalm ==
  ASSUME PageInv, TypeOK', NEW p \in Calls, p = c1, NEW u \in Users, Quiet, Still,
         PostCheck(p, u) \/ (\E m \in Messages : EditCheck(p, u, m) \/ DeleteCheck(p, u, m)),
         u = Viewer => online /\ looking, PageRests, UNCHANGED answers
  PROVE  PageInv'
  <1>1. u = Viewer => online /\ NewestSeen
    BY LookingSees
  <1>2. PICK next : /\ Goes(p, next)
                    /\ next.at \in {"insert", "edit", "delete"} /\ next.user = u
                    /\ next.at # "insert" => message[next.msg].at > 0
                    /\ UNCHANGED <<room, message, readAt, slot, clock, live, faults>>
    <2>1. CASE PostCheck(p, u)
      <3>1. PICK next : next = [Idle EXCEPT !.at = "insert", !.user = u]
        OBVIOUS
      <3>2. next.at = "insert" /\ next.user = u
        BY <3>1 DEF Idle
      <3> QED BY <2>1, <3>1, <3>2 DEF PostCheck
    <2>2. ASSUME NEW m \in Messages, NEW at \in {"edit", "delete"}, ChangeCheck(p, u, m, at)
          PROVE  \E next : /\ Goes(p, next)
                           /\ next.at \in {"edit", "delete"} /\ next.user = u
                           /\ message[next.msg].at > 0
                           /\ UNCHANGED <<room, message, readAt, slot, clock, live, faults>>
      <3>1. PICK next : next = [Idle EXCEPT !.at = at, !.user = u, !.msg = m]
        OBVIOUS
      <3>2. next.at = at /\ next.user = u /\ next.msg = m
        BY <3>1 DEF Idle
      <3> QED BY <2>2, <3>1, <3>2 DEF ChangeCheck, Posted
    <2> QED BY <2>1, <2>2 DEF EditCheck, DeleteCheck
  <1>4. next # Idle
    BY <1>2 DEF Idle
  <1>5. RowStands(next, message, clock, readAt[Viewer])
    BY <1>2 DEF RowStands, Tells
  <1>6. inbox = <<>> /\ answers = {} /\ fetch = NoFetch /\ (online => joined)
    BY DEF Still
  <1>7. ~ Tells(job[p])
    BY IdleRests DEF Quiet, Procs
  <1>8. clock \in Nat /\ readAt[Viewer] <= clock
    BY DEF PageInv, CalmServer, TimesGrow, TypeOK
  <1>9. reading \in BOOLEAN
    BY DEF PageInv, PageTyped
  <1>10. Moves(p, next)
    BY <1>1, <1>2, <1>4, <1>5, <1>6, <1>7, <1>8, <1>9 DEF Moves, PageRests, live
  <1> QED BY <1>10, JobMoves

\* What the invariant says of the request in flight.
LEMMA InFlight ==
  ASSUME PageInv, NEW p \in Calls, p = c1, job[p] # Idle
  PROVE  /\ p \in Procs /\ job[p] \in JobRow /\ RowStands(job[p], message, clock, readAt[Viewer])
         /\ fetch = NoFetch
         /\ job[p].user = Viewer => (online \/ ReadOnly(job[p])) /\ NewestSeen
         /\ Working(job[p]) =>
              inbox = <<>> /\ answers = {} /\ (online => joined) /\ ~ ReadOnly(job[p])
         /\ clock \in Nat /\ readAt[Viewer] <= clock /\ reading \in BOOLEAN
  <1>1. p \in Procs
    BY DEF Procs
  <1>2. job[p] \in JobRow /\ clock \in Nat /\ readAt[Viewer] <= clock /\ reading \in BOOLEAN
    BY <1>1 DEF PageInv, TypeOK, CalmServer, TimesGrow, PageTyped
  <1>3. RowStands(job[p], message, clock, readAt[Viewer])
    BY <1>1 DEF PageInv, CalmServer, OneRequest
  <1>4. fetch = NoFetch
    BY <1>1 DEF PageInv, CalmPage, FetchStands, Quiet
  <1>5. job[p].user = Viewer => (online \/ ReadOnly(job[p])) /\ NewestSeen
    BY <1>1 DEF PageInv, CalmServer, CalmPage, WorkIsCalm, ReadersSaw
  <1>6. Working(job[p]) => inbox = <<>> /\ answers = {} /\ (online => joined) /\ ~ ReadOnly(job[p])
    BY <1>1 DEF PageInv, CalmServer, WorkIsCalm, Still, ReadOnly, Working
  <1> QED BY <1>1, <1>2, <1>3, <1>4, <1>5, <1>6

LEMMA InsertCalm ==
  ASSUME PageInv, TypeOK', NEW p \in Calls, p = c1, NEW m \in Messages, Insert(p, m),
         PageRests, UNCHANGED answers
  PROVE  PageInv'
  <1>1. job[p] # Idle /\ Working(job[p])
    BY DEF Insert, Idle, Working
  <1>2. PICK next : next = [job[p] EXCEPT !.at = "commit", !.msg = m, !.tick = clock + 1]
    OBVIOUS
  <1>3. next.at = "commit" /\ next.msg = m /\ next.tick = clock + 1 /\ next.user = job[p].user
    BY <1>1, <1>2, InFlight DEF JobRow
  <1>4. RowStands(next, message, clock', readAt[Viewer])
    <2>1. clock' = clock + 1 /\ message[m].at = 0
      BY TimesTyped DEF Insert, Posted, PageInv
    <2>2. \A n \in Messages : message[n].at < clock + 1
      BY TimesTyped DEF PageInv, CalmServer, TimesGrow
    <2>3. readAt[Viewer] < clock + 1 /\ clock \in Nat
      BY TimesTyped, ChatAssumption DEF PageInv, CalmServer, TimesGrow
    <2> QED BY <1>3, <2>1, <2>2, <2>3 DEF RowStands, Tells
  <1>5. ~ Tells(job[p])
    BY DEF Insert, Tells
  <1>6. Goes(p, next) /\ UNCHANGED <<room, message, readAt, live>> /\ clock' = clock + 1
    BY <1>2 DEF Insert
  <1>7. clock' >= clock /\ readAt'[Viewer] <= clock'
    BY <1>6, TimesTyped, ChatAssumption, <1>1, InFlight DEF PageInv
  <1>8. reading \in BOOLEAN /\ fetch = NoFetch /\ inbox = <<>> /\ answers = {} /\ (online => joined)
    BY <1>1, InFlight
  <1>9. next.user = Viewer => online /\ NewestSeen
    BY <1>1, <1>3, InFlight
  <1>10. Moves(p, next)
    BY <1>4, <1>5, <1>6, <1>7, <1>8, <1>9 DEF Moves, PageRests, live
  <1> QED BY <1>10, JobMoves

LEMMA AudienceCalm ==
  ASSUME PageInv, TypeOK', NEW p \in Calls, p = c1, Audience(p), PageRests, UNCHANGED answers
  PROVE  PageInv'
  <1>1. job[p] # Idle /\ Working(job[p]) /\ Tells(job[p])
    BY DEF Audience, Idle, Working, Tells
  <1>2. PICK next : next = [job[p] EXCEPT !.at = "emit", !.to = members]
    OBVIOUS
  <1>3. /\ next.at = "emit" /\ next.to = members /\ next.user = job[p].user
        /\ next.msg = job[p].msg /\ next.event = job[p].event
    BY <1>1, <1>2, InFlight DEF JobRow
  <1>4. Goes(p, next) /\ UNCHANGED <<room, message, readAt, clock, live>>
    BY <1>2 DEF Audience
  <1>5. RowStands(next, message, clock, readAt[Viewer]) /\ Tells(next)
    <2>1. Viewer \in members
      BY ChatAssumption DEF PageInv, CalmServer, RoomStands
    <2> QED BY <1>1, <1>3, <2>1, InFlight DEF RowStands, Tells
  <1>6. reading \in BOOLEAN /\ fetch = NoFetch /\ inbox = <<>> /\ answers = {} /\ (online => joined)
    BY <1>1, InFlight
  <1>7. next.user = Viewer => online /\ NewestSeen
    BY <1>1, <1>3, InFlight
  <1>8. clock \in Nat /\ readAt[Viewer] <= clock
    BY <1>1, InFlight
  <1>9. Moves(p, next)
    BY <1>3, <1>4, <1>5, <1>6, <1>7, <1>8 DEF Moves, PageRests, live
  <1> QED BY <1>9, JobMoves
LEMMA MarkCalm ==
  ASSUME PageInv, TypeOK', NEW p \in Calls, p = c1, Mark(p), PageRests, UNCHANGED answers
  PROVE  PageInv'
  <1>1. job[p] # Idle /\ ~ Tells(job[p])
    BY DEF Mark, Idle, Tells
  <1>2. /\ reading \in BOOLEAN /\ fetch = NoFetch /\ clock \in Nat /\ readAt[Viewer] <= clock
        /\ readAt[Viewer] \in Nat /\ job[p] \in JobRow /\ RowStands(job[p], message, clock, readAt[Viewer])
    BY <1>1, InFlight, TimesTyped, ChatAssumption DEF PageInv
  <1>3. PICK next : /\ Goes(p, next) /\ clock' >= clock /\ readAt[Viewer] <= clock'
                    /\ next = Idle \/ (RowStands(next, message, clock', readAt[Viewer])
                                       /\ next.user = job[p].user
                                       /\ (ReadOnly(job[p]) => ReadOnly(next)))
                    /\ ~ Working(next)
    <2>1. CASE MayEnter(job[p].user)
      <3>1. PICK next : next = [job[p] EXCEPT !.at = "marking", !.tick = clock + 1]
        OBVIOUS
      <3>2. next.at = "marking" /\ next.tick = clock + 1 /\ next.msg = job[p].msg /\ next.user = job[p].user
        BY <1>2, <3>1 DEF JobRow
      <3>3. clock' = clock + 1 /\ Goes(p, next)
        BY <2>1, <3>1 DEF Mark
      <3>4. RowStands(next, message, clock', readAt[Viewer]) /\ ~ Working(next)
        BY <1>2, <3>2, <3>3 DEF RowStands, Tells, Mark, Working
      <3>5. ReadOnly(job[p]) => ReadOnly(next)
        BY <3>2 DEF ReadOnly
      <3> QED BY <1>2, <3>2, <3>3, <3>4, <3>5
    <2>2. CASE ~ MayEnter(job[p].user)
      <3>1. Goes(p, Idle) /\ clock' = clock
        BY <2>2, ChatAssumption DEF Mark, Thrown
      <3> QED BY <1>2, <3>1, IdleRests
    <2> QED BY <2>1, <2>2
  <1>4. next.user = Viewer => (online \/ ReadOnly(next)) /\ NewestSeen
    BY <1>1, <1>3, InFlight, IdleRests
  <1>5. Moves(p, next)
    BY <1>1, <1>2, <1>3, <1>4 DEF Moves, PageRests, live, Mark
  <1> QED BY <1>5, JobMoves

LEMMA MarkingCalm ==
  ASSUME PageInv, TypeOK', NEW p \in Calls, p = c1, Marking(p), PageRests, UNCHANGED answers
  PROVE  PageInv'
  <1>1. job[p] # Idle /\ ~ Tells(job[p])
    BY DEF Marking, Idle, Tells
  <1>2. /\ reading \in BOOLEAN /\ fetch = NoFetch /\ clock \in Nat /\ readAt[Viewer] <= clock
        /\ readAt \in [Users -> Nat] /\ Viewer \in Users /\ job[p].tick <= clock
        /\ job[p] \in JobRow /\ RowStands(job[p], message, clock, readAt[Viewer])
        /\ job[p].user = Viewer => (online \/ ReadOnly(job[p])) /\ NewestSeen
    BY <1>1, InFlight, ChatAssumption DEF PageInv, TypeOK, RowStands, Marking
  <1>3. PICK next : /\ Goes(p, next) /\ ~ Working(next)
                    /\ next = Idle \/ (next.at = "mentions" /\ next.msg = job[p].msg
                                       /\ next.user = job[p].user /\ job[p].msg # NoMessage)
    <2>1. PICK step : step = [job[p] EXCEPT !.at = "mentions"]
      OBVIOUS
    <2>2. step.at = "mentions" /\ step.msg = job[p].msg /\ step.user = job[p].user /\ ~ Working(step)
      BY <1>2, <2>1 DEF JobRow, Working
    <2>3. Goes(p, Idle) \/ (Goes(p, step) /\ job[p].msg # NoMessage)
      BY <2>1, ChatAssumption DEF Marking, Thrown, Step
    <2> QED BY <2>2, <2>3, IdleRests
  <1>4. next = Idle \/ RowStands(next, message, clock, readAt'[Viewer])
    <2>1. job[p].msg # NoMessage => IsLast(message, job[p].msg)
      BY <1>2 DEF RowStands, Marking
    <2> QED BY <1>3, <2>1 DEF RowStands, Tells
  <1>5. /\ readAt'[Viewer] <= clock
        /\ readAt'[Viewer] = readAt[Viewer] \/ NewestSeen
    BY <1>2 DEF Marking
  <1>6. next.user = Viewer => online /\ NewestSeen
    BY <1>2, <1>3, IdleRests DEF ReadOnly
  <1>7. Moves(p, next)
    BY <1>1, <1>2, <1>3, <1>4, <1>5, <1>6 DEF Moves, PageRests, live, Marking
  <1> QED BY <1>7, JobMoves

LEMMA MentionsCalm ==
  ASSUME PageInv, TypeOK', NEW p \in Calls, p = c1, Mentions(p), PageRests,
         \A m \in answers' : m \in answers \/ (m = job[p].msg /\ job[p].user = Viewer)
  PROVE  PageInv'
  <1>1. job[p] # Idle /\ ~ Tells(job[p]) /\ ~ Working(job[p])
    BY DEF Mentions, Idle, Tells, Working
  <1>2. /\ reading \in BOOLEAN /\ fetch = NoFetch /\ clock \in Nat /\ readAt[Viewer] <= clock
        /\ IsLast(message, job[p].msg) /\ (job[p].user = Viewer => online)
    BY <1>1, InFlight DEF RowStands, Mentions, ReadOnly
  <1>3. Goes(p, Idle)
    BY ChatAssumption DEF Mentions
  <1>4. Moves(p, Idle)
    BY <1>1, <1>2, <1>3, IdleRests DEF Moves, PageRests, live, Mentions
  <1> QED BY <1>4, JobMoves

LEMMA ReadArrivesCalm ==
  ASSUME PageInv, TypeOK', NEW p \in Calls, p = c1, ReadArrives(p), fetch = NoFetch
  PROVE  PageInv'
  <1>1. job[p] = Idle /\ reading /\ reading' = FALSE
    BY DEF ReadArrives, ReadCall
  <1>2. NewestSeen
    BY <1>1 DEF PageInv, CalmPage, ReadersSaw
  <1>3. PICK next : next = [Idle EXCEPT !.at = "mark", !.user = Viewer]
    OBVIOUS
  <1>4. next.at = "mark" /\ next.user = Viewer /\ next.msg = NoMessage
    BY <1>3 DEF Idle
  <1>5. RowStands(next, message, clock, readAt[Viewer]) /\ ~ Working(next) /\ ReadOnly(next)
    BY <1>4 DEF RowStands, Tells, Working, ReadOnly
  <1>6. Goes(p, next) /\ UNCHANGED <<room, message, readAt, clock, live>>
    BY <1>3 DEF ReadArrives, ReadCall
  <1>7. clock \in Nat /\ readAt[Viewer] <= clock
    BY DEF PageInv, CalmServer, TimesGrow, TypeOK
  <1>8. /\ clock' = clock /\ readAt' = readAt
        /\ UNCHANGED <<room, message, inbox, joined, shown, view, looking, fetch, online, seen, crossed, answers>>
    BY <1>6 DEF live, ReadArrives, history
  <1>9. Moves(p, next)
    <2>1. clock' >= clock /\ readAt'[Viewer] <= clock' /\ readAt'[Viewer] = readAt[Viewer]
      BY <1>7, <1>8
    <2>2. RowStands(next, message, clock', readAt'[Viewer])
      BY <1>5, <1>8
    <2>3. reading' \in BOOLEAN /\ ~ Tells(job[p])
      BY <1>1, IdleRests
    <2> QED BY <1>1, <1>2, <1>4, <1>5, <1>6, <1>8, <2>1, <2>2, <2>3, Zenon DEF Moves
  <1> QED BY <1>9, JobMoves
\* The event leaves: what was about to be told is now on its way, or there is nobody to tell.
LEMMA EmitCalm ==
  ASSUME PageInv, TypeOK', NEW p \in Calls, p = c1, Emit(p), PageRests, UNCHANGED answers
  PROVE  PageInv'
  <1> USE DEF PageInv, CalmServer, CalmPage
  <1>1. job[p] # Idle /\ Working(job[p]) /\ Tells(job[p])
    BY DEF Emit, Idle, Working, Tells
  <1>2. PICK e : e = job[p].event
    OBVIOUS
  <1>3. /\ IsTrue(message, e) /\ job[p].msg = e.id /\ Viewer \in job[p].to
        /\ inbox = <<>> /\ answers = {} /\ fetch = NoFetch /\ (online => joined)
        /\ (job[p].user = Viewer => online /\ NewestSeen)
        /\ job[p] \in JobRow /\ p \in Procs
    BY <1>1, <1>2, InFlight DEF RowStands, Emit
  <1>4. PICK next : /\ Goes(p, next) /\ ~ Working(next) /\ ~ Tells(next)
                    /\ next = Idle \/ (next.at = "mark" /\ next.msg = e.id
                                       /\ next.user = job[p].user /\ e.kind = "message")
    <2>1. PICK mark : mark = [job[p] EXCEPT !.at = "mark", !.to = {}]
      OBVIOUS
    <2>2. mark.at = "mark" /\ mark.msg = e.id /\ mark.user = job[p].user
      BY <1>3, <2>1 DEF JobRow
    <2>3. ~ Working(mark) /\ ~ Tells(mark)
      BY <2>2 DEF Working, Tells
    <2>4. p \notin Passes
      BY ChatAssumption
    <2>5. Goes(p, Idle) \/ (Goes(p, mark) /\ e.kind = "message")
      BY <1>2, <2>1, <2>4 DEF Emit, AfterEmit
    <2> QED BY <2>2, <2>3, <2>5, IdleRests
  <1>5. \A q \in Procs : job'[q] = IF q = c1 THEN next ELSE Idle
    BY <1>4, OneJob
  <1>6. \A q \in Procs : job[q] = IF q = c1 THEN job[p] ELSE Idle
    BY <1>3 DEF OneRequest
  <1>7. UNCHANGED <<room, message, readAt, clock, joined>>
    BY DEF Emit
  <1>8. RoomStands' /\ PageTyped' /\ TimesGrow'
    BY <1>7, NewestSame DEF RoomStands, room, PageTyped, PageRests, TimesGrow, Posted
  <1>9. OneRequest'
    <2>1. next = Idle \/ RowStands(next, message, clock, readAt[Viewer])
      BY <1>3, <1>4 DEF RowStands, IsTrue, Tells
    <2> QED BY <1>3, <1>5, <1>7, <2>1 DEF OneRequest
  <1>10. NoneWorks' /\ WorkIsCalm'
    BY <1>3, <1>4, <1>5, IdleRests DEF NoneWorks, WorkIsCalm, PageRests
  <1>11. IF joined THEN inbox' = <<e>> ELSE inbox' = <<>>
    BY <1>2, <1>3 DEF Emit
  <1>12. InboxStands'
    <2>1. joined => online
      BY DEF OfflineStands
    <2>2. joined \in BOOLEAN
      BY DEF PageTyped
    <2> QED BY <1>3, <1>7, <1>10, <1>11, <2>1, <2>2 DEF InboxStands, PageRests
  <1>13. AnswersStand' /\ OfflineStands'
    BY <1>3, <1>7 DEF AnswersStand, OfflineStands, PageRests
  <1>14. FetchStands'
    BY <1>3 DEF FetchStands, PageRests, Loaded, NoFetch
  <1>15. ScreenStands' /\ WatchStands'
    BY <1>7, NewestSame DEF ScreenStands, WatchStands, PageRests, Loaded
  <1>16. PageIsFresh'
    <2> SUFFICES ASSUME online, NEW m \in Newest
                 PROVE  Fresh(shown, view, message, m) \/ Coming(m)'
      BY <1>7, NewestSame DEF PageIsFresh, PageRests
    <2>1. inbox' = <<e>>
      BY <1>3, <1>11
    <2>2. Coming(m) => Brings(shown, e, m)
      <3>1. ASSUME NEW q \in Procs, Tells(job[q]), Brings(shown, job[q].event, m) PROVE Brings(shown, e, m)
        <4>1. q = p
          BY <1>6, <3>1, IdleRests
        <4> QED BY <1>2, <3>1, <4>1
      <3> QED BY <1>3, <3>1 DEF Coming
    <2>3. Brings(shown, e, m) => Coming(m)'
      BY <2>1 DEF Coming, PageRests
    <2> QED BY <1>3, <2>2, <2>3 DEF PageIsFresh
  <1>17. ReadersSaw' /\ PointerIsSeen'
    <2>1. NewestSeen => NewestSeen'
      BY <1>7, SeenStays DEF PageRests
    <2>2. next.user = Viewer => NewestSeen
      BY <1>3, <1>4, IdleRests
    <2>3. ReadersSaw'
      BY <1>5, <2>1, <2>2, IdleRests DEF ReadersSaw, PageRests
    <2>4. PointerIsSeen'
      BY <1>7, NewestSame DEF PointerIsSeen, PageRests
    <2> QED BY <2>3, <2>4
  <1> QED
    BY <1>8, <1>9, <1>10, <1>12, <1>13, <1>14, <1>15, <1>16, <1>17
\* A new message pushes others out of the newest ones and brings none back.
LEMMA NewestAfterPost ==
  ASSUME TypeOK, TypeOK', IsFiniteSet(PostedIds), NEW m \in Messages, message[m].at = 0,
         NEW row, row.at > 0, message' = [message EXCEPT ![m] = row]
  PROVE  /\ Newest' \subseteq Newest \cup {m}
         /\ PostedIds' = PostedIds \cup {m} /\ IsFiniteSet(PostedIds')
  <1>1. /\ \A n \in Messages : message[n].at \in Nat /\ message'[n].at \in Nat
        /\ \A n \in Messages : n # m => message'[n] = message[n]
        /\ message'[m] = row
    BY TimesTyped DEF TypeOK, MessageRow
  <1>2. PostedIds' = PostedIds \cup {m}
    BY <1>1 DEF PostedIds, Posted
  <1>3. IsFiniteSet(PostedIds \cup {m})
    BY FS_AddElement
  <1>4. ASSUME NEW x \in Newest', x # m PROVE x \in Newest
    <2> DEFINE Later == {n \in Messages : message[n].at > message[x].at}
               LaterNow == {n \in Messages : message'[n].at > message'[x].at}
    <2>1. x \in Messages /\ message'[x].at > 0 /\ Cardinality(LaterNow) < PageSize
      BY DEF Newest, Posted
    <2>2. message[x].at > 0
      BY <1>1, <1>4, <2>1
    <2>3. Later \subseteq LaterNow
      BY <1>1, <1>4, <2>1, <2>2
    <2>4. LaterNow \subseteq PostedIds \cup {m}
      BY <1>1, <1>2, <2>1 DEF PostedIds, Posted
    <2>5. IsFiniteSet(LaterNow)
      BY <1>3, <2>4, FS_Subset
    <2>6. IsFiniteSet(Later) /\ Cardinality(Later) <= Cardinality(LaterNow)
      BY <2>3, <2>5, FS_Subset
    <2>7. Cardinality(Later) \in Nat /\ Cardinality(LaterNow) \in Nat
      BY <2>5, <2>6, FS_CardinalityType
    <2>8. Cardinality(Later) < PageSize
      BY <2>1, <2>6, <2>7, PageAssumption
    <2> QED BY <2>1, <2>2, <2>8 DEF Newest, Posted
  <1> QED BY <1>2, <1>3, <1>4

\* An edited or deleted message keeps its place.
LEMMA NewestAfterChange ==
  ASSUME TypeOK, NEW m \in Messages, NEW row, row.at = message[m].at,
         message' = [message EXCEPT ![m] = row]
  PROVE  Newest' = Newest /\ PostedIds' = PostedIds
  <1>1. \A n \in Messages : message'[n].at = message[n].at
    BY DEF TypeOK
  <1> QED BY <1>1 DEF Newest, PostedIds, Posted

\* What the request writes of a message and is about to tell.
Writes(p, m, row, next) ==
  /\ Goes(p, next) /\ message' = [message EXCEPT ![m] = row]
  /\ next.at = "audience" /\ next.user = job[p].user /\ next.msg = m
  /\ next.event.id = m /\ IsTrue(message', next.event)
  /\ UNCHANGED <<room, readAt, clock, inbox, joined>>
  /\ \/ next.event.kind = "message" /\ message[m].at = 0
        /\ row.author = job[p].user /\ row.at > readAt[Viewer]
     \/ next.event.kind # "message" /\ message[m].at > 0
        /\ row.author = message[m].author /\ row.at = message[m].at

LEMMA WriteCalm ==
  ASSUME PageInv, TypeOK', NEW p \in Calls, p = c1, Working(job[p]), ~ Tells(job[p]),
         NEW m \in Messages, NEW row, NEW next, Writes(p, m, row, next),
         TimesGrow', Newest' \subseteq Newest \cup {m}, message[m].at > 0 => Newest' = Newest,
         PageRests, UNCHANGED answers
  PROVE  PageInv'
  <1> USE DEF PageInv, CalmServer, CalmPage
  <1>1. job[p] # Idle
    BY IdleRests
  <1>2. /\ inbox = <<>> /\ answers = {} /\ fetch = NoFetch /\ (online => joined)
        /\ (job[p].user = Viewer => online /\ NewestSeen)
        /\ Loaded /\ reading \in BOOLEAN
    BY <1>1, InFlight DEF FetchStands
  <1>3. \A q \in Procs : job'[q] = IF q = c1 THEN next ELSE Idle
    BY OneJob DEF Writes
  <1>4. \A q \in Procs : job[q] = IF q = c1 THEN job[p] ELSE Idle
    BY DEF OneRequest, Procs
  <1>5. /\ \A n \in Messages : n # m => message'[n] = message[n]
        /\ message'[m] = row
    BY DEF Writes, TypeOK
  <1>6. RoomStands' /\ PageTyped' /\ OfflineStands' /\ WatchStands'
    BY DEF Writes, RoomStands, room, PageTyped, PageRests, OfflineStands, WatchStands, Loaded
  <1>7. OneRequest'
    <2>1. RowStands(next, message', clock', readAt'[Viewer])
      BY DEF Writes, RowStands, Tells
    <2> QED BY <1>3, <2>1 DEF OneRequest
  <1>8. WorkIsCalm'
    <2>1. Still'
      BY <1>2 DEF Writes, Still, PageRests
    <2> QED BY <1>2, <1>3, <2>1, IdleRests DEF WorkIsCalm, Writes, PageRests
  <1>9. InboxStands' /\ AnswersStand'
    BY <1>2 DEF InboxStands, AnswersStand, Writes, PageRests
  <1>10. FetchStands'
    BY <1>2 DEF FetchStands, PageRests, Loaded, NoFetch
  <1>11. ScreenStands'
    <2>1. /\ \A n \in Messages : message[n].at > 0 => message'[n].at = message[n].at
          /\ shown \in Seq(Messages) /\ ToSet(shown) \subseteq PostedIds /\ InOrder(shown, message)
      BY <1>2, <1>5 DEF Writes, ScreenStands
    <2>2. \A i \in DOMAIN shown : shown[i] \in Messages /\ message[shown[i]].at > 0
      BY <2>1 DEF ToSet, PostedIds, Posted
    <2>3. InOrder(shown, message')
      BY <2>1, <2>2 DEF InOrder
    <2>4. PostedIds \subseteq PostedIds'
      BY <2>1 DEF PostedIds, Posted
    <2> QED BY <2>1, <2>3, <2>4 DEF ScreenStands, PageRests
  <1>12. PageIsFresh'
    <2> SUFFICES ASSUME online, NEW x \in Newest' PROVE Fresh(shown, view, message', x) \/ Coming(x)'
      BY DEF PageIsFresh, PageRests
    <2>1. x \in Newest => Fresh(shown, view, message, x)
      <3>1. \A q \in Procs : ~ Tells(job[q])
        BY <1>4, IdleRests
      <3> QED BY <1>2, <3>1 DEF PageIsFresh, Coming
    <2>2. CASE x # m
      <3>1. x \in Messages /\ x \in Newest
        BY <2>2 DEF Newest
      <3> QED BY <1>5, <2>1, <2>2, <3>1 DEF Fresh
    <2>3. CASE x = m
      <3>1. m \in ToSet(shown) <=> message[m].at > 0
        <4>1. m \in ToSet(shown) => message[m].at > 0
          BY <1>2 DEF ScreenStands, PostedIds, Posted
        <4>2. message[m].at > 0 => m \in ToSet(shown)
          BY <2>1, <2>3 DEF Fresh
        <4> QED BY <4>1, <4>2
      <3>2. Brings(shown, next.event, m)
        BY <3>1 DEF Brings, Writes
      <3>3. p \in Procs /\ Tells(job'[p]) /\ job'[p].event = next.event
        BY <1>3 DEF Writes, Tells, Procs
      <3> QED BY <2>3, <3>2, <3>3 DEF Coming, PageRests
    <2> QED BY <2>2, <2>3
  <1>13. ReadersSaw'
    <2>0. crossed \subseteq crossed' /\ seen' = seen
      BY DEF PageRests
    <2>1. ASSUME NewestSeen, message[m].at > 0 \/ reading \/ row.author = Viewer PROVE NewestSeen'
      <3>1. ASSUME NEW x \in Newest', message'[x].author # Viewer PROVE x \in seen' \cup crossed'
        <4>1. CASE x # m
          <5>1. x \in Newest /\ x \in Messages
            BY <4>1 DEF Newest
          <5> QED BY <1>5, <2>0, <2>1, <3>1, <4>1, <5>1 DEF NewestSeen
        <4>2. CASE x = m /\ message[m].at > 0
          BY <1>5, <2>0, <2>1, <3>1, <4>2 DEF NewestSeen, Writes
        <4>3. CASE x = m /\ reading /\ message[m].at = 0
          <5>1. Posted(m)' /\ ~ Posted(m)
            BY <3>1, <4>3 DEF Newest, Posted
          <5> QED BY <4>3, <5>1 DEF JustPosted, PageRests
        <4> QED BY <1>5, <2>1, <3>1, <4>1, <4>2, <4>3 DEF Writes
      <3> QED BY <3>1 DEF NewestSeen
    <2>2. ASSUME next.user = Viewer PROVE NewestSeen'
      BY <1>2, <2>1, <2>2 DEF Writes
    <2>3. ASSUME reading PROVE NewestSeen'
      BY <2>1, <2>3 DEF ReadersSaw
    <2> QED BY <1>3, <2>2, <2>3, IdleRests DEF ReadersSaw, PageRests
  <1>14. PointerIsSeen'
    <2> SUFFICES ASSUME NEW x \in Newest', message'[x].author # Viewer,
                        message'[x].at <= readAt[Viewer]
                 PROVE  x \in seen \cup crossed
      BY DEF PointerIsSeen, PageRests, Writes
    <2>1. CASE x # m
      <3>1. x \in Newest /\ x \in Messages
        BY <2>1 DEF Newest
      <3> QED BY <1>5, <2>1, <3>1 DEF PointerIsSeen
    <2>2. CASE x = m
      <3>1. row.at \in Nat /\ readAt[Viewer] \in Nat
        BY <1>5, TimesTyped, ChatAssumption DEF TypeOK, MessageRow
      <3>2. message[m].at > 0 /\ row.author = message[m].author /\ row.at = message[m].at
        BY <1>5, <2>2, <3>1 DEF Writes
      <3> QED BY <1>5, <2>2, <3>2 DEF PointerIsSeen
    <2> QED BY <2>1, <2>2
  <1> QED
    BY <1>6, <1>7, <1>8, <1>9, <1>10, <1>11, <1>12, <1>13, <1>14
LEMMA CommitCalm ==
  ASSUME PageInv, TypeOK', NEW p \in Calls, p = c1, Commit(p), PageRests, UNCHANGED answers
  PROVE  PageInv'
  <1>1. job[p] # Idle /\ Working(job[p]) /\ ~ Tells(job[p])
    BY DEF Commit, Idle, Working, Tells
  <1>2. PICK m \in Messages : m = job[p].msg
    BY DEF PageInv, TypeOK, Aimed, Commit, Procs
  <1>3. /\ message[m].at = 0 /\ 0 < job[p].tick /\ job[p].tick <= clock
        /\ readAt[Viewer] < job[p].tick /\ \A n \in Messages : message[n].at < job[p].tick
    BY <1>1, <1>2, InFlight DEF RowStands, Commit
  <1>4. PICK row : row = [author |-> job[p].user, at |-> job[p].tick, text |-> 0, deleted |-> FALSE,
                          slot |-> job[p].slot]
    OBVIOUS
  <1>5. PICK next : next = [job[p] EXCEPT !.at = "audience", !.event = EventOf("message", m, row)]
    OBVIOUS
  <1>6. Goes(p, next) /\ message' = [message EXCEPT ![m] = row]
        /\ UNCHANGED <<room, readAt, clock, inbox, joined>>
    BY <1>2, <1>4, <1>5 DEF Commit, live
  <1>7. /\ next.at = "audience" /\ next.user = job[p].user /\ next.msg = m
        /\ next.event = EventOf("message", m, row)
    BY <1>1, <1>2, <1>5, InFlight DEF JobRow
  <1>8. \A n \in Messages : message'[n] = IF n = m THEN row ELSE message[n]
    BY <1>6 DEF PageInv, TypeOK
  <1>9. job[p].tick \in Nat /\ \A n \in Messages : message[n].at \in Nat
    BY <1>1, InFlight, TimesTyped DEF JobRow, PageInv
  <1>10. IsLast(message', m)
    BY <1>3, <1>4, <1>8, <1>9 DEF IsLast
  <1>11. IsTrue(message', next.event) /\ next.event.id = m /\ next.event.kind = "message"
    <2>1. next.event.id = m /\ next.event.kind = "message"
      BY <1>7 DEF EventOf
    <2>2. next.event = EventOf(next.event.kind, next.event.id, message'[next.event.id])
      BY <1>7, <1>8, <2>1
    <2> QED BY <1>10, <2>1, <2>2 DEF IsTrue, IsLast
  <1>12. Writes(p, m, row, next)
    BY <1>3, <1>4, <1>6, <1>7, <1>11 DEF Writes
  <1>13. IsFiniteSet(PostedIds) /\ row.at > 0
    BY <1>3, <1>4, <1>9 DEF PageInv, CalmServer, TimesGrow
  <1>14. Newest' \subseteq Newest \cup {m} /\ IsFiniteSet(PostedIds')
    BY <1>3, <1>6, <1>13, NewestAfterPost DEF PageInv
  <1>15. TimesGrow'
    <2>1. \A n \in Messages : message'[n].at <= clock
      BY <1>3, <1>4, <1>8 DEF PageInv, CalmServer, TimesGrow
    <2>2. \A n \in Messages, k \in Messages : message'[n].at > 0 /\ message'[n].at = message'[k].at => n = k
      BY <1>3, <1>4, <1>8, <1>9 DEF PageInv, CalmServer, TimesGrow, Posted
    <2> QED BY <1>6, <1>14, <2>1, <2>2 DEF PageInv, CalmServer, TimesGrow, Posted
  <1> QED BY <1>1, <1>3, <1>12, <1>14, <1>15, WriteCalm

LEMMA ChangeCalm ==
  ASSUME PageInv, TypeOK', NEW p \in Calls, p = c1, Edit(p) \/ Delete(p), PageRests, UNCHANGED answers
  PROVE  PageInv'
  <1>1. job[p] # Idle /\ Working(job[p]) /\ ~ Tells(job[p]) /\ job[p].at \in {"edit", "delete"}
    BY DEF Edit, Delete, Idle, Working, Tells
  <1>2. PICK m \in Messages : m = job[p].msg
    BY <1>1 DEF PageInv, TypeOK, Aimed, Procs
  <1>3. message[m].at > 0 /\ message[m] \in MessageRow
    BY <1>1, <1>2, InFlight DEF RowStands, PageInv, TypeOK
  <1>4. PICK row, kind :
          /\ kind \in {"edited", "deleted"}
          /\ Changed(p, row, kind) /\ row.at = message[m].at /\ row.author = message[m].author
          /\ kind = "deleted" => row.deleted
    <2>1. CASE Edit(p)
      <3>1. PICK row : row = [message[m] EXCEPT !.text = @ + 1]
        OBVIOUS
      <3>2. row.at = message[m].at /\ row.author = message[m].author
        BY <1>3, <3>1 DEF MessageRow
      <3>3. Changed(p, row, "edited")
        BY <1>2, <2>1, <3>1 DEF Edit
      <3> QED BY <3>2, <3>3
    <2>2. CASE Delete(p)
      <3>1. PICK row : row = [message[m] EXCEPT !.deleted = TRUE]
        OBVIOUS
      <3>2. row.at = message[m].at /\ row.author = message[m].author /\ row.deleted
        BY <1>3, <3>1 DEF MessageRow
      <3>3. Changed(p, row, "deleted")
        BY <1>2, <2>2, <3>1 DEF Delete
      <3> QED BY <3>2, <3>3
    <2> QED BY <1>1, <2>1, <2>2
  <1>5. PICK next : next = [job[p] EXCEPT !.at = "audience", !.event = EventOf(kind, m, row)]
    OBVIOUS
  <1>6. Goes(p, next) /\ message' = [message EXCEPT ![m] = row]
        /\ UNCHANGED <<room, readAt, clock, inbox, joined>>
    BY <1>2, <1>4, <1>5 DEF Changed, live
  <1>7. /\ next.at = "audience" /\ next.user = job[p].user /\ next.msg = m
        /\ next.event = EventOf(kind, m, row)
    BY <1>1, <1>2, <1>5, InFlight DEF JobRow
  <1>8. \A n \in Messages : message'[n] = IF n = m THEN row ELSE message[n]
    BY <1>6 DEF PageInv, TypeOK
  <1>9. IsTrue(message', next.event) /\ next.event.id = m /\ next.event.kind # "message"
    BY <1>3, <1>4, <1>7, <1>8 DEF IsTrue, EventOf
  <1>10. Writes(p, m, row, next)
    BY <1>3, <1>4, <1>6, <1>7, <1>9 DEF Writes
  <1>11. Newest' = Newest /\ PostedIds' = PostedIds
    BY <1>4, <1>6, NewestAfterChange DEF PageInv
  <1>12. TimesGrow'
    <2>1. \A n \in Messages : message'[n].at = message[n].at
      BY <1>4, <1>8
    <2> QED BY <1>6, <1>11, <2>1 DEF PageInv, CalmServer, TimesGrow, Posted
  <1> QED BY <1>1, <1>10, <1>11, <1>12, WriteCalm
\* What the page family allows of the server: one request of the chat at a time.
LEMMA ServerSteps ==
  ASSUME PageInv, PageFamily, Server
  PROVE  /\ UNCHANGED <<joined, online>>
         /\ \/ \E p \in Calls : p = c1 /\ (Commit(p) \/ Audience(p) \/ Emit(p) \/ Mentions(p) \/ Mark(p)
                  \/ Marking(p) \/ Edit(p) \/ Delete(p) \/ \E m \in Messages : Insert(p, m))
            \/ \E p \in Calls, u \in Users :
                  /\ p = c1 /\ Quiet /\ Still /\ (u = Viewer => online /\ looking)
                  /\ PostCheck(p, u) \/ (\E m \in Messages : EditCheck(p, u, m) \/ DeleteCheck(p, u, m))
            \/ UNCHANGED <<members, archived, active, message, readAt, slot, clock, job, inbox, joined, faults>>
  <1>1. faults' # faults + 1
    BY DEF PageInv, TypeOK, PageFamily
  <1>2. UNCHANGED joined => UNCHANGED <<joined, online>>
    BY DEF Server, PageInv, PageTyped
  <1>3. \A p \in Procs : job[p] = Idle \/ (p \in Calls /\ p = c1 /\ RowStands(job[p], message, clock, readAt[Viewer]))
    BY DEF PageInv, CalmServer, OneRequest
  <1>4. ASSUME NEW p \in Procs, Progress(p)
        PROVE  /\ UNCHANGED joined
               /\ p \in Calls /\ p = c1
               /\ Commit(p) \/ Audience(p) \/ Emit(p) \/ Mentions(p) \/ Mark(p)
                  \/ Marking(p) \/ Edit(p) \/ Delete(p) \/ \E m \in Messages : Insert(p, m)
    <2>1. job[p].at # "idle"
      BY <1>4 DEF Progress, Commit, Audience, Emit, Mentions, Mark, Marking, Edit, Delete, AddMember,
                  RemoveMember, Archive, CancelAll, Enter, Record, Fail, Tell, PassEnds, Insert, Schedule, Claim
    <2>2. p \in Calls /\ p = c1 /\ RowStands(job[p], message, clock, readAt[Viewer])
      BY <1>3, <2>1 DEF Idle
    <2>3. Commit(p) \/ Audience(p) \/ Emit(p) \/ Mentions(p) \/ Mark(p)
            \/ Marking(p) \/ Edit(p) \/ Delete(p) \/ \E m \in Messages : Insert(p, m)
      BY <1>4, <2>2 DEF RowStands, Progress, AddMember, RemoveMember, Archive, CancelAll, Enter, Record,
                        Fail, Tell, PassEnds, Schedule, Claim
    <2>4. UNCHANGED joined
      BY <2>3 DEF Commit, Audience, Emit, Mentions, Mark, Marking, Edit, Delete, Insert, Changed, live
    <2> QED BY <2>2, <2>3, <2>4
  <1>5. ASSUME NEW p \in Procs, QueryFails(p) \/ PassFails(p) PROVE FALSE
    BY <1>1, <1>5 DEF QueryFails, PassFails
  <1>6. ASSUME NEW p \in Procs, NEW next, Goes(p, next) PROVE job'[p] = next
    BY <1>6 DEF Goes, PageInv, TypeOK
  <1>7. ASSUME NEW p \in Calls, job[p] = Idle, job'[p].at # "idle"
        PROVE  /\ p = c1 /\ p \in Procs /\ Quiet /\ Still
               /\ job'[p].at \notin {"schedule", "add", "remove", "archive"}
               /\ job'[p].at = "mark" => job'[p].user = Viewer
               /\ job'[p].user = Viewer /\ job'[p].at # "mark" => online /\ looking
    <2>1. job'[p] # Idle /\ p \in Procs
      BY <1>7 DEF Idle, Procs
    <2>2. p = c1
      BY <2>1 DEF PageFamily
    <2>3. reading' = reading
      BY DEF Server
    <2>4. Quiet /\ Still
      BY <1>7, <2>1, <2>3 DEF PageFamily, CalmStep
    <2>5. job'[p].user = Viewer /\ job'[p].at # "mark" => online /\ looking
      BY <1>7 DEF PageFamily, CalmStep
    <2> QED BY <1>7, <2>1, <2>2, <2>4, <2>5 DEF PageFamily
  <1>8. ASSUME NEW p \in Calls, NEW u \in Users, Begin(p, u)
        PROVE  /\ UNCHANGED joined
               /\ p = c1 /\ Quiet /\ Still /\ (u = Viewer => online /\ looking)
               /\ PostCheck(p, u) \/ (\E m \in Messages : EditCheck(p, u, m) \/ DeleteCheck(p, u, m))
    <2>0. p \in Procs
      BY DEF Procs
    <2>1. CASE PostCheck(p, u)
      <3>1. job[p] = Idle /\ job'[p] = [Idle EXCEPT !.at = "insert", !.user = u]
        BY <1>6, <2>0, <2>1 DEF PostCheck
      <3>2. job'[p].at = "insert" /\ job'[p].user = u
        BY <3>1 DEF Idle
      <3> QED BY <1>7, <2>1, <3>1, <3>2 DEF PostCheck, live
    <2> DEFINE Opens(at, v) == job[p] = Idle /\ Goes(p, [Idle EXCEPT !.at = at, !.user = v])
    <2>2. ASSUME NEW at \in {"mark", "schedule", "add", "remove", "archive"}, NEW v, Opens(at, v),
                 at = "mark" => v # Viewer
          PROVE  FALSE
      <3>1. job'[p].at = at /\ job'[p].user = v
        BY <1>6, <2>0, <2>2 DEF Idle
      <3> QED BY <1>7, <2>2, <3>1
    <2>3. ~ ReadCall(p, u)
      <3>1. u = Viewer => ~ ReadCall(p, u)
        BY DEF Server
      <3>2. ReadCall(p, u) => Opens("mark", u)
        BY DEF ReadCall
      <3> HIDE DEF Opens
      <3> QED BY <2>2, <3>1, <3>2
    <2>4. ~ ScheduleCheck(p, u) /\ ~ ArchiveCheck(p, u)
      <3>1. ScheduleCheck(p, u) => Opens("schedule", u)
        BY DEF ScheduleCheck
      <3>2. ArchiveCheck(p, u) => Opens("archive", NoOne)
        BY DEF ArchiveCheck, AdminCheck
      <3> HIDE DEF Opens
      <3> QED BY <2>2, <3>1, <3>2
    <2>5. ASSUME NEW v \in Users PROVE ~ AddCheck(p, u, v) /\ ~ RemoveCheck(p, u, v)
      <3>1. AddCheck(p, u, v) => Opens("add", v)
        BY DEF AddCheck, AdminCheck
      <3>2. RemoveCheck(p, u, v) => Opens("remove", v)
        BY DEF RemoveCheck, AdminCheck
      <3> HIDE DEF Opens
      <3> QED BY <2>2, <3>1, <3>2
    <2>6. ASSUME NEW m \in Messages, EditCheck(p, u, m) \/ DeleteCheck(p, u, m)
          PROVE  UNCHANGED joined /\ Quiet /\ Still /\ p = c1 /\ (u = Viewer => online /\ looking)
      <3>1. PICK at : at \in {"edit", "delete"} /\ ChangeCheck(p, u, m, at)
        BY <2>6 DEF EditCheck, DeleteCheck
      <3>2. job[p] = Idle /\ job'[p] = [Idle EXCEPT !.at = at, !.user = u, !.msg = m]
        BY <1>6, <2>0, <3>1 DEF ChangeCheck
      <3>3. job'[p].at = at /\ job'[p].user = u
        BY <3>2 DEF Idle
      <3> QED BY <1>7, <3>1, <3>2, <3>3 DEF ChangeCheck, live
    <2> QED BY <1>8, <2>1, <2>3, <2>4, <2>5, <2>6 DEF Begin
  <1>9. ASSUME NEW p \in Passes, NEW due \in SUBSET Slots, PassRead(p, due) PROVE FALSE
    <2>1. job'[p].at = "pass"
      BY <1>6, <1>9 DEF PassRead, Procs, Idle
    <2> QED BY <2>1 DEF PageFamily, Idle
  <1>10. ASSUME (\E s \in Slots : CancelScheduled(s)) \/ (\E u \in Users : Deactivate(u))
         PROVE  UNCHANGED <<members, archived, active, message, readAt, slot, clock, job, inbox, joined, faults>>
    BY <1>10 DEF CancelScheduled, Deactivate, PageFamily, room, live
  <1>11. ~ Crash
    BY <1>1 DEF Crash
  <1>12. Next
    BY DEF Server
  <1>13. CASE \E p \in Procs : Progress(p)
    BY <1>2, <1>4, <1>13
  <1>14. CASE \E p \in Calls, u \in Users : Begin(p, u)
    BY <1>2, <1>8, <1>14
  <1>15. CASE (\E s \in Slots : CancelScheduled(s)) \/ (\E u \in Users : Deactivate(u))
    BY <1>2, <1>10, <1>15
  <1> QED
    BY <1>5, <1>9, <1>11, <1>12, <1>13, <1>14, <1>15 DEF Next
LEMMA RestCalm ==
  ASSUME PageInv, PageRests, UNCHANGED answers,
         UNCHANGED <<members, archived, active, message, readAt, slot, clock, job, inbox, joined, faults>>
  PROVE  PageInv'
  <1> USE DEF PageInv, CalmServer, CalmPage, PageRests
  <1>1. TypeOK' /\ RoomStands' /\ OneRequest' /\ TimesGrow' /\ PointerIsSeen' /\ NoneWorks' = NoneWorks /\ Quiet' = Quiet
    BY ServerRests DEF room
  <1>2. PageTyped' /\ WorkIsCalm' /\ InboxStands' /\ AnswersStand'
    BY <1>1 DEF PageTyped, WorkIsCalm, Still, InboxStands, AnswersStand
  <1>3. FetchStands' /\ OfflineStands' /\ ScreenStands' /\ WatchStands'
    BY <1>1, NewestSame DEF FetchStands, OfflineStands, ScreenStands, WatchStands, Loaded
  <1>4. PageIsFresh' /\ ReadersSaw'
    BY NewestSame DEF PageIsFresh, Coming, ReadersSaw, NewestSeen
  <1> QED BY <1>1, <1>2, <1>3, <1>4

LEMMA ServerCalm ==
  ASSUME PageInv, TypeOK', PageFamily, Server
  PROVE  PageInv'
  <1>1. PageRests
    BY ServerSteps DEF Server, PageRests
  <1>2. ASSUME NEW p \in Calls, p = c1, Mentions(p) PROVE PageInv'
    <2>1. \A m \in answers' : m \in answers
            \/ \E q \in Calls : job[q].at = "mentions" /\ job[q].user = Viewer /\ job[q].msg = m
      BY DEF Server
    <2>2. \A q \in Calls : job[q].at = "mentions" => q = p
      BY <1>2 DEF PageInv, CalmServer, OneRequest, Procs, Idle
    <2> QED BY <1>1, <1>2, <2>1, <2>2, MentionsCalm
  <1>3. CASE ~ \E p \in Calls : p = c1 /\ Mentions(p)
    <2>1. \A p \in Calls : job[p].at = "mentions" => p = c1
      BY DEF PageInv, CalmServer, OneRequest, Procs, Idle
    <2>2. UNCHANGED answers
      BY <1>3, <2>1 DEF Server
    <2>3. ASSUME NEW p \in Calls, p = c1, NEW u \in Users, Quiet, Still, u = Viewer => online /\ looking,
                 PostCheck(p, u) \/ (\E m \in Messages : EditCheck(p, u, m) \/ DeleteCheck(p, u, m))
          PROVE  PageInv'
      BY <1>1, <2>2, <2>3, BeginCalm
    <2>4. ASSUME NEW p \in Calls, p = c1, Commit(p) \/ Audience(p) \/ Emit(p)
                   \/ Mark(p) \/ Marking(p) \/ Edit(p) \/ Delete(p) \/ \E m \in Messages : Insert(p, m)
          PROVE  PageInv'
      BY <1>1, <2>2, <2>4, CommitCalm, AudienceCalm, EmitCalm, MarkCalm, MarkingCalm, ChangeCalm, InsertCalm
    <2>5. CASE UNCHANGED <<members, archived, active, message, readAt, slot, clock, job, inbox, joined, faults>>
      BY <1>1, <2>2, <2>5, RestCalm
    <2> QED BY <1>3, <2>3, <2>4, <2>5, ServerSteps
  <1> QED BY <1>2, <1>3
\* mergeMessages: a list in the order of its times, each message once.
LEMMA OlderGrows ==
  ASSUME TypeOK, NEW S \in SUBSET Messages, IsFiniteSet(S), NEW m \in S, NEW n \in S,
         message[m].at < message[n].at
  PROVE  Cardinality(Older(S, m)) < Cardinality(Older(S, n))
  <1>1. \A k \in Messages : message[k].at \in Nat
    BY TimesTyped
  <1>2. Older(S, m) \cup {m} \subseteq Older(S, n) /\ m \notin Older(S, m)
    BY <1>1 DEF Older
  <1>3. IsFiniteSet(Older(S, n)) /\ IsFiniteSet(Older(S, m))
    <2>1. Older(S, n) \subseteq S /\ Older(S, m) \subseteq S
      BY DEF Older
    <2> QED BY <2>1, FS_Subset
  <1>4. Cardinality(Older(S, m) \cup {m}) = Cardinality(Older(S, m)) + 1
    BY <1>2, <1>3, FS_AddElement
  <1>5. Cardinality(Older(S, m) \cup {m}) <= Cardinality(Older(S, n))
    BY <1>2, <1>3, FS_Subset
  <1>6. Cardinality(Older(S, m)) \in Nat /\ Cardinality(Older(S, n)) \in Nat
    BY <1>3, FS_CardinalityType
  <1> QED BY <1>4, <1>5, <1>6

LEMMA InTimeSorts ==
  ASSUME TypeOK, NEW S \in SUBSET Messages, IsFiniteSet(S),
         \A m \in S, n \in S : message[m].at = message[n].at => m = n
  PROVE  /\ InTime(S) \in Seq(Messages) /\ InTime(S) # NoList
         /\ ToSet(InTime(S)) = S /\ InOrder(InTime(S), message)
  <1>1. PICK n \in Nat : n = Cardinality(S)
    BY FS_CardinalityType
  <1>2. ASSUME NEW m \in S PROVE Cardinality(Older(S, m)) + 1 \in 1 .. n
    <2>1. Older(S, m) \subseteq S \ {m} /\ IsFiniteSet(S \ {m})
      BY TimesTyped, FS_RemoveElement DEF Older
    <2>2. Cardinality(S \ {m}) = n - 1
      BY <1>1, FS_RemoveElement
    <2>3. IsFiniteSet(Older(S, m)) /\ Cardinality(Older(S, m)) <= n - 1
      BY <2>1, <2>2, FS_Subset
    <2>4. Cardinality(Older(S, m)) \in Nat
      BY <2>3, FS_CardinalityType
    <2> QED BY <2>3, <2>4
  <1>3. ASSUME NEW m \in S, NEW k \in S, Cardinality(Older(S, m)) = Cardinality(Older(S, k)) PROVE m = k
    <2>1. /\ Cardinality(Older(S, m)) \in Nat /\ Cardinality(Older(S, k)) \in Nat
          /\ message[m].at \in Nat /\ message[k].at \in Nat
      <3>1. Older(S, m) \subseteq S /\ Older(S, k) \subseteq S
        BY DEF Older
      <3>2. IsFiniteSet(Older(S, m)) /\ IsFiniteSet(Older(S, k))
        BY <3>1, FS_Subset
      <3> QED BY <3>2, TimesTyped, FS_CardinalityType
    <2>2. ~ message[m].at < message[k].at /\ ~ message[k].at < message[m].at
      BY <1>3, <2>1, OlderGrows
    <2> QED BY <2>1, <2>2
  <1>4. ASSUME NEW i \in 1 .. n PROVE \E m \in S : Cardinality(Older(S, m)) = i - 1
    <2> DEFINE Rank == [m \in S |-> Cardinality(Older(S, m)) + 1]
    <2>1. Rank \in [S -> 1 .. n]
      BY <1>2
    <2>2. \A m, k \in S : Rank[m] = Rank[k] => m = k
      <3>1. ASSUME NEW m \in S, NEW k \in S, Rank[m] = Rank[k] PROVE m = k
        <4>1. Cardinality(Older(S, m)) + 1 = Cardinality(Older(S, k)) + 1
          BY <3>1
        <4>2. Cardinality(Older(S, m)) + 1 \in Nat /\ Cardinality(Older(S, k)) + 1 \in Nat
          BY <1>2
        <4>3. IsFiniteSet(Older(S, m)) /\ IsFiniteSet(Older(S, k))
          <5>1. Older(S, m) \subseteq S /\ Older(S, k) \subseteq S
            BY DEF Older
          <5> QED BY <5>1, FS_Subset
        <4>4. Cardinality(Older(S, m)) = Cardinality(Older(S, k))
          BY <4>1, <4>3, FS_CardinalityType
        <4> QED BY <1>3, <4>4
      <3> QED BY <3>1
    <2>3. Rank \in Injection(S, 1 .. n)
      BY <2>1, <2>2 DEF Injection, IsInjective
    <2>4. IsFiniteSet(1 .. n) /\ Cardinality(1 .. n) = n
      BY FS_Interval
    <2>5. Rank \in Surjection(S, 1 .. n)
      <3> HIDE DEF Rank
      <3> QED BY <1>1, <2>3, <2>4, FS_Injection
    <2>6. PICK m \in S : Rank[m] = i
      BY <2>5 DEF Surjection
    <2>7. Cardinality(Older(S, m)) \in Nat
      <3>1. Older(S, m) \subseteq S
        BY DEF Older
      <3> QED BY <3>1, FS_Subset, FS_CardinalityType
    <2> QED BY <2>6, <2>7
  <1>5. PICK s : s = InTime(S)
    OBVIOUS
  <1>6. DOMAIN s = 1 .. n /\ \A i \in 1 .. n : s[i] \in S /\ Cardinality(Older(S, s[i])) = i - 1
    BY <1>1, <1>4, <1>5 DEF InTime
  <1>7. s \in Seq(Messages)
    <2>1. s \in [1 .. n -> Messages]
      BY <1>1, <1>5, <1>6 DEF InTime
    <2> QED BY <2>1
  <1>8. s # NoList
    <2>1. s = NoList => Len(s) = 1 /\ s[1] = NoMessage
      BY DEF NoList
    <2>2. \A i \in 1 .. Len(s) : s[i] \in Messages
      BY <1>7
    <2> QED BY <2>1, <2>2, ChatAssumption
  <1>9. ToSet(s) = S
    <2>1. ASSUME NEW m \in S PROVE \E i \in 1 .. n : s[i] = m
      <3>1. PICK i \in 1 .. n : i = Cardinality(Older(S, m)) + 1
        BY <1>2
      <3>2. Cardinality(Older(S, s[i])) = Cardinality(Older(S, m)) /\ s[i] \in S
        <4>1. Cardinality(Older(S, m)) \in Nat
          <5>1. Older(S, m) \subseteq S
            BY DEF Older
          <5> QED BY <5>1, FS_Subset, FS_CardinalityType
        <4> QED BY <1>6, <3>1, <4>1
      <3> QED BY <1>3, <3>2
    <2> QED BY <1>6, <2>1 DEF ToSet
  <1>10. InOrder(s, message)
    <2> SUFFICES ASSUME NEW i \in 1 .. n, NEW j \in 1 .. n, i < j
                 PROVE  message[s[i]].at < message[s[j]].at
      BY <1>6 DEF InOrder
    <2>1. /\ s[i] \in S /\ s[j] \in S
          /\ Cardinality(Older(S, s[i])) = i - 1 /\ Cardinality(Older(S, s[j])) = j - 1
      BY <1>6
    <2>2. message[s[i]].at # message[s[j]].at
      BY <2>1
    <2>3. ~ message[s[j]].at < message[s[i]].at
      BY <2>1, OlderGrows
    <2>4. message[s[i]].at \in Nat /\ message[s[j]].at \in Nat
      BY <2>1, TimesTyped
    <2> QED BY <2>2, <2>3, <2>4
  <1> QED BY <1>5, <1>7, <1>8, <1>9, <1>10
\* Steps of the page.  Between requests nothing is written and nobody reads for the Viewer.
LEMMA QuietHolds ==
  ASSUME Quiet
  PROVE  /\ NoneWorks
         /\ \A p \in Procs : ~ Working(job[p]) /\ ~ Tells(job[p]) /\ job[p].user # Viewer
  BY IdleRests DEF Quiet, NoneWorks

LEMMA LookAwayCalm == ASSUME PageInv, LookAway PROVE PageInv'
  <1> USE DEF PageInv, CalmServer, CalmPage, LookAway, history
  <1>1. TypeOK' /\ RoomStands' /\ OneRequest' /\ TimesGrow' /\ PointerIsSeen' /\ NoneWorks' = NoneWorks /\ Quiet' = Quiet
    BY ServerRests DEF vars, room
  <1>2. PageTyped' /\ WorkIsCalm' /\ InboxStands' /\ AnswersStand'
    BY <1>1 DEF PageTyped, WorkIsCalm, Still, InboxStands, AnswersStand, vars
  <1>3. FetchStands' /\ OfflineStands' /\ ScreenStands' /\ WatchStands'
    BY <1>1, NewestSame DEF FetchStands, OfflineStands, ScreenStands, WatchStands, Loaded, vars
  <1>4. PageIsFresh' /\ ReadersSaw'
    BY NewestSame DEF PageIsFresh, Coming, ReadersSaw, NewestSeen, vars
  <1> QED BY <1>1, <1>2, <1>3, <1>4

LEMMA LookBackCalm ==
  ASSUME PageInv, LookBack, Quiet, Still, online
  PROVE  PageInv'
  <1> USE DEF PageInv, CalmServer, CalmPage, LookBack, history
  <1>0. fetch = NoFetch /\ Loaded /\ inbox = <<>> /\ answers = {}
    BY DEF Still, FetchStands
  <1>1. seen' = seen \cup ToSet(shown)
    BY <1>0
  <1>2. TypeOK' /\ RoomStands' /\ OneRequest' /\ TimesGrow' /\ PointerIsSeen' /\ NoneWorks' = NoneWorks /\ Quiet' = Quiet
    BY <1>1, ServerRests DEF vars, room
  <1>3. PageTyped' /\ WorkIsCalm' /\ InboxStands' /\ AnswersStand'
    <2>1. reading' \in BOOLEAN /\ looking' \in BOOLEAN
      BY DEF PageTyped, KeepRead
    <2> QED BY <1>0, <1>2, <2>1, QuietHolds
         DEF PageTyped, WorkIsCalm, InboxStands, AnswersStand, vars
  <1>4. FetchStands' /\ OfflineStands' /\ ScreenStands' /\ WatchStands'
    BY <1>0, <1>1, NewestSame DEF FetchStands, OfflineStands, ScreenStands, WatchStands, Loaded, vars, NoFetch
  <1>5. PageIsFresh'
    BY NewestSame DEF PageIsFresh, Coming, vars
  <1>6. ReadersSaw'
    <2>1. Newest \subseteq ToSet(shown)
      BY <1>0, PageInvHolds DEF PageMatches
    <2>2. NewestSeen'
      BY <1>1, <2>1, NewestSame DEF NewestSeen, vars
    <2> QED BY <2>2 DEF ReadersSaw
  <1> QED BY <1>2, <1>3, <1>4, <1>5, <1>6

LEMMA JoinCalm == ASSUME PageInv, Join PROVE PageInv'
  <1> USE DEF PageInv, CalmServer, CalmPage, Join, pageVars, history
  <1>1. TypeOK' /\ RoomStands' /\ OneRequest' /\ TimesGrow' /\ PointerIsSeen' /\ NoneWorks' = NoneWorks /\ Quiet' = Quiet
    BY ServerRests
  <1>2. PageTyped' /\ WorkIsCalm' /\ InboxStands' /\ AnswersStand'
    BY <1>1 DEF PageTyped, WorkIsCalm, Still, InboxStands, AnswersStand
  <1>3. FetchStands' /\ OfflineStands' /\ ScreenStands' /\ WatchStands'
    BY <1>1, NewestSame DEF FetchStands, OfflineStands, ScreenStands, WatchStands, Loaded
  <1>4. PageIsFresh' /\ ReadersSaw'
    BY NewestSame DEF PageIsFresh, Coming, ReadersSaw, NewestSeen
  <1> QED BY <1>1, <1>2, <1>3, <1>4

LEMMA DropCalm == ASSUME PageInv, Drop, Quiet, Still PROVE PageInv'
  <1> USE DEF PageInv, CalmServer, CalmPage, Drop, history
  <1>0. fetch = NoFetch /\ inbox = <<>> /\ answers = {}
    BY DEF Still
  <1>1. TypeOK' /\ RoomStands' /\ OneRequest' /\ TimesGrow' /\ PointerIsSeen' /\ NoneWorks' = NoneWorks /\ Quiet' = Quiet
    BY ServerRests
  <1>2. PageTyped' /\ WorkIsCalm' /\ InboxStands' /\ AnswersStand'
    BY <1>0, <1>1, QuietHolds DEF PageTyped, WorkIsCalm, InboxStands, AnswersStand
  <1>3. FetchStands' /\ OfflineStands' /\ ScreenStands' /\ WatchStands'
    BY <1>0, <1>1, NewestSame DEF FetchStands, OfflineStands, ScreenStands, WatchStands, Loaded, NoFetch
  <1>4. PageIsFresh' /\ ReadersSaw'
    BY NewestSame DEF PageIsFresh, ReadersSaw, NewestSeen
  <1> QED BY <1>1, <1>2, <1>3, <1>4

LEMMA ReconnectCalm == ASSUME PageInv, Reconnect, Quiet, Still PROVE PageInv'
  <1> USE DEF PageInv, CalmServer, CalmPage, Reconnect, history
  <1>0. inbox = <<>> /\ answers = {}
    BY DEF Still
  <1>1. TypeOK' /\ RoomStands' /\ OneRequest' /\ TimesGrow' /\ PointerIsSeen' /\ NoneWorks' = NoneWorks /\ Quiet' = Quiet
    BY ServerRests DEF vars, room
  <1>2. PageTyped' /\ WorkIsCalm' /\ InboxStands' /\ AnswersStand'
    BY <1>0, <1>1, QuietHolds DEF PageTyped, WorkIsCalm, InboxStands, AnswersStand, vars
  <1>3. fetch'.at = "asked" /\ fetch' # NoFetch
    BY DEF NoFetch
  <1>4. FetchStands' /\ OfflineStands' /\ ScreenStands' /\ WatchStands'
    BY <1>0, <1>1, <1>3, NewestSame DEF FetchStands, OfflineStands, ScreenStands, WatchStands, Loaded, vars
  <1>5. PageIsFresh' /\ ReadersSaw'
    BY <1>3, NewestSame DEF PageIsFresh, ReadersSaw, NewestSeen, vars
  <1> QED BY <1>1, <1>2, <1>4, <1>5

LEMMA FetchReadCalm == ASSUME PageInv, FetchRead PROVE PageInv'
  <1> USE DEF PageInv, CalmServer, CalmPage, FetchRead, history
  <1>0. fetch # NoFetch
    BY DEF NoFetch
  <1>1. Quiet /\ inbox = <<>> /\ answers = {} /\ online
    BY <1>0 DEF FetchStands
  <1>2. TypeOK' /\ RoomStands' /\ OneRequest' /\ TimesGrow' /\ PointerIsSeen' /\ NoneWorks' = NoneWorks /\ Quiet' = Quiet
    BY ServerRests DEF vars, room
  <1>3. PageTyped' /\ WorkIsCalm' /\ InboxStands' /\ AnswersStand'
    BY <1>1, <1>2, QuietHolds DEF PageTyped, WorkIsCalm, InboxStands, AnswersStand, vars
  <1>4. fetch' = [at |-> "answered", rows |-> [m \in Newest |-> ViewOf(message[m])]]
    BY ChatAssumption DEF RoomStands, MayEnter
  <1>5. fetch' # NoFetch /\ fetch'.at = "answered" /\ fetch'.rows = [m \in Newest |-> ViewOf(message[m])]
    BY <1>4 DEF NoFetch
  <1>6. FetchStands'
    BY <1>1, <1>2, <1>5, NewestSame DEF FetchStands, vars
  <1>7. OfflineStands' /\ ScreenStands' /\ WatchStands'
    BY <1>1, NewestSame DEF OfflineStands, ScreenStands, WatchStands, Loaded, vars
  <1>8. PageIsFresh' /\ ReadersSaw'
    BY <1>5, NewestSame DEF PageIsFresh, ReadersSaw, NewestSeen, vars
  <1> QED BY <1>2, <1>3, <1>6, <1>7, <1>8
LEMMA FetchApplyCalm == ASSUME PageInv, FetchApply PROVE PageInv'
  <1> USE DEF PageInv, CalmServer, CalmPage
  <1>0. fetch.at = "answered" /\ fetch # NoFetch
    BY DEF FetchApply, NoFetch
  <1>1. /\ Quiet /\ inbox = <<>> /\ answers = {} /\ online
        /\ fetch.rows = [m \in Newest |-> ViewOf(message[m])]
    BY <1>0 DEF FetchStands
  <1>2. UNCHANGED <<vars, looking, answers, online, crossed>> /\ fetch' = NoFetch
    BY DEF FetchApply, Watch
  <1>3. PICK old : old = IF Loaded THEN ToSet(shown) ELSE {}
    OBVIOUS
  <1>4. PICK S : S = old \cup Newest
    OBVIOUS
  <1>5. /\ S \subseteq PostedIds /\ S \in SUBSET Messages /\ IsFiniteSet(S)
        /\ \A m \in S, n \in S : message[m].at = message[n].at => m = n
    <2>1. S \subseteq PostedIds
      BY <1>3, <1>4, NewestPosted DEF ScreenStands
    <2>2. IsFiniteSet(S)
      BY <2>1, FS_Subset DEF TimesGrow
    <2> QED BY <2>1, <2>2 DEF PostedIds, TimesGrow
  <1>6. shown' = InTime(S) /\ view' = [m \in Messages |-> IF m \in Newest THEN ViewOf(message[m]) ELSE view[m]]
    <2>1. DOMAIN fetch.rows = Newest
      BY <1>1
    <2>2. shown' = InTime(S) /\ view' = Merged(old, fetch.rows)
      BY <1>3, <1>4, <2>1 DEF FetchApply
    <2> QED BY <1>1, <2>1, <2>2 DEF Merged
  <1>7. shown' \in Seq(Messages) /\ Loaded' /\ ToSet(shown') = S /\ InOrder(shown', message)
    BY <1>5, <1>6, InTimeSorts DEF Loaded, NoList
  <1>8. seen' = IF looking THEN seen \cup S ELSE seen
    BY <1>7 DEF FetchApply, Watch
  <1>9. /\ TypeOK' /\ RoomStands' /\ OneRequest' /\ TimesGrow' /\ PointerIsSeen'
        /\ NoneWorks' = NoneWorks /\ Quiet' = Quiet
    BY <1>2, <1>8, ServerRests DEF vars, room
  <1>10. reading' \in BOOLEAN /\ (reading' => looking \/ reading)
    BY <1>1 DEF FetchApply, TellRead, PageTyped
  <1>11. PageTyped' /\ WorkIsCalm' /\ InboxStands' /\ AnswersStand'
    BY <1>1, <1>2, <1>6, <1>9, <1>10, QuietHolds
       DEF PageTyped, WorkIsCalm, InboxStands, AnswersStand, vars
  <1>12. FetchStands' /\ OfflineStands'
    BY <1>1, <1>2, <1>7 DEF FetchStands, OfflineStands, NoFetch
  <1>13. ScreenStands' /\ WatchStands'
    BY <1>2, <1>5, <1>7, <1>8, NewestSame DEF ScreenStands, WatchStands, vars
  <1>14. PageIsFresh'
    <2>1. ASSUME NEW m \in Newest PROVE Fresh(shown', view', message, m)
      BY <1>4, <1>6, <1>7 DEF Fresh, Newest
    <2> QED BY <1>2, <2>1, NewestSame DEF PageIsFresh, vars
  <1>15. ReadersSaw'
    <2>1. looking => NewestSeen'
      BY <1>2, <1>4, <1>8, NewestSame DEF NewestSeen, vars
    <2>2. reading => NewestSeen'
      BY <1>2, <1>8, SeenStays DEF ReadersSaw, vars
    <2> QED BY <1>1, <1>2, <1>10, <2>1, <2>2, QuietHolds DEF ReadersSaw, vars
  <1> QED BY <1>9, <1>11, <1>12, <1>13, <1>14, <1>15

\* The newest message goes at the end of the list.
LEMMA AppendShows ==
  ASSUME PageInv, Loaded, NEW m, IsLast(message, m)
  PROVE  /\ Appended(m) \in Seq(Messages) /\ Appended(m) # NoList
         /\ ToSet(Appended(m)) = ToSet(shown) \cup {m} /\ ToSet(Appended(m)) \subseteq PostedIds
         /\ InOrder(Appended(m), message)
  <1>1. /\ shown \in Seq(Messages) /\ shown # NoList
        /\ ToSet(shown) \subseteq PostedIds /\ InOrder(shown, message)
    BY DEF PageInv, CalmPage, ScreenStands, Loaded
  <1>2. m \in Messages /\ m \in PostedIds
    BY DEF IsLast, PostedIds, Posted
  <1>3. CASE m \in ToSet(shown)
    BY <1>1, <1>2, <1>3 DEF Appended
  <1>4. CASE m \notin ToSet(shown)
    <2>1. PICK s : s = Append(shown, m)
      OBVIOUS
    <2>2. Appended(m) = s
      BY <1>4, <2>1 DEF Appended
    <2>3. PICK n \in Nat : n = Len(shown) /\ DOMAIN shown = 1 .. n
      BY <1>1
    <2>4. /\ s \in Seq(Messages) /\ Len(s) = n + 1 /\ DOMAIN s = 1 .. (n + 1) /\ s[n + 1] = m
          /\ \A i \in 1 .. n : s[i] = shown[i]
      BY <1>1, <1>2, <2>1, <2>3
    <2>5. s # NoList
      <3>1. s = NoList => s[n + 1] = NoMessage
        <4>1. s = NoList => n = 0
          BY <2>4 DEF NoList
        <4> QED BY <4>1 DEF NoList
      <3> QED BY <1>2, <2>4, <3>1, ChatAssumption
    <2>6. ToSet(s) = ToSet(shown) \cup {m}
      BY <2>3, <2>4 DEF ToSet
    <2>7. \A i \in 1 .. n : message[shown[i]].at < message[m].at
      <3> SUFFICES ASSUME NEW i \in 1 .. n PROVE message[shown[i]].at < message[m].at
        OBVIOUS
      <3>1. shown[i] \in ToSet(shown)
        BY <2>3 DEF ToSet
      <3>2. shown[i] \in Messages /\ Posted(shown[i]) /\ shown[i] # m
        BY <1>1, <1>4, <3>1 DEF PostedIds
      <3>3. message[shown[i]].at <= message[m].at /\ message[shown[i]].at # message[m].at
        BY <1>2, <3>2 DEF IsLast, PageInv, CalmServer, TimesGrow
      <3>4. message[shown[i]].at \in Nat /\ message[m].at \in Nat
        BY <1>2, <3>2, TimesTyped DEF PageInv
      <3> QED BY <3>3, <3>4
    <2>8. InOrder(s, message)
      <3> SUFFICES ASSUME NEW i \in 1 .. (n + 1), NEW j \in 1 .. (n + 1), i < j
                   PROVE  message[s[i]].at < message[s[j]].at
        BY <2>4 DEF InOrder
      <3>1. i \in 1 .. n /\ (j \in 1 .. n \/ j = n + 1)
        OBVIOUS
      <3>2. CASE j = n + 1
        BY <2>4, <2>7, <3>1, <3>2
      <3>3. CASE j \in 1 .. n
        BY <1>1, <2>3, <2>4, <3>1, <3>3 DEF InOrder
      <3> QED BY <3>1, <3>2, <3>3
    <2> QED BY <1>1, <1>2, <2>2, <2>4, <2>5, <2>6, <2>8
  <1> QED BY <1>3, <1>4
\* The page takes in what it is told: it loses nothing of what it shows.
TakesIn ==
  /\ UNCHANGED <<room, message, readAt, slot, clock, job, joined, faults, looking, fetch, online, crossed>>
  /\ shown' \in Seq(Messages) /\ Loaded' /\ InOrder(shown', message) /\ ToSet(shown') \subseteq PostedIds
  /\ DOMAIN view' = Messages
  /\ seen' = IF looking THEN seen \cup ToSet(shown') ELSE seen
  /\ answers' \subseteq answers /\ (inbox' = inbox \/ inbox' = <<>>)
  /\ \A m \in Newest : Fresh(shown', view', message, m) \/ Coming(m)'
  /\ reading' \in BOOLEAN
  /\ reading' => reading \/ (looking /\ \A m \in Newest : Fresh(shown', view', message, m))

LEMMA TakesInCalm ==
  ASSUME PageInv, online, fetch = NoFetch, NoneWorks, TakesIn
  PROVE  PageInv'
  <1> USE DEF PageInv, CalmServer, CalmPage, TakesIn
  <1>1. seen \subseteq seen'
    OBVIOUS
  <1>2. /\ TypeOK' /\ RoomStands' /\ OneRequest' /\ TimesGrow' /\ PointerIsSeen'
        /\ NoneWorks' = NoneWorks /\ Quiet' = Quiet
    BY <1>1, ServerRests
  <1>3. PageTyped' /\ WorkIsCalm' /\ InboxStands' /\ AnswersStand'
    BY <1>2 DEF PageTyped, WorkIsCalm, NoneWorks, InboxStands, AnswersStand
  <1>4. FetchStands' /\ OfflineStands'
    BY DEF FetchStands, OfflineStands, NoFetch
  <1>5. ScreenStands' /\ WatchStands'
    BY NewestSame DEF ScreenStands, WatchStands
  <1>6. PageIsFresh'
    BY NewestSame DEF PageIsFresh
  <1>7. ReadersSaw'
    <2>1. NewestSeen => NewestSeen'
      BY <1>1, SeenStays
    <2>2. ASSUME looking, \A m \in Newest : Fresh(shown', view', message, m) PROVE NewestSeen'
      BY <2>2, NewestSame DEF NewestSeen, Fresh
    <2>3. reading' => NewestSeen'
      BY <2>1, <2>2 DEF ReadersSaw
    <2> QED BY <2>1, <2>3 DEF ReadersSaw
  <1> QED BY <1>2, <1>3, <1>4, <1>5, <1>6, <1>7

LEMMA AnsweredCalm == ASSUME PageInv, NEW m \in Messages, Answered(m) PROVE PageInv'
  <1>1. IsLast(message, m) /\ online /\ fetch = NoFetch /\ NoneWorks
    BY DEF PageInv, CalmPage, AnswersStand, Answered
  <1>2. Loaded
    BY <1>1 DEF PageInv, CalmPage, FetchStands
  <1>3. PICK s : s = Appended(m)
    OBVIOUS
  <1>4. /\ s \in Seq(Messages) /\ s # NoList /\ ToSet(s) = ToSet(shown) \cup {m}
        /\ ToSet(s) \subseteq PostedIds /\ InOrder(s, message)
    BY <1>1, <1>2, <1>3, AppendShows
  <1>5. shown' = s /\ Loaded'
    BY <1>3, <1>4 DEF Answered, Loaded
  <1>6. DOMAIN view' = Messages /\ \A x \in Messages : view'[x] = IF x = m /\ m \notin ToSet(shown) THEN Blank ELSE view[x]
    BY <1>2 DEF Answered, PageInv, PageTyped
  <1>7. Blank = ViewOf(message[m])
    <2>1. message[m].deleted = FALSE /\ message[m].text = 0
      BY <1>1 DEF IsLast, PageInv, TypeOK, MessageRow
    <2> QED BY <2>1 DEF Blank, ViewOf
  <1>8. UNCHANGED <<vars, looking, reading, fetch, online, crossed>>
    BY DEF Answered, Watch
  <1>9. ASSUME NEW x \in Newest PROVE Fresh(shown', view', message, x) \/ Coming(x)'
    <2>1. x \in Messages
      BY DEF Newest
    <2>2. Fresh(shown, view, message, x) \/ Coming(x)
      BY <1>1 DEF PageInv, CalmPage, PageIsFresh
    <2>3. CASE Fresh(shown, view, message, x)
      BY <1>4, <1>5, <1>6, <2>1, <2>3 DEF Fresh
    <2>4. CASE x = m /\ m \notin ToSet(shown)
      BY <1>4, <1>5, <1>6, <1>7, <2>1, <2>4 DEF Fresh
    <2>5. CASE ~ Fresh(shown, view, message, x) /\ ~ (x = m /\ m \notin ToSet(shown))
      <3>1. x \in ToSet(shown') <=> x \in ToSet(shown)
        BY <1>4, <1>5, <2>5
      <3>2. \A e : Brings(shown, e, x) <=> Brings(shown', e, x)
        BY <3>1 DEF Brings
      <3>3. Coming(x)'
        BY <1>8, <2>2, <2>5, <3>2 DEF Coming, vars
      <3> QED BY <3>3
    <2> QED BY <2>3, <2>4, <2>5
  <1>10. seen' = IF looking THEN seen \cup ToSet(shown') ELSE seen
    BY <1>5 DEF Answered, Watch
  <1>11. answers' \subseteq answers
    BY DEF Answered
  <1>12. TakesIn
    BY <1>4, <1>5, <1>6, <1>8, <1>9, <1>10, <1>11 DEF TakesIn, vars, room, PageInv, PageTyped
  <1> QED BY <1>1, <1>12, TakesInCalm

LEMMA HearCalm == ASSUME PageInv, Hear PROVE PageInv'
  <1>1. PICK e : inbox = <<e>> /\ IsTrue(message, e)
    BY DEF PageInv, CalmPage, InboxStands, Hear
  <1>2. joined /\ online /\ fetch = NoFetch /\ NoneWorks /\ Loaded
    BY DEF PageInv, CalmPage, InboxStands, FetchStands, Hear
  <1>3. Head(inbox) = e /\ inbox[1] = e /\ inbox' = <<>>
    BY <1>1 DEF Hear
  <1>4. PICK m \in Messages : m = e.id
    BY <1>1 DEF IsTrue
  <1>5. ViewOf(e) = ViewOf(message[m]) /\ (e.kind = "deleted" => ViewOf(message[m]) = [text |-> 0, deleted |-> TRUE])
    <2>1. e = EventOf(e.kind, m, message[m]) /\ (e.kind = "deleted" => message[m].deleted)
      BY <1>1, <1>4 DEF IsTrue
    <2>2. e.text = message[m].text /\ e.deleted = message[m].deleted
      BY <2>1 DEF EventOf
    <2>3. message[m].deleted \in BOOLEAN
      BY DEF PageInv, TypeOK, MessageRow
    <2> QED BY <2>1, <2>2, <2>3 DEF ViewOf
  <1>6. PICK s : s = IF e.kind = "message" THEN Appended(m) ELSE shown
    OBVIOUS
  <1>7. /\ shown' = s
        /\ view' = [view EXCEPT ![m] = ViewOf(message[m])] \/ view' = view
        /\ e.kind = "message" /\ m \notin ToSet(shown) => view' = [view EXCEPT ![m] = ViewOf(message[m])]
        /\ e.kind # "message" /\ m \in ToSet(shown) => view' = [view EXCEPT ![m] = ViewOf(message[m])]
        /\ TellRead \/ KeepRead
    <2>1. e.kind \in {"message", "edited", "deleted"}
      BY <1>1 DEF IsTrue
    <2>2. CASE e.kind = "message"
      BY <1>2, <1>3, <1>4, <1>5, <1>6, <2>2 DEF Hear
    <2>3. CASE e.kind = "edited"
      BY <1>2, <1>3, <1>4, <1>5, <1>6, <2>3 DEF Hear
    <2>4. CASE e.kind = "deleted"
      BY <1>2, <1>3, <1>4, <1>5, <1>6, <2>4 DEF Hear
    <2> QED BY <2>1, <2>2, <2>3, <2>4
  <1>8. /\ s \in Seq(Messages) /\ s # NoList /\ ToSet(s) \subseteq PostedIds /\ InOrder(s, message)
        /\ ToSet(s) = IF e.kind = "message" THEN ToSet(shown) \cup {m} ELSE ToSet(shown)
    <2>1. CASE e.kind = "message"
      <3>1. IsLast(message, m)
        BY <1>1, <1>4, <2>1 DEF IsTrue
      <3> QED BY <1>2, <1>6, <2>1, <3>1, AppendShows
    <2>2. CASE e.kind # "message"
      BY <1>2, <1>6, <2>2 DEF PageInv, CalmPage, ScreenStands, Loaded
    <2> QED BY <2>1, <2>2
  <1>9. /\ DOMAIN view' = Messages
        /\ \A x \in Messages : view'[x] = view[x] \/ (x = m /\ view'[x] = ViewOf(message[m]))
        /\ (e.kind = "message" <=> m \notin ToSet(shown)) => view'[m] = ViewOf(message[m])
    BY <1>7 DEF PageInv, PageTyped
  <1>10. ASSUME NEW x \in Newest PROVE Fresh(shown', view', message, x)
    <2>1. x \in Messages
      BY DEF Newest
    <2>2. \A p \in Procs : ~ Tells(job[p])
      BY <1>2, TellingWorks DEF NoneWorks
    <2>3. Fresh(shown, view, message, x) \/ Brings(shown, e, x)
      BY <1>2, <1>3, <2>2 DEF PageInv, CalmPage, PageIsFresh, Coming
    <2>4. CASE Fresh(shown, view, message, x)
      BY <1>7, <1>8, <1>9, <2>1, <2>4 DEF Fresh
    <2>5. CASE Brings(shown, e, x)
      BY <1>4, <1>7, <1>8, <1>9, <2>5 DEF Brings, Fresh
    <2> QED BY <2>3, <2>4, <2>5
  <1>11. seen' = IF looking THEN seen \cup ToSet(shown') ELSE seen
    BY <1>7, <1>8 DEF Hear, Watch, Loaded
  <1>12. reading' \in BOOLEAN /\ (reading' => reading \/ looking)
    <2>1. reading \in BOOLEAN /\ (TellRead \/ KeepRead)
      BY <1>7 DEF PageInv, PageTyped
    <2>2. (looking /\ reading' = TRUE) \/ reading' = reading
      BY <2>1 DEF TellRead, KeepRead
    <2>3. CASE looking /\ reading' = TRUE
      BY <2>3
    <2>4. CASE reading' = reading
      BY <2>1, <2>4, Zenon
    <2> QED BY <2>2, <2>3, <2>4
  <1>13. UNCHANGED <<room, message, readAt, slot, clock, job, joined, faults, looking, fetch, answers, online, crossed>>
    BY DEF Hear, Watch
  <1>14. TakesIn
    BY <1>3, <1>7, <1>8, <1>9, <1>10, <1>11, <1>12, <1>13 DEF TakesIn, Loaded
  <1> QED BY <1>2, <1>14, TakesInCalm
LEMMA PageFamilyCalm == ASSUME PageInv, TypeOK', PageFamily PROVE PageInv'
  <1>1. CASE Server
    BY <1>1, ServerCalm
  <1>2. ASSUME looking' # looking PROVE Quiet /\ Still /\ (looking' => online)
    BY <1>2 DEF PageFamily, CalmStep
  <1>3. ASSUME online' # online PROVE Quiet /\ Still
    BY <1>3 DEF PageFamily, CalmStep
  <1>4. CASE LookBack
    <2>1. looking' # looking /\ looking'
      BY <1>4 DEF LookBack
    <2> QED BY <1>2, <1>4, <2>1, LookBackCalm
  <1>5. CASE Drop
    <2>1. online' # online
      BY <1>5 DEF Drop
    <2> QED BY <1>3, <1>5, <2>1, DropCalm
  <1>6. CASE Reconnect
    <2>1. online' # online
      BY <1>6 DEF Reconnect
    <2> QED BY <1>3, <1>6, <2>1, ReconnectCalm
  <1>7. ASSUME NEW p \in Calls, ReadArrives(p) PROVE PageInv'
    <2>0. p \in Procs /\ job \in [Procs -> JobRow]
      BY DEF Procs, PageInv, TypeOK
    <2>1. PICK next : next = [Idle EXCEPT !.at = "mark", !.user = Viewer]
      OBVIOUS
    <2>2. next # Idle
      BY <2>1 DEF Idle
    <2>3. job'[p] # Idle
      BY <1>7, <2>0, <2>1, <2>2 DEF ReadArrives, ReadCall, Goes
    <2>4. p = c1
      BY <2>3 DEF PageFamily
    <2>5. job[p] = Idle /\ fetch = NoFetch
      BY <1>7, <2>0, <2>3 DEF ReadArrives, ReadCall, PageFamily, CalmStep
    <2> QED BY <1>7, <2>4, <2>5, ReadArrivesCalm
  <1> QED
    BY <1>1, <1>4, <1>5, <1>6, <1>7, FetchReadCalm, FetchApplyCalm, HearCalm, LookAwayCalm, JoinCalm,
       AnsweredCalm DEF PageFamily, PageNext, PageStep

LEMMA InitCalm == ASSUME MCInit, mode = "page" PROVE PageInv
  <1> USE DEF MCInit, Init, PageInit
  <1>1. \A m \in Messages : message[m].at = 0
    BY DEF NoRow
  <1>2. PostedIds = {} /\ Newest = {}
    BY <1>1 DEF PostedIds, Newest, Posted
  <1>3. TypeOK /\ PageTyped /\ RoomStands /\ Quiet
    BY InitTyped DEF PageTyped, RoomStands, Quiet
  <1>4. TimesGrow
    BY <1>1, <1>2, FS_EmptySet, ChatAssumption DEF TimesGrow, Posted
  <1>5. OneRequest /\ WorkIsCalm
    BY <1>3, QuietHolds DEF OneRequest, WorkIsCalm, Quiet
  <1>6. fetch.at = "asked" /\ fetch # NoFetch /\ ~ Loaded
    BY DEF NoFetch, Loaded
  <1>7. InboxStands /\ AnswersStand /\ FetchStands /\ OfflineStands /\ ScreenStands
    BY <1>3, <1>6 DEF InboxStands, AnswersStand, FetchStands, OfflineStands, ScreenStands
  <1>8. PageIsFresh /\ WatchStands /\ ReadersSaw /\ PointerIsSeen
    BY <1>2, <1>6 DEF PageIsFresh, WatchStands, ReadersSaw, PointerIsSeen, NewestSeen
  <1> QED BY <1>3, <1>4, <1>5, <1>7, <1>8 DEF PageInv, CalmServer, CalmPage

LEMMA MCTyped == ASSUME TypeOK, [MCNext]_<<vars, pageVars, mode>> PROVE TypeOK'
  <1>1. ASSUME Server PROVE TypeOK'
    BY <1>1, NextTyped DEF Server
  <1>2. ASSUME NEW p \in Calls, ReadArrives(p) PROVE TypeOK'
    <2>1. Begin(p, Viewer)
      BY <1>2 DEF ReadArrives, Begin
    <2> QED BY <2>1, ChatAssumption, NextTyped DEF Next
  <1>3. ASSUME FetchRead \/ FetchApply \/ Hear \/ LookBack \/ LookAway \/ Join \/ Drop \/ Reconnect
                 \/ \E m \in Messages : Answered(m)
        PROVE  TypeOK'
    <2>1. UNCHANGED <<members, archived, active, message, readAt, slot, clock, job, faults>>
      BY <1>3 DEF FetchRead, FetchApply, Hear, LookBack, LookAway, Join, Drop, Reconnect, Answered, vars, room
    <2> QED BY <2>1 DEF TypeOK
  <1>4. CASE UNCHANGED <<vars, pageVars, mode>>
    BY <1>4 DEF vars, TypeOK
  <1>5. CASE MCNext
    <2>1. Server \/ PageStep
      BY <1>5 DEF MCNext, SchedulerStep, PageFamily, PageNext
    <2> QED BY <1>1, <1>2, <1>3, <2>1 DEF PageStep
  <1> QED BY <1>4, <1>5

\* In the families of MCChat: the page follows the room, whatever the order of events.
PageFollows == TypeOK /\ (mode = "page" => PageInv)

LEMMA PageFollowsInit == MCInit => PageFollows
  BY InitTyped, InitCalm DEF PageFollows, MCInit

LEMMA PageFollowsNext == ASSUME PageFollows, [MCNext]_<<vars, pageVars, mode>> PROVE PageFollows'
  <1>1. TypeOK'
    BY MCTyped DEF PageFollows
  <1>2. mode' = mode
    BY DEF MCNext
  <1>3. ASSUME mode = "page", MCNext PROVE PageInv'
    BY <1>1, <1>3, PageFamilyCalm DEF MCNext, PageFollows
  <1>4. ASSUME mode = "page", UNCHANGED <<vars, pageVars, mode>> PROVE PageInv'
    <2>1. JustPosted = {}
      BY <1>4 DEF JustPosted, Posted, vars
    <2>2. PageRests
      BY <1>4, <2>1 DEF PageRests, pageVars, history
    <2> QED BY <1>4, <2>2, RestCalm DEF PageFollows, vars, room, pageVars
  <1> QED BY <1>1, <1>2, <1>3, <1>4 DEF PageFollows

\* Chat page, "fold in whatever was posted, edited or deleted while we were offline": with any
\* number of messages and edits and any size of a fetch, once nothing is on its way the page
\* shows the newest messages, each once, in order, as the server holds them.
THEOREM PageFollowsRoom == MCSpec => []PageMatchesServer
  <1>1. PageFollows => PageMatchesServer
    BY PageInvHolds DEF PageFollows, PageMatchesServer
  <1>2. PageFollows /\ [MCNext]_<<vars, pageVars, mode>> => PageFollows'
    BY PageFollowsNext
  <1> QED BY <1>1, <1>2, PageFollowsInit, PTL DEF MCSpec

\* "A message only counts as read when someone is actually looking at it": in the page's family
\* (CalmStep) no read call, whether of the page or of one's own post, moves the pointer over a
\* message that was never on screen before somebody who looked, but for those posted while a read
\* call of the page was on its way, whatever is posted and dropped meanwhile.
THEOREM ReadMeansSeen == MCSpec => []ReadWasSeen
  <1>1. PageFollows => ReadWasSeen
    BY PageInvHolds DEF PageFollows, ReadWasSeen
  <1>2. PageFollows /\ [MCNext]_<<vars, pageVars, mode>> => PageFollows'
    BY PageFollowsNext
  <1> QED BY <1>1, <1>2, PageFollowsInit, PTL DEF MCSpec
=============================================================================

---------------------------- MODULE TasksProofs ----------------------------
(***************************************************************************)
(* What TasksProperties states, and RemindersProperties of its notices,    *)
(* proved for any staff, tasks and number of concurrent requests.          *)
(***************************************************************************)
EXTENDS TasksProperties, RemindersProperties, TLAPS

\* A row the code may write: a legal move, or the pool return of a leaver's task.
LegalRow(row) ==
  \/ \E move \in MovesFrom(row.from) : move.action = row.action /\ move.to = row.to
  \/ row.action = "REASSIGN" /\ row.to = "ASSIGNED"

RowsAreMoves == \A t \in Tasks : \A i \in DOMAIN history[t] : LegalRow(history[t][i])

IInv == TypeOK /\ HistoryExplainsStatus /\ CallsComeFromHistory /\ RowsAreMoves

-----------------------------------------------------------------------------
\* Facts about the table

LEMMA TableIsTyped ==
  ASSUME NEW from \in Statuses, NEW move \in MovesFrom(from)
  PROVE  /\ move.from = from /\ move.action \in Actions /\ move.to \in Statuses
         /\ move.actors \in SUBSET {"ASSIGNEE", "MANAGER", "TEAM_LEAD"}
  BY DEF MovesFrom, TaskTransitions, Transition, Statuses, Actions

LEMMA AppendFacts ==
  ASSUME NEW S, NEW s \in Seq(S), NEW e \in S
  PROVE  /\ Append(s, e) \in Seq(S) /\ Append(s, e) # <<>>
         /\ DOMAIN s = 1 .. Len(s) /\ Len(s) \in Nat
         /\ Len(Append(s, e)) = Len(s) + 1
         /\ DOMAIN Append(s, e) = 1 .. Len(s) + 1
         /\ Append(s, e)[Len(s) + 1] = e
         /\ \A i \in 1 .. Len(s) : Append(s, e)[i] = s[i]
  OBVIOUS

-----------------------------------------------------------------------------
\* Type correctness

LEMMA InitTyped == ASSUME Init PROVE TypeOK
  <1>1. call \in [Calls -> CallState]
    BY DEF Init, CallState
  <1> QED
    BY <1>1, StaffAssumption DEF Init, TypeOK

LEMMA BecomeTyped ==
  ASSUME TypeOK, NEW p, NEW next \in CallState, Become(p, next)
  PROVE  call' \in [Calls -> CallState]
  BY DEF TypeOK, Become

LEMMA StepTyped == ASSUME TypeOK, [Next]_vars PROVE TypeOK'
  <1> USE DEF TypeOK
  <1> Idle \in CallState
    BY DEF CallState
  <1>1. ASSUME NEW p \in Calls, Create(p) PROVE TypeOK'
    BY <1>1 DEF Create, Statuses
  <1>2. ASSUME NEW p \in Calls, Load(p) PROVE TypeOK'
    <2>1. PICK t \in Tasks, u \in active :
            /\ status[t] # "none"
            /\ \E move \in MovesFrom(status[t]), a \in Users \cup {NoOne} :
                 Become(p, [at |-> "move", task |-> t, from |-> move.from, action |-> move.action,
                            to |-> move.to, assignee |-> a])
      BY <1>2 DEF Load
    <2>2. status[t] \in Statuses
      BY <2>1
    <2>3. PICK move \in MovesFrom(status[t]), a \in Users \cup {NoOne} :
            Become(p, [at |-> "move", task |-> t, from |-> move.from, action |-> move.action,
                       to |-> move.to, assignee |-> a])
      BY <2>1
    <2>4. move.from \in Statuses /\ move.action \in Actions /\ move.to \in Statuses
      BY <2>2, TableIsTyped
    <2>5. [at |-> "move", task |-> t, from |-> move.from, action |-> move.action,
           to |-> move.to, assignee |-> a] \in MoveCall
      BY <2>4 DEF MoveCall
    <2>6. call' \in [Calls -> CallState]
      BY <2>3, <2>5, BecomeTyped DEF CallState
    <2> QED
      BY <1>2, <2>6 DEF Load, database
  <1>3. ASSUME NEW p \in Calls, Write(p) PROVE TypeOK'
    <2>1. call[p] \in MoveCall
      BY <1>3 DEF Write, CallState, Idle, MoveCall, LeaverCall, PoolCall
    <2> DEFINE c == call[p]
               row == [from |-> c.from, action |-> c.action, to |-> c.to]
    <2>2. /\ c.task \in Tasks /\ c.to \in Statuses /\ c.assignee \in Users \cup {NoOne}
          /\ row \in HistoryRow
      BY <2>1 DEF MoveCall, HistoryRow
    <2>3. status' = [status EXCEPT ![c.task] = c.to]
      BY <1>3 DEF Write
    <2>4. history' = [history EXCEPT ![c.task] = Append(history[c.task], row)]
      BY <1>3 DEF Write
    <2>5. assignee' = [assignee EXCEPT ![c.task] = c.assignee] \/ assignee' = assignee
      BY <1>3 DEF Write
    <2>6. Append(history[c.task], row) \in Seq(HistoryRow)
      BY <2>2, AppendFacts
    <2>7. call' \in [Calls -> CallState]
      BY <1>3, BecomeTyped DEF Write
    <2> HIDE DEF c, row
    <2>8. history' \in [Tasks -> Seq(HistoryRow)]
      BY <2>2, <2>4, <2>6
    <2>9. status' \in [Tasks -> Statuses \cup {"none"}] /\ assignee' \in [Tasks -> Users \cup {NoOne}]
      BY <2>2, <2>3, <2>5
    <2> QED
      BY <1>3, <2>7, <2>8, <2>9 DEF Write
  <1>4. ASSUME NEW p \in Calls, Deactivate(p) PROVE TypeOK'
    <2>1. PICK u \in active : active' = active \ {u} /\ Become(p, [at |-> "open", user |-> u])
      BY <1>4 DEF Deactivate
    <2>2. [at |-> "open", user |-> u] \in CallState
      BY <2>1 DEF CallState, LeaverCall
    <2>3. call' \in [Calls -> CallState]
      BY <2>1, <2>2, BecomeTyped
    <2> QED
      BY <1>4, <2>1, <2>3 DEF Deactivate
  <1>5. ASSUME NEW p \in Calls, ReadOpenTasks(p) PROVE TypeOK'
    <2> DEFINE open == OpenTasksOf(call[p].user)
               from == [t \in Tasks |-> IF t \in open THEN status[t] ELSE "DRAFT"]
    <2>1. open \in SUBSET Tasks /\ from \in [Tasks -> Statuses]
      BY DEF OpenTasksOf, Statuses
    <2>2. [at |-> "pool", todo |-> open, from |-> from] \in CallState
      BY <2>1 DEF CallState, PoolCall
    <2>3. call' \in [Calls -> CallState]
      BY <1>5, <2>2, BecomeTyped DEF ReadOpenTasks
    <2> QED
      BY <1>5, <2>3 DEF ReadOpenTasks, database
  <1>6. ASSUME NEW p \in Calls, ReturnToPool(p) PROVE TypeOK'
    <2>1. call[p] \in PoolCall
      BY <1>6 DEF ReturnToPool, CallState, Idle, MoveCall, LeaverCall, PoolCall
    <2>2. PICK t \in call[p].todo :
            /\ status' = [status EXCEPT ![t] = "ASSIGNED"]
            /\ assignee' = [assignee EXCEPT ![t] = NoOne]
            /\ history' = [history EXCEPT ![t] =
                 Append(history[t], [from |-> call[p].from[t], action |-> "REASSIGN", to |-> "ASSIGNED"])]
            /\ Become(p, IF call[p].todo = {t} THEN Idle
                         ELSE [call[p] EXCEPT !.todo = call[p].todo \ {t}])
      BY <1>6 DEF ReturnToPool
    <2> DEFINE row == [from |-> call[p].from[t], action |-> "REASSIGN", to |-> "ASSIGNED"]
    <2>3. t \in Tasks /\ row \in HistoryRow
      BY <2>1, <2>2 DEF PoolCall, HistoryRow, Statuses, Actions
    <2>4. Append(history[t], row) \in Seq(HistoryRow)
      BY <2>3, AppendFacts
    <2>5. [call[p] EXCEPT !.todo = call[p].todo \ {t}] \in PoolCall
      BY <2>1 DEF PoolCall
    <2>6. call' \in [Calls -> CallState]
      BY <2>2, <2>5, BecomeTyped DEF CallState
    <2> HIDE DEF row
    <2>7. history' \in [Tasks -> Seq(HistoryRow)]
      BY <2>2, <2>3, <2>4 DEF row
    <2>8. status' \in [Tasks -> Statuses \cup {"none"}] /\ assignee' \in [Tasks -> Users \cup {NoOne}]
      BY <2>2, <2>3 DEF Statuses
    <2> QED
      BY <1>6, <2>6, <2>7, <2>8 DEF ReturnToPool
  <1>7. ASSUME NEW p \in Calls, Appoint(p) PROVE TypeOK'
    BY <1>7, StaffAssumption DEF Appoint
  <1>8. CASE UNCHANGED vars
    BY <1>8 DEF vars
  <1> QED
    BY <1>1, <1>2, <1>3, <1>4, <1>5, <1>6, <1>7, <1>8 DEF Next, MemberStep, OfficerStep

\* Every task, history row and request in flight keeps the shape of the schema:
\* no racing transition, assignment or pool return writes a status that does not exist.
THEOREM TypeCorrect == Spec => []TypeOK
  <1>1. Init => TypeOK
    BY InitTyped
  <1>2. TypeOK /\ [Next]_vars => TypeOK'
    BY StepTyped
  <1> QED
    BY <1>1, <1>2, PTL DEF Spec

-----------------------------------------------------------------------------
\* What both writing transactions do to the history of one task

\* The row explains the new status, and the old rows stay explained.
LEMMA RecordedRow ==
  ASSUME IInv, TypeOK', NEW t \in Tasks, NEW row \in HistoryRow,
         row.from \in Been(t), LegalRow(row),
         status' = [status EXCEPT ![t] = row.to],
         history' = [history EXCEPT ![t] = Append(history[t], row)]
  PROVE  /\ HistoryExplainsStatus' /\ RowsAreMoves'
         /\ \A x \in Tasks \ {t} : Been(x)' = Been(x)
         /\ Been(t)' = Been(t) \cup {row.to}
  <1> DEFINE h == history[t]
             g == Append(h, row)
  <1>1. h \in Seq(HistoryRow) /\ status[t] \in Statuses \cup {"none"}
    BY DEF IInv, TypeOK
  <1>2. /\ g \in Seq(HistoryRow) /\ g # <<>>
        /\ DOMAIN h = 1 .. Len(h) /\ Len(h) \in Nat /\ Len(g) = Len(h) + 1
        /\ DOMAIN g = 1 .. Len(h) + 1 /\ g[Len(h) + 1] = row
        /\ \A i \in 1 .. Len(h) : g[i] = h[i]
    BY <1>1, AppendFacts
  <1>3. history'[t] = g /\ status'[t] = row.to /\ row.to \in Statuses
    BY DEF IInv, TypeOK, HistoryRow
  <1>4. \A x \in Tasks \ {t} : history'[x] = history[x] /\ status'[x] = status[x]
    BY DEF IInv, TypeOK
  <1>5. "none" \notin Statuses
    BY DEF Statuses
  <1>6. status[t] # "none"
    BY DEF Been
  <1>7. Been(t) = {"DRAFT"} \cup {h[i].to : i \in 1 .. Len(h)}
    BY <1>2, <1>6 DEF Been
  <1>8. Been(t)' = {"DRAFT"} \cup {g[i].to : i \in 1 .. Len(h) + 1}
    BY <1>2, <1>3, <1>5 DEF Been
  <1> HIDE DEF g
  <1>9. Been(t)' = Been(t) \cup {row.to}
    <2>1. \A i \in 1 .. Len(h) + 1 : i \in 1 .. Len(h) \/ i = Len(h) + 1
      BY <1>2
    <2>2. {g[i].to : i \in 1 .. Len(h) + 1} = {h[i].to : i \in 1 .. Len(h)} \cup {row.to}
      BY <1>2, <2>1
    <2> QED
      BY <1>7, <1>8, <2>2
  <1>10. \A x \in Tasks \ {t} : Been(x)' = Been(x)
    BY <1>4 DEF Been
  <1>11. RowsAreMoves'
    <2>1. ASSUME NEW x \in Tasks, NEW i \in DOMAIN history'[x] PROVE LegalRow(history'[x][i])
      <3>1. CASE x = t /\ i = Len(h) + 1
        BY <1>2, <1>3, <3>1
      <3>2. CASE x = t /\ i \in 1 .. Len(h)
        BY <1>2, <1>3, <3>2 DEF IInv, RowsAreMoves
      <3>3. CASE x # t
        BY <1>4, <2>1, <3>3 DEF IInv, RowsAreMoves
      <3> QED
        BY <1>2, <1>3, <2>1, <3>1, <3>2, <3>3
    <2> QED
      BY <2>1 DEF RowsAreMoves, LegalRow, MovesFrom, TaskTransitions, Transition
  <1>12. HistoryExplainsStatus'
    <2>1. row.from = "DRAFT" \/ \E j \in 1 .. Len(h) : h[j].to = row.from
      BY <1>7
    <2>2. ASSUME NEW i \in DOMAIN g
          PROVE  g[i].from = "DRAFT" \/ \E j \in DOMAIN g : j < i /\ g[j].to = g[i].from
      <3>1. CASE i = Len(h) + 1
        BY <1>2, <2>1, <3>1
      <3>2. CASE i \in 1 .. Len(h)
        <4>1. h[i].from = "DRAFT" \/ \E j \in DOMAIN h : j < i /\ h[j].to = h[i].from
          BY <1>2, <3>2 DEF IInv, HistoryExplainsStatus
        <4> QED
          BY <1>2, <3>2, <4>1
      <3> QED
        BY <1>2, <2>2, <3>1, <3>2
    <2>3. ASSUME NEW x \in Tasks \ {t}
          PROVE  /\ history'[x] # <<>> => status'[x] = history'[x][Len(history'[x])].to
                 /\ (history'[x] = <<>> /\ status'[x] # "none") => status'[x] = "DRAFT"
                 /\ \A i \in DOMAIN history'[x] : history'[x][i].from = "DRAFT" \/
                      \E j \in DOMAIN history'[x] : j < i /\ history'[x][j].to = history'[x][i].from
      BY <1>4 DEF IInv, HistoryExplainsStatus
    <2> QED
      BY <1>2, <1>3, <2>2, <2>3 DEF HistoryExplainsStatus
  <1> QED
    BY <1>9, <1>10, <1>11, <1>12

\* A request's tag tells its shape.
LEMMA CallShapes ==
  ASSUME TypeOK, NEW p \in Calls
  PROVE  /\ call[p].at = "move" => call[p] \in MoveCall
         /\ call[p].at = "pool" => call[p] \in PoolCall
         /\ call[p].at = "open" => call[p] \in LeaverCall
  BY DEF TypeOK, CallState, Idle, MoveCall, LeaverCall, PoolCall

\* What CallsComeFromHistory says of one request.
Sound(c) ==
  /\ c.at = "move" =>
       /\ c.from \in Been(c.task)
       /\ \E move \in MovesFrom(c.from) : move.action = c.action /\ move.to = c.to
  /\ c.at = "pool" => \A t \in c.todo : c.from[t] \in Been(t) \ Finished

LEMMA SoundIsAll == CallsComeFromHistory <=> \A p \in Calls : Sound(call[p])
  BY DEF CallsComeFromHistory, Sound

\* A sound request stays sound while histories only grow.
LEMMA StaysSound ==
  ASSUME NEW c \in CallState, Sound(c), \A t \in Tasks : Been(t) \subseteq Been(t)'
  PROVE  Sound(c)'
  <1>1. ASSUME c.at = "move"
        PROVE  /\ c.from \in Been(c.task)'
               /\ \E move \in MovesFrom(c.from) : move.action = c.action /\ move.to = c.to
    <2>1. c.task \in Tasks
      BY <1>1 DEF CallState, Idle, MoveCall, LeaverCall, PoolCall
    <2> QED
      BY <1>1, <2>1 DEF Sound
  <1>2. ASSUME c.at = "pool", NEW t \in c.todo
        PROVE  c.from[t] \in Been(t)' \ Finished
    <2>1. t \in Tasks
      BY <1>2 DEF CallState, Idle, MoveCall, LeaverCall, PoolCall
    <2> QED
      BY <1>2, <2>1 DEF Sound
  <1> QED
    BY <1>1, <1>2 DEF Sound, MovesFrom, TaskTransitions, Transition, Finished

LEMMA CallsStaySound ==
  ASSUME IInv, NEW p \in Calls, NEW next, Become(p, next), Sound(next)',
         \A t \in Tasks : Been(t) \subseteq Been(t)'
  PROVE  CallsComeFromHistory'
  <1>1. call' = [call EXCEPT ![p] = next] /\ call \in [Calls -> CallState]
    BY DEF Become, IInv, TypeOK
  <1>2. ASSUME NEW q \in Calls PROVE Sound(call[q])'
    <2>1. PICK c : c = call'[q]
      OBVIOUS
    <2>2. Sound(c)'
      <3>1. CASE q = p
        BY <1>1, <2>1, <3>1
      <3>2. CASE q # p
        <4>1. c \in CallState /\ c = call[q]
          BY <1>1, <2>1, <3>2
        <4>2. Sound(c)
          BY <4>1, SoundIsAll DEF IInv
        <4> QED
          BY <4>1, <4>2, StaysSound
      <3> QED
        BY <3>1, <3>2
    <2> QED
      BY <2>1, <2>2 DEF Sound
  <1> QED
    BY <1>2 DEF CallsComeFromHistory, Sound

-----------------------------------------------------------------------------
\* One lemma per kind of step, for the invariant and the refinement alike

MoveOf(t) == Moves!Create(t) \/ Moves!Move(t) \/ Moves!Cancel(t) \/ Moves!ReturnToPool(t)

\* What a step owes: the invariant, and a move of TaskMoves or none.
Owed == /\ HistoryExplainsStatus' /\ CallsComeFromHistory' /\ RowsAreMoves'
        /\ (\E t \in Tasks : MoveOf(t)) \/ (status' = status /\ history' = history)

\* Calls that read only.
LEMMA ReadingStep ==
  ASSUME IInv, NEW p \in Calls, NEW next, Become(p, next), Sound(next), next \in CallState,
         UNCHANGED <<status, history>>
  PROVE  Owed
  <1>1. HistoryExplainsStatus' /\ RowsAreMoves'
    <2>1. \A t \in Tasks : \A i \in DOMAIN history'[t] : LegalRow(history'[t][i])
      BY DEF IInv, RowsAreMoves
    <2> QED
      BY <2>1 DEF IInv, HistoryExplainsStatus, RowsAreMoves, LegalRow, MovesFrom, TaskTransitions,
                  Transition
  <1>2. \A t \in Tasks : Been(t) \subseteq Been(t)'
    BY DEF Been
  <1>3. CallsComeFromHistory'
    BY <1>2, StaysSound, CallsStaySound
  <1> QED
    BY <1>1, <1>3 DEF Owed

LEMMA ChainSteps ==
  Moves!Advances =
    {<<"DRAFT", "ASSIGNED">>, <<"ASSIGNED", "ACKNOWLEDGED">>, <<"ACKNOWLEDGED", "IN_PROGRESS">>,
     <<"IN_PROGRESS", "SUBMITTED_FOR_REVIEW">>, <<"SUBMITTED_FOR_REVIEW", "COMPLETED">>,
     <<"COMPLETED", "CLOSED">>}
  <1>1. 1 .. 6 = {1, 2, 3, 4, 5, 6}
    OBVIOUS
  <1>2. Moves!Advances = {<<Moves!Chain[i], Moves!Chain[i + 1]>> : i \in {1, 2, 3, 4, 5, 6}}
    BY <1>1 DEF Moves!Advances
  <1>3. /\ Moves!Chain[1] = "DRAFT" /\ Moves!Chain[1 + 1] = "ASSIGNED"
        /\ Moves!Chain[2 + 1] = "ACKNOWLEDGED" /\ Moves!Chain[3 + 1] = "IN_PROGRESS"
        /\ Moves!Chain[4 + 1] = "SUBMITTED_FOR_REVIEW" /\ Moves!Chain[5 + 1] = "COMPLETED"
        /\ Moves!Chain[6 + 1] = "CLOSED"
    BY DEF Moves!Chain
  <1>4. 1 + 1 = 2 /\ 2 + 1 = 3 /\ 3 + 1 = 4 /\ 4 + 1 = 5 /\ 5 + 1 = 6
    OBVIOUS
  <1> QED
    BY <1>2, <1>3, <1>4

\* Transactions: one row for one task.
LEMMA WritingStep ==
  ASSUME IInv, TypeOK', NEW p \in Calls, NEW next \in CallState, Become(p, next), Sound(next),
         NEW t \in Tasks, NEW row \in HistoryRow, row.from \in Been(t), LegalRow(row),
         row.action = "REASSIGN" => row.from \notin Finished,
         status' = [status EXCEPT ![t] = row.to],
         history' = [history EXCEPT ![t] = Append(history[t], row)]
  PROVE  Owed
  <1>1. /\ HistoryExplainsStatus' /\ RowsAreMoves'
        /\ \A x \in Tasks \ {t} : Been(x)' = Been(x)
        /\ Been(t)' = Been(t) \cup {row.to}
    BY RecordedRow
  <1>2. \A x \in Tasks : Been(x) \subseteq Been(x)'
    BY <1>1
  <1>3. CallsComeFromHistory'
    BY <1>2, StaysSound, CallsStaySound
  <1>4. Moves!Enter(t, row.to)
    <2>1. [x \in Tasks |-> Been(x)]' = [[x \in Tasks |-> Been(x)] EXCEPT ![t] = Been(t) \cup {row.to}]
      BY <1>1
    <2> QED
      BY <2>1 DEF Moves!Enter
  <1>5. MoveOf(t)
    <2>1. CASE row.action = "REASSIGN"
      <3>1. row.to = "ASSIGNED"
        BY <2>1 DEF LegalRow, MovesFrom, TaskTransitions, Transition
      <3>2. row.from \in Moves!Open
        BY <2>1 DEF HistoryRow, Statuses, Finished, Moves!Open
      <3> QED
        BY <1>4, <3>1, <3>2 DEF MoveOf, Moves!ReturnToPool
    <2>2. CASE row.action # "REASSIGN"
      <3>1. PICK move \in MovesFrom(row.from) : move.action = row.action /\ move.to = row.to
        BY <2>2 DEF LegalRow
      <3>2. CASE move.action = "CANCEL"
        <4>1. row.to = "CANCELLED" /\ row.from # "CLOSED"
          BY <3>1, <3>2 DEF MovesFrom, TaskTransitions, Transition
        <4> QED
          BY <1>4, <4>1 DEF MoveOf, Moves!Cancel
      <3>3. CASE move.action # "CANCEL"
        <4>1. <<row.from, row.to>> \in
                {<<"DRAFT", "ASSIGNED">>, <<"ASSIGNED", "ACKNOWLEDGED">>,
                 <<"ACKNOWLEDGED", "IN_PROGRESS">>, <<"IN_PROGRESS", "SUBMITTED_FOR_REVIEW">>,
                 <<"SUBMITTED_FOR_REVIEW", "COMPLETED">>, <<"COMPLETED", "CLOSED">>,
                 <<"SUBMITTED_FOR_REVIEW", "IN_PROGRESS">>, <<"ASSIGNED", "ASSIGNED">>}
          BY <3>1, <3>3 DEF MovesFrom, TaskTransitions, Transition
        <4>2. <<row.from, row.to>> \in Moves!Advances \cup Moves!SendsBack
          BY <4>1, ChainSteps DEF Moves!SendsBack
        <4> QED
          BY <1>4, <4>2 DEF MoveOf, Moves!Move
      <3> QED
        BY <3>2, <3>3
    <2> QED
      BY <2>1, <2>2
  <1> QED
    BY <1>1, <1>3, <1>5 DEF Owed

-----------------------------------------------------------------------------
LEMMA InitSound == ASSUME Init PROVE IInv
  <1>1. TypeOK
    BY InitTyped
  <1>2. HistoryExplainsStatus /\ RowsAreMoves
    BY DEF Init, HistoryExplainsStatus, RowsAreMoves
  <1>3. CallsComeFromHistory
    BY DEF Init, CallsComeFromHistory, Idle
  <1> QED
    BY <1>1, <1>2, <1>3 DEF IInv

LEMMA IdleIsSound == Idle \in CallState /\ Sound(Idle)
  BY DEF CallState, Idle, Sound

LEMMA CreateStep == ASSUME IInv, TypeOK', NEW p \in Calls, Create(p) PROVE Owed
  <1>1. PICK t \in Tasks : status[t] = "none" /\ status' = [status EXCEPT ![t] = "DRAFT"]
    BY DEF Create
  <1>2. UNCHANGED <<history, call>>
    BY DEF Create
  <1>3. history[t] = <<>>
    <2>1. history[t] \in Seq(HistoryRow) /\ "none" \notin Statuses
      BY DEF IInv, TypeOK, Statuses
    <2>2. history[t] # <<>> => Len(history[t]) \in DOMAIN history[t]
      BY <2>1
    <2>3. history[t] # <<>> => history[t][Len(history[t])].to \in Statuses
      <3>1. \A i \in DOMAIN history[t] : history[t][i] \in HistoryRow
        BY <2>1
      <3>2. \A row \in HistoryRow : row.to \in Statuses
        BY DEF HistoryRow
      <3> QED
        BY <2>2, <3>1, <3>2
    <2> QED
      BY <1>1, <2>1, <2>3 DEF IInv, HistoryExplainsStatus
  <1>4. status'[t] = "DRAFT" /\ \A x \in Tasks \ {t} : status'[x] = status[x]
    BY <1>1 DEF IInv, TypeOK
  <1>5. Been(t) = {} /\ Been(t)' = {"DRAFT"} /\ \A x \in Tasks \ {t} : Been(x)' = Been(x)
    BY <1>1, <1>2, <1>3, <1>4 DEF Been
  <1>6. HistoryExplainsStatus'
    <2>1. ASSUME NEW x \in Tasks
          PROVE  /\ history[x] # <<>> => status'[x] = history[x][Len(history[x])].to
                 /\ (history[x] = <<>> /\ status'[x] # "none") => status'[x] = "DRAFT"
                 /\ \A i \in DOMAIN history[x] : history[x][i].from = "DRAFT" \/
                      \E j \in DOMAIN history[x] : j < i /\ history[x][j].to = history[x][i].from
      BY <1>3, <1>4 DEF IInv, HistoryExplainsStatus
    <2> QED
      BY <1>2, <2>1 DEF HistoryExplainsStatus
  <1>7. RowsAreMoves'
    <2>1. \A x \in Tasks : \A i \in DOMAIN history'[x] : LegalRow(history'[x][i])
      BY <1>2 DEF IInv, RowsAreMoves
    <2> QED
      BY <2>1 DEF RowsAreMoves, LegalRow, MovesFrom, TaskTransitions, Transition
  <1>8. CallsComeFromHistory'
    <2>1. \A x \in Tasks : Been(x) \subseteq Been(x)'
      BY <1>5
    <2>2. ASSUME NEW q \in Calls PROVE Sound(call[q])'
      <3>1. PICK c : c = call[q]
        OBVIOUS
      <3>2. c \in CallState /\ Sound(c) /\ c = call'[q]
        BY <1>2, <3>1, SoundIsAll DEF IInv, TypeOK
      <3>3. Sound(c)'
        BY <2>1, <3>2, StaysSound
      <3> QED
        BY <3>2, <3>3 DEF Sound
    <2> QED
      BY <2>2 DEF CallsComeFromHistory, Sound
  <1>9. MoveOf(t)
    <2>1. [x \in Tasks |-> Been(x)]' = [[x \in Tasks |-> Been(x)] EXCEPT ![t] = Been(t) \cup {"DRAFT"}]
      BY <1>5
    <2> QED
      BY <1>1, <2>1 DEF MoveOf, Moves!Create, Moves!Enter
  <1> QED
    BY <1>6, <1>7, <1>8, <1>9 DEF Owed

LEMMA LoadStep == ASSUME IInv, NEW p \in Calls, Load(p), TypeOK' PROVE Owed
  <1>1. PICK t \in Tasks, u \in active :
          /\ status[t] # "none"
          /\ \E move \in MovesFrom(status[t]), a \in Users \cup {NoOne} :
               Become(p, [at |-> "move", task |-> t, from |-> move.from, action |-> move.action,
                          to |-> move.to, assignee |-> a])
    BY DEF Load
  <1>2. status[t] \in Statuses
    BY <1>1 DEF IInv, TypeOK
  <1>3. PICK move \in MovesFrom(status[t]), a \in Users \cup {NoOne} :
          Become(p, [at |-> "move", task |-> t, from |-> move.from, action |-> move.action,
                     to |-> move.to, assignee |-> a])
    BY <1>1
  <1> DEFINE next == [at |-> "move", task |-> t, from |-> move.from, action |-> move.action,
                      to |-> move.to, assignee |-> a]
  <1>4. move.from = status[t] /\ move.action \in Actions /\ move.to \in Statuses
    BY <1>2, TableIsTyped
  <1>5. next \in CallState
    BY <1>2, <1>4 DEF CallState, MoveCall
  <1>6. status[t] \in Been(t)
    <2>1. history[t] \in Seq(HistoryRow)
      BY DEF IInv, TypeOK
    <2>2. history[t] # <<>> => Len(history[t]) \in DOMAIN history[t]
      BY <2>1
    <2> QED
      BY <1>1, <2>2 DEF IInv, HistoryExplainsStatus, Been
  <1>7. Sound(next)
    <2>1. next.from \in Been(next.task) /\ next.at # "pool"
      BY <1>4, <1>6
    <2>2. move \in MovesFrom(next.from) /\ move.action = next.action /\ move.to = next.to
      BY <1>4
    <2> QED
      BY <2>1, <2>2 DEF Sound
  <1>8. UNCHANGED <<status, history>>
    BY DEF Load, database
  <1> QED
    BY <1>3, <1>5, <1>7, <1>8, ReadingStep

LEMMA WriteStep == ASSUME IInv, TypeOK', NEW p \in Calls, Write(p) PROVE Owed
  <1> DEFINE c == call[p]
             row == [from |-> c.from, action |-> c.action, to |-> c.to]
  <1>1. c \in MoveCall
    BY CallShapes DEF Write, IInv
  <1>2. c.task \in Tasks /\ row \in HistoryRow
    BY <1>1 DEF MoveCall, HistoryRow
  <1>3. Sound(c) /\ c.at = "move"
    BY SoundIsAll DEF IInv, Write
  <1>4. row.from \in Been(c.task)
    BY <1>3 DEF Sound
  <1>5. PICK move \in MovesFrom(c.from) : move.action = c.action /\ move.to = c.to
    BY <1>3 DEF Sound
  <1>6. LegalRow(row)
    BY <1>5 DEF LegalRow
  <1>7. row.action = "REASSIGN" => row.from \notin Finished
    BY <1>5 DEF MovesFrom, TaskTransitions, Transition, Finished
  <1>8. /\ Become(p, Idle)
        /\ status' = [status EXCEPT ![c.task] = row.to]
        /\ history' = [history EXCEPT ![c.task] = Append(history[c.task], row)]
    BY DEF Write
  <1> QED
    BY <1>2, <1>4, <1>6, <1>7, <1>8, IdleIsSound, WritingStep

LEMMA DeactivateStep == ASSUME IInv, TypeOK', NEW p \in Calls, Deactivate(p) PROVE Owed
  <1>1. PICK u \in active : Become(p, [at |-> "open", user |-> u])
    BY DEF Deactivate
  <1>2. [at |-> "open", user |-> u] \in CallState /\ Sound([at |-> "open", user |-> u])
    BY <1>1 DEF CallState, LeaverCall, Sound, IInv, TypeOK
  <1> QED
    BY <1>1, <1>2, ReadingStep DEF Deactivate

LEMMA ReadOpenStep == ASSUME IInv, TypeOK', NEW p \in Calls, ReadOpenTasks(p) PROVE Owed
  <1> DEFINE open == OpenTasksOf(call[p].user)
             from == [t \in Tasks |-> IF t \in open THEN status[t] ELSE "DRAFT"]
             list == [at |-> "pool", todo |-> open, from |-> from]
  <1>1. open \in SUBSET Tasks /\ from \in [Tasks -> Statuses]
    BY DEF OpenTasksOf, Statuses, IInv, TypeOK
  <1>2. list \in CallState
    BY <1>1 DEF CallState, PoolCall
  <1>3. Sound(list)
    <2>1. ASSUME NEW t \in open PROVE from[t] \in Been(t) \ Finished
      <3>1. t \in Tasks /\ from[t] = status[t] /\ status[t] \notin Finished \cup {"none"}
        BY <2>1 DEF OpenTasksOf
      <3>2. history[t] \in Seq(HistoryRow)
        BY <3>1 DEF IInv, TypeOK
      <3>3. history[t] # <<>> => Len(history[t]) \in DOMAIN history[t]
        BY <3>2
      <3> QED
        BY <3>1, <3>3 DEF IInv, HistoryExplainsStatus, Been
    <2> HIDE DEF open, from
    <2> QED
      BY <2>1 DEF Sound
  <1>4. Become(p, Idle) \/ Become(p, list)
    BY DEF ReadOpenTasks
  <1>5. UNCHANGED <<status, history>>
    BY DEF ReadOpenTasks, database
  <1> HIDE DEF list
  <1> QED
    BY <1>2, <1>3, <1>4, <1>5, IdleIsSound, ReadingStep

LEMMA ReturnStep == ASSUME IInv, TypeOK', NEW p \in Calls, ReturnToPool(p) PROVE Owed
  <1>1. call[p] \in PoolCall
    BY CallShapes DEF ReturnToPool, IInv
  <1>2. PICK t \in call[p].todo :
          /\ status' = [status EXCEPT ![t] = "ASSIGNED"]
          /\ history' = [history EXCEPT ![t] =
               Append(history[t], [from |-> call[p].from[t], action |-> "REASSIGN", to |-> "ASSIGNED"])]
          /\ Become(p, IF call[p].todo = {t} THEN Idle
                       ELSE [call[p] EXCEPT !.todo = call[p].todo \ {t}])
    BY DEF ReturnToPool
  <1> DEFINE row == [from |-> call[p].from[t], action |-> "REASSIGN", to |-> "ASSIGNED"]
             rest == [call[p] EXCEPT !.todo = call[p].todo \ {t}]
             next == IF call[p].todo = {t} THEN Idle ELSE rest
  <1>3. t \in Tasks /\ row \in HistoryRow
    BY <1>1, <1>2 DEF PoolCall, HistoryRow, Statuses, Actions
  <1>4. Sound(call[p]) /\ call[p].at = "pool"
    BY SoundIsAll DEF IInv, ReturnToPool
  <1>5. row.from \in Been(t) /\ row.from \notin Finished
    BY <1>2, <1>4 DEF Sound
  <1>6. LegalRow(row)
    BY DEF LegalRow
  <1>7. rest \in PoolCall /\ rest.from = call[p].from /\ rest.todo = call[p].todo \ {t}
    BY <1>1 DEF PoolCall
  <1>8. Sound(rest)
    BY <1>4, <1>7 DEF Sound, PoolCall
  <1>9. next \in CallState /\ Sound(next)
    BY <1>7, <1>8, IdleIsSound DEF CallState
  <1>10. /\ Become(p, next)
         /\ status' = [status EXCEPT ![t] = row.to]
         /\ history' = [history EXCEPT ![t] = Append(history[t], row)]
    BY <1>2
  <1> HIDE DEF next, row
  <1> QED
    BY <1>3, <1>5, <1>6, <1>9, <1>10, WritingStep

\* Steps that touch no task and no request.
LEMMA SameDatabase == ASSUME IInv, UNCHANGED <<status, history, call>> PROVE Owed
  <1>1. \A t \in Tasks : \A i \in DOMAIN history'[t] : LegalRow(history'[t][i])
    BY DEF IInv, RowsAreMoves
  <1>2. RowsAreMoves'
    BY <1>1 DEF RowsAreMoves, LegalRow, MovesFrom, TaskTransitions, Transition
  <1>3. HistoryExplainsStatus'
    BY DEF IInv, HistoryExplainsStatus
  <1>4. CallsComeFromHistory'
    <2>1. \A t \in Tasks : Been(t) \subseteq Been(t)'
      BY DEF Been
    <2>2. ASSUME NEW q \in Calls PROVE Sound(call[q])'
      <3>1. PICK c : c = call[q]
        OBVIOUS
      <3>2. c \in CallState /\ Sound(c) /\ c = call'[q]
        BY <3>1, SoundIsAll DEF IInv, TypeOK
      <3>3. Sound(c)'
        BY <2>1, <3>2, StaysSound
      <3> QED
        BY <3>2, <3>3 DEF Sound
    <2> QED
      BY <2>2 DEF CallsComeFromHistory, Sound
  <1> QED
    BY <1>2, <1>3, <1>4 DEF Owed

LEMMA StepSound ==
  ASSUME IInv, [Next]_vars
  PROVE  IInv' /\ [Moves!Next]_<<status, [t \in Tasks |-> Been(t)]>>
  <1>1. TypeOK'
    BY StepTyped DEF IInv
  <1>2. CASE Next
    <2>1. Owed
      <3>1. PICK p \in Calls : MemberStep(p) \/ OfficerStep(p)
        BY <1>2 DEF Next
      <3>2. CASE Create(p)
        BY <1>1, <3>2, CreateStep
      <3>3. CASE Load(p)
        BY <1>1, <3>3, LoadStep
      <3>4. CASE Write(p)
        BY <1>1, <3>4, WriteStep
      <3>5. CASE Deactivate(p)
        BY <1>1, <3>5, DeactivateStep
      <3>6. CASE ReadOpenTasks(p)
        BY <1>1, <3>6, ReadOpenStep
      <3>7. CASE ReturnToPool(p)
        BY <1>1, <3>7, ReturnStep
      <3>8. CASE Appoint(p)
        BY <3>8, SameDatabase DEF Appoint
      <3> QED
        BY <3>1, <3>2, <3>3, <3>4, <3>5, <3>6, <3>7, <3>8 DEF MemberStep, OfficerStep
    <2>2. IInv'
      BY <1>1, <2>1 DEF Owed, IInv
    <2>3. (\E t \in Tasks : MoveOf(t)) => Moves!Next
      BY DEF Moves!Next, MoveOf
    <2>4. (status' = status /\ history' = history)
            => UNCHANGED <<status, [t \in Tasks |-> Been(t)]>>
      BY DEF Been
    <2> QED
      BY <2>1, <2>2, <2>3, <2>4 DEF Owed
  <1>3. CASE UNCHANGED vars
    <2>1. Owed
      BY <1>3, SameDatabase DEF vars
    <2>2. UNCHANGED <<status, [t \in Tasks |-> Been(t)]>>
      BY <1>3 DEF vars, Been
    <2> QED
      BY <1>1, <2>1, <2>2 DEF Owed, IInv
  <1> QED
    BY <1>2, <1>3

LEMMA Invariance == Spec => []IInv
  <1>1. Init => IInv
    BY InitSound
  <1>2. IInv /\ [Next]_vars => IInv'
    BY StepSound
  <1> QED
    BY <1>1, <1>2, PTL DEF Spec

\* However transitions, assignments and pool returns race, the last history row
\* of a task ends where the task is, and every row starts from a status the task
\* has really been in.
THEOREM HistoryStaysSound == Spec => []HistoryExplainsStatus
  <1>1. IInv => HistoryExplainsStatus
    BY DEF IInv
  <1> QED
    BY <1>1, Invariance, PTL

\* A stale request still asks for a move the table allows from a status its task
\* was once in.
THEOREM CallsStayLegal == Spec => []CallsComeFromHistory
  <1>1. IInv => CallsComeFromHistory
    BY DEF IInv
  <1> QED
    BY <1>1, Invariance, PTL

\* No race completes or closes a task that was not submitted and then approved.
THEOREM ReviewComesFirst == Spec => []CompletedWasReviewed
  <1>1. ASSUME IInv, NEW t \in Tasks, NEW k \in DOMAIN history[t], history[t][k].to = "COMPLETED"
        PROVE  /\ history[t][k].action = "APPROVE_REVIEW"
               /\ \E i \in DOMAIN history[t] : i < k /\ history[t][i].action = "SUBMIT"
    <2>1. LegalRow(history[t][k])
      BY <1>1 DEF IInv, RowsAreMoves
    <2>2. history[t][k].from = "SUBMITTED_FOR_REVIEW" /\ history[t][k].action = "APPROVE_REVIEW"
      BY <1>1, <2>1 DEF LegalRow, MovesFrom, TaskTransitions, Transition
    <2>3. PICK i \in DOMAIN history[t] : i < k /\ history[t][i].to = "SUBMITTED_FOR_REVIEW"
      BY <1>1, <2>2 DEF IInv, HistoryExplainsStatus
    <2>4. LegalRow(history[t][i])
      BY <1>1, <2>3 DEF IInv, RowsAreMoves
    <2>5. history[t][i].action = "SUBMIT"
      BY <2>3, <2>4 DEF LegalRow, MovesFrom, TaskTransitions, Transition
    <2> QED
      BY <2>2, <2>3, <2>5
  <1>2. ASSUME IInv, NEW t \in Tasks, status[t] \in {"COMPLETED", "CLOSED"}
        PROVE  \E k \in DOMAIN history[t] : history[t][k].to = "COMPLETED"
    <2>1. history[t] \in Seq(HistoryRow)
      BY <1>2 DEF IInv, TypeOK
    <2>2. history[t] # <<>>
      BY <1>2 DEF IInv, HistoryExplainsStatus
    <2> DEFINE k == Len(history[t])
    <2>3. k \in DOMAIN history[t] /\ history[t][k].to = status[t]
      BY <1>2, <2>1, <2>2 DEF IInv, HistoryExplainsStatus
    <2>4. CASE status[t] = "CLOSED"
      <3>1. LegalRow(history[t][k])
        BY <1>2, <2>3 DEF IInv, RowsAreMoves
      <3>2. history[t][k].from = "COMPLETED"
        BY <2>3, <2>4, <3>1 DEF LegalRow, MovesFrom, TaskTransitions, Transition
      <3> QED
        BY <1>2, <2>3, <3>2 DEF IInv, HistoryExplainsStatus
    <2> QED
      BY <1>2, <2>3, <2>4
  <1>3. IInv => CompletedWasReviewed
    <2> SUFFICES ASSUME IInv, NEW t \in Tasks, status[t] \in {"COMPLETED", "CLOSED"}
                 PROVE  \E i, j \in DOMAIN history[t] :
                          i < j /\ history[t][i].action = "SUBMIT"
                                /\ history[t][j].action = "APPROVE_REVIEW"
      BY DEF CompletedWasReviewed
    <2>1. PICK k \in DOMAIN history[t] : history[t][k].to = "COMPLETED"
      BY <1>2
    <2> QED
      BY <1>1, <2>1
  <1> QED
    BY <1>3, Invariance, PTL

\* The racing handlers implement TaskMoves: every change of a task is a step of
\* the chain, a cancel or a pool return out of a status the task has been in.
THEOREM TasksImplementMoves == Spec => ImplementsMoves
  <1>1. Init => Moves!Init
    BY DEF Init, Moves!Init, Been
  <1>2. IInv /\ [Next]_vars => [Moves!Next]_<<status, [t \in Tasks |-> Been(t)]>>
    BY StepSound
  <1> QED
    BY <1>1, <1>2, Invariance, PTL DEF Spec, ImplementsMoves, Moves!Spec

-----------------------------------------------------------------------------
\* The deadline notices of Reminders

\* What a sweep still has to go through.
PassesLeft == {<<"soon", "missed">>, <<"missed">>, <<"accept">>, <<"client">>}

\* A once-only notice among those of a task's pass is of that pass and that task.
Concerns(pass, t, n) == n.kind \in OnceOnly => n.kind = pass /\ n.task = t
Unstamped(pass, t, st) == pass \in OnceOnly => t \notin st[pass]

ListOK(s, st) ==
  /\ DOMAIN s.list \subseteq Tasks
  /\ \A t \in DOMAIN s.list :
       Unstamped(Pass(s), t, st) /\ \A n \in s.list[t] : Concerns(Pass(s), t, n)

TellingOK(s, st) ==
  /\ s.at = "tell" /\ s.passes \in PassesLeft /\ ListOK(s, st)
  /\ s.task \in Tasks \ DOMAIN s.list /\ Unstamped(Pass(s), s.task, st)
  /\ \A n \in s.notices : Concerns(Pass(s), s.task, n)
  /\ s = [at |-> "tell", job |-> s.job, now |-> s.now, passes |-> s.passes, list |-> s.list,
          task |-> s.task, notices |-> s.notices]

SweepOK(s, st) ==
  \/ s = Resting
  \/ s.at = "read" /\ s.passes \in PassesLeft
  \/ s.at = "next" /\ s.passes \in PassesLeft /\ ListOK(s, st)
  \/ TellingOK(s, st)

\* The notice went out in the sweep that is running, whose stamp is still to come.
JustTold(n, s) == s.at = "tell" /\ Pass(s) = n.kind /\ s.task = n.task /\ n \notin s.notices

CountOK(n, k, s, st, f) ==
  n.kind \in OnceOnly =>
    /\ k <= 1 + f
    /\ n.task \notin st[n.kind] /\ ~ JustTold(n, s) => k <= f

\* A task without a stamp that is not being told was told once per fault at the most.
NoticesInv ==
  /\ told \in [Notices -> Nat] /\ faults \in Nat /\ stamped \in [OnceOnly -> SUBSET Tasks]
  /\ SweepOK(sweep, stamped)
  /\ \A n \in Notices : CountOK(n, told[n], sweep, stamped, faults)

LEMMA NextPassFacts ==
  ASSUME NEW s, s.passes \in PassesLeft, NEW st
  PROVE  SweepOK(NextPass(s), st) /\ NextPass(s).at # "tell"
  <1>1. CASE Len(s.passes) = 1
    BY <1>1 DEF NextPass, Resting, SweepOK
  <1>2. CASE Len(s.passes) # 1
    <2>1. s.passes = <<"soon", "missed">>
      BY <1>2 DEF PassesLeft
    <2>2. Tail(s.passes) = <<"missed">>
      BY <2>1
    <2> QED
      BY <1>2, <2>2 DEF NextPass, SweepOK, PassesLeft
  <1> QED
    BY <1>1, <1>2

LEMMA PassFacts ==
  ASSUME NEW s, s.passes \in PassesLeft
  PROVE  Pass(s) \in {"accept", "client", "soon", "missed"}
  BY DEF Pass, PassesLeft

LEMMA AddressedFacts ==
  ASSUME NEW pass \in {"accept", "client", "soon", "missed"}, NEW t, NEW now,
         NEW n \in Addressed(pass, t, now) \cup Escalated(pass, t)
  PROVE  Concerns(pass, t, n)
  <1>1. CASE pass = "accept"
    BY <1>1 DEF Addressed, Escalated, Notice, Concerns, OnceOnly
  <1>2. CASE pass = "soon"
    BY <1>2 DEF Addressed, Escalated, Notice, Concerns
  <1>3. CASE pass \in {"client", "missed"}
    BY <1>3 DEF Addressed, Escalated, Notice, Concerns
  <1> QED
    BY <1>1, <1>2, <1>3

LEMMA FoundFacts ==
  ASSUME NEW pass \in {"accept", "client", "soon", "missed"}, NEW now, NEW t \in Found(pass, now)
  PROVE  t \in Tasks /\ Unstamped(pass, t, stamped)
  BY DEF Found, Soon, Missed, Unstamped, OnceOnly

\* Everything but the worker's steps leaves the sweep, the stamps and the counts alone.
LEMMA NoticesAside ==
  ASSUME NoticesInv, UNCHANGED <<stamped, told, sweep, faults>>
  PROVE  NoticesInv'
  BY DEF NoticesInv

LEMMA NoticesTaken ==
  ASSUME NoticesInv, NEW job \in Jobs, Take(job)
  PROVE  NoticesInv'
  <1> DEFINE s == [at |-> "read", job |-> job, now |-> hour, passes |-> Passes(job)]
  <1>1. sweep' = s /\ UNCHANGED <<stamped, told, faults>> /\ sweep = Resting
    BY DEF Take, RunSweep
  <1>2. s.at = "read" /\ s.passes \in PassesLeft
    BY DEF Jobs, Passes, PassesLeft
  <1>3. SweepOK(s, stamped)
    BY <1>2 DEF SweepOK
  <1>4. ASSUME NEW n \in Notices
        PROVE  CountOK(n, told[n], s, stamped, faults)
    BY <1>1 DEF NoticesInv, CountOK, JustTold, Resting
  <1> HIDE DEF s
  <1> QED
    BY <1>1, <1>3, <1>4 DEF NoticesInv

LEMMA NoticesRead ==
  ASSUME NoticesInv, ReadList
  PROVE  NoticesInv'
  <1> DEFINE found == Found(Pass(sweep), sweep.now)
             s == [at |-> "next", job |-> sweep.job, now |-> sweep.now, passes |-> sweep.passes,
                   list |-> [t \in found |-> Addressed(Pass(sweep), t, sweep.now)]]
  <1>1. UNCHANGED <<stamped, told, faults>> /\ sweep.at = "read"
    BY DEF ReadList, RunSweep
  <1>2. sweep' = NextPass(sweep) \/ sweep' = s
    BY DEF ReadList, RunSweep
  <1>3. sweep.passes \in PassesLeft
    BY <1>1 DEF NoticesInv, SweepOK, TellingOK, Resting
  <1>4. Pass(sweep) \in {"accept", "client", "soon", "missed"}
    BY <1>3, PassFacts
  <1>5. SweepOK(s, stamped)
    <2>1. s.at = "next" /\ s.passes = sweep.passes /\ DOMAIN s.list = found
      OBVIOUS
    <2>2. Pass(s) = Pass(sweep)
      BY <2>1 DEF Pass
    <2>3. ASSUME NEW t \in found
          PROVE  Unstamped(Pass(s), t, stamped) /\ \A n \in s.list[t] : Concerns(Pass(s), t, n)
      <3>1. s.list[t] = Addressed(Pass(sweep), t, sweep.now)
        OBVIOUS
      <3> HIDE DEF s
      <3> QED
        BY <1>4, <2>2, <3>1, FoundFacts, AddressedFacts
    <2>4. found \subseteq Tasks
      BY <1>4, FoundFacts
    <2> HIDE DEF s, found
    <2> QED
      BY <1>3, <2>1, <2>3, <2>4 DEF SweepOK, ListOK
  <1>6. s.at # "tell"
    OBVIOUS
  <1> HIDE DEF s, found
  <1>7. SweepOK(sweep', stamped) /\ sweep'.at # "tell"
    BY <1>2, <1>3, <1>5, <1>6, NextPassFacts
  <1>8. ASSUME NEW n \in Notices
        PROVE  CountOK(n, told[n], sweep', stamped, faults)
    BY <1>1, <1>7 DEF NoticesInv, CountOK, JustTold
  <1> QED
    BY <1>1, <1>7, <1>8 DEF NoticesInv

LEMMA NoticesChosen ==
  ASSUME NoticesInv, NextTask
  PROVE  NoticesInv'
  <1>1. sweep.at = "next" /\ UNCHANGED <<stamped, told, faults>>
    BY DEF NextTask, BeforeTelling, StampLater
  <1>2. sweep.passes \in PassesLeft /\ ListOK(sweep, stamped)
    BY <1>1 DEF NoticesInv, SweepOK, TellingOK, Resting
  <1>3. PICK t \in DOMAIN sweep.list :
          sweep' = Telling(sweep, t, IF sweep.list[t] = {} THEN Escalated(Pass(sweep), t)
                                     ELSE sweep.list[t])
    BY DEF NextTask, RunSweep
  <1>4. PICK notices : /\ notices \in {Escalated(Pass(sweep), t), sweep.list[t]}
                       /\ sweep' = Telling(sweep, t, notices)
    BY <1>3
  <1>5. \A n \in notices : Concerns(Pass(sweep), t, n)
    BY <1>2, <1>4, PassFacts, AddressedFacts DEF ListOK
  <1>6. /\ sweep'.at = "tell" /\ sweep'.passes = sweep.passes /\ sweep'.task = t
        /\ sweep'.notices = notices /\ DOMAIN sweep'.list = DOMAIN sweep.list \ {t}
        /\ \A r \in DOMAIN sweep'.list : sweep'.list[r] = sweep.list[r]
        /\ sweep' = [at |-> "tell", job |-> sweep'.job, now |-> sweep'.now,
                     passes |-> sweep'.passes, list |-> sweep'.list, task |-> sweep'.task,
                     notices |-> sweep'.notices]
    BY <1>4 DEF Telling
  <1>7. Pass(sweep') = Pass(sweep)
    BY <1>6 DEF Pass
  <1>8. TellingOK(sweep', stamped)
    BY <1>2, <1>5, <1>6, <1>7 DEF TellingOK, ListOK
  <1>9. ASSUME NEW n \in Notices
        PROVE  CountOK(n, told[n], sweep', stamped, faults)
    BY <1>1 DEF NoticesInv, CountOK, JustTold
  <1> QED
    BY <1>1, <1>8, <1>9 DEF NoticesInv, SweepOK

LEMMA NoticesSent ==
  ASSUME NoticesInv, Tell
  PROVE  NoticesInv'
  <1>1. sweep.at = "tell" /\ UNCHANGED <<stamped, faults>>
    BY DEF Tell, RunSweep
  <1>2. TellingOK(sweep, stamped)
    BY <1>1 DEF NoticesInv, SweepOK, Resting
  <1>3. PICK m \in sweep.notices :
          /\ told' = [told EXCEPT ![m] = Counted(m)]
          /\ sweep' = [sweep EXCEPT !.notices = @ \ {m}]
    BY DEF Tell, RunSweep
  <1>4. /\ sweep'.at = "tell" /\ sweep'.passes = sweep.passes /\ sweep'.task = sweep.task
        /\ sweep'.notices = sweep.notices \ {m} /\ sweep'.list = sweep.list
        /\ sweep' = [at |-> "tell", job |-> sweep'.job, now |-> sweep'.now,
                     passes |-> sweep'.passes, list |-> sweep'.list, task |-> sweep'.task,
                     notices |-> sweep'.notices]
    BY <1>2, <1>3 DEF TellingOK
  <1>5. Pass(sweep') = Pass(sweep)
    BY <1>4 DEF Pass
  <1>6. TellingOK(sweep', stamped)
    BY <1>2, <1>4, <1>5 DEF TellingOK, ListOK
  <1>7. told' \in [Notices -> Nat]
    <2>1. CASE m \in Notices
      <3>1. Counted(m) \in Nat
        BY <2>1 DEF NoticesInv, Counted
      <3> QED
        BY <1>3, <3>1 DEF NoticesInv
    <2>2. CASE m \notin Notices
      <3>1. told' = told
        BY <1>3, <2>2 DEF NoticesInv
      <3> QED
        BY <3>1 DEF NoticesInv
    <2> QED
      BY <2>1, <2>2
  <1>8. ASSUME NEW n \in Notices
        PROVE  CountOK(n, told'[n], sweep', stamped, faults)
    <2>1. CASE n # m
      <3>1. told'[n] = told[n] /\ (n \in sweep'.notices <=> n \in sweep.notices)
        BY <1>3, <1>4, <2>1 DEF NoticesInv
      <3> QED
        BY <1>1, <1>4, <1>5, <3>1 DEF NoticesInv, CountOK, JustTold
    <2>2. CASE n = m /\ n.kind \in OnceOnly
      <3>1. n.kind = Pass(sweep) /\ n.task = sweep.task
        BY <1>2, <1>3, <2>2 DEF TellingOK, Concerns
      <3>2. n.task \notin stamped[n.kind] /\ ~ JustTold(n, sweep)
        BY <1>2, <1>3, <2>2, <3>1 DEF TellingOK, Unstamped, JustTold
      <3>3. told[n] \in Nat /\ told[n] <= faults /\ faults \in Nat
        BY <2>2, <3>2 DEF NoticesInv, CountOK
      <3>4. told'[n] = told[n] + 1
        BY <1>3, <2>2 DEF NoticesInv, Counted
      <3>5. JustTold(n, sweep')
        BY <1>4, <1>5, <2>2, <3>1 DEF JustTold
      <3> QED
        BY <3>3, <3>4, <3>5 DEF CountOK
    <2>3. CASE n.kind \notin OnceOnly
      BY <2>3 DEF CountOK
    <2> QED
      BY <2>1, <2>2, <2>3
  <1> QED
    BY <1>1, <1>6, <1>7, <1>8 DEF NoticesInv, SweepOK

LEMMA NoticesStamped ==
  ASSUME NoticesInv, Told
  PROVE  NoticesInv'
  <1> DEFINE s == [at |-> "next", job |-> sweep.job, now |-> sweep.now, passes |-> sweep.passes,
                   list |-> sweep.list]
  <1>1. sweep.at = "tell" /\ sweep.notices = {} /\ UNCHANGED <<told, faults>>
    BY DEF Told
  <1>2. TellingOK(sweep, stamped)
    BY <1>1 DEF NoticesInv, SweepOK, Resting
  <1>3. Pass(sweep) \in {"accept", "client", "soon", "missed"}
    BY <1>2, PassFacts DEF TellingOK
  <1>4. sweep' = NextPass(sweep) \/ sweep' = s
    BY DEF Told, RunSweep
  <1>5. stamped' = IF Pass(sweep) \in OnceOnly
                   THEN [stamped EXCEPT ![Pass(sweep)] = @ \cup {sweep.task}] ELSE stamped
    BY DEF Told, Stamp
  <1>6. /\ s.at = "next" /\ s.passes = sweep.passes /\ s.list = sweep.list
        /\ Pass(s) = Pass(sweep)
    BY DEF Pass
  <1>7. ASSUME NEW r, Unstamped(Pass(sweep), r, stamped), r # sweep.task
        PROVE  Unstamped(Pass(sweep), r, stamped')
    BY <1>5, <1>7 DEF Unstamped, NoticesInv
  <1>8. ListOK(s, stamped')
    BY <1>2, <1>6, <1>7 DEF TellingOK, ListOK
  <1> HIDE DEF s
  <1>9. SweepOK(sweep', stamped') /\ sweep'.at # "tell"
    BY <1>2, <1>4, <1>6, <1>8, NextPassFacts DEF SweepOK, TellingOK
  <1>10. stamped' \in [OnceOnly -> SUBSET Tasks]
    BY <1>2, <1>5 DEF NoticesInv, TellingOK
  <1>11. ASSUME NEW n \in Notices
         PROVE  CountOK(n, told[n], sweep', stamped', faults)
    <2>1. SUFFICES ASSUME n.kind \in OnceOnly, n.task \notin stamped'[n.kind]
                   PROVE  n.task \notin stamped[n.kind] /\ ~ JustTold(n, sweep)
      BY DEF NoticesInv, CountOK
    <2> QED
      BY <1>5, <2>1 DEF NoticesInv, JustTold
  <1> QED
    BY <1>1, <1>9, <1>10, <1>11 DEF NoticesInv

LEMMA NoticesCut ==
  ASSUME NoticesInv, Cut
  PROVE  NoticesInv'
  <1>1. /\ sweep' = Resting /\ faults' = faults + 1 /\ UNCHANGED <<stamped, told>>
    BY DEF Cut, RunSweep
  <1>2. SweepOK(sweep', stamped)
    BY <1>1 DEF SweepOK
  <1>3. ASSUME NEW n \in Notices
        PROVE  CountOK(n, told[n], sweep', stamped, faults + 1)
    BY <1>1 DEF NoticesInv, CountOK, JustTold, Resting
  <1> QED
    BY <1>1, <1>2, <1>3 DEF NoticesInv

LEMMA NoticesStep == ASSUME NoticesInv, [ChaseNext]_chaseVars PROVE NoticesInv'
  <1>1. CASE Tick
    BY <1>1, NoticesAside DEF Tick
  <1>2. CASE Work
    BY <1>2, NoticesRead, NoticesChosen, NoticesSent, NoticesStamped DEF Work
  <1>3. CASE Cut
    BY <1>3, NoticesCut
  <1>4. CASE Handle
    BY <1>4, NoticesAside DEF Handle
  <1>5. CASE MoveDeadline
    BY <1>5, NoticesAside DEF MoveDeadline
  <1>6. CASE Comment
    BY <1>6, NoticesAside DEF Comment
  <1>7. ASSUME NEW job \in Jobs, Take(job) PROVE NoticesInv'
    BY <1>7, NoticesTaken
  <1>8. CASE UNCHANGED chaseVars
    BY <1>8, NoticesAside DEF chaseVars, reminderVars
  <1> QED
    BY <1>1, <1>2, <1>3, <1>4, <1>5, <1>6, <1>7, <1>8 DEF ChaseNext

\* However the sweeps fail, die and race the handlers, over any tasks, people and hours: nobody
\* is told of a deadline more than once, but for the faults that cut a sweep off between the
\* notice and its stamp.
THEOREM NoticesGoOutOnce == ChaseSpec => []NoticesAreOnce
  <1>1. ChaseInit => NoticesInv
    BY DEF ChaseInit, NoticesInv, SweepOK, CountOK, OnceOnly
  <1>2. NoticesInv /\ [ChaseNext]_chaseVars => NoticesInv'
    BY NoticesStep
  <1>3. NoticesInv => NoticesAreOnce
    BY DEF NoticesInv, CountOK, NoticesAreOnce
  <1> QED
    BY <1>1, <1>2, <1>3, PTL DEF ChaseSpec
=============================================================================

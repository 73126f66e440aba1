------------------------------ MODULE Workdays ------------------------------
(***************************************************************************)
(* What becomes of a day after it was worked: its marks, the corrections   *)
(* and power-cut credits an employee asks for, leave approved late, and    *)
(* the month's payroll                                                     *)
(* (apps/api/src/attendance/regularization.service.ts,                     *)
(* attendance-compute.service.ts, apps/api/src/finance/payroll.service.ts, *)
(* apps/api/src/common/payroll-lock.ts and the past-day half of            *)
(* leave.service.ts decide).                                               *)
(*                                                                         *)
(* None of these handlers locks what it read.  call[c] is what activation  *)
(* c has read or has still to do; several reads in a row are one step.     *)
(* How a day comes to its session is the subject of Attendance: here       *)
(* NextDay brings the finished session of the day that ends.               *)
(***************************************************************************)
EXTENDS DayMarks

CONSTANTS
  Users, Approvers,  \* those who asked, and those whose capability lets them decide
  LastDay,
  DayShapes,     \* DayShapes[d]: sessions day d may have, as ticks of the day, or none
  Requests,      \* row ids of RegularizationRequest (bound on their number)
  Corrections,   \* what a request may ask for
  Leaves,        \* leave requests: [user, from, to, half, paid, unpaid]
  HolidayDays,   \* days that may be declared holidays
  RerunDays,     \* days HR may repeat the nightly computation for
  MaxLocks,      \* MaxLocks[m]: bound on the locks of month m
  MaxExports,    \* bound on the exports of a month
  Calls,         \* bound: handlers and jobs in flight
  May            \* bound: which handlers each may be

ASSUME WorkdaysAssumption ==
  /\ LastDay \in Nat /\ IsFiniteSet(Users)
  /\ LastTick \in Nat /\ ShiftEnd \in Int
  /\ \A x \in Corrections : x.day \in Nat /\ x.in \in Int /\ x.out \in Int /\ x.out <= LastTick + 1
  /\ \A l \in Leaves : l.user \in Users /\ {l.from, l.to} \subseteq 0 .. LastDay
  /\ Requests \cap (Users \X (0 .. LastDay)) = {}

VARIABLES
  today,
  session,    \* [SessionIds -> row of AttendanceSession, or NoRow]
  stretches,  \* rows of AttendanceIdleGap
  request,    \* [Requests -> row of RegularizationRequest, or NoRow]
  day,        \* [Users \X Days -> row of AttendanceDay, or NoRow]
  leave,      \* [Leaves -> status and paidDays of LeaveRequest]
  holidays,
  payroll,    \* [Months -> row of PayrollMonth]
  exports,    \* rows of PayrollExport
  call,
  effects,    \* history: how often a request took effect
  orderly     \* history: handlers came one at a time, none died, no night was missed

records == <<session, stretches, request, day, leave, holidays, payroll, exports>>
vars == <<today, records, call, effects, orderly>>

-----------------------------------------------------------------------------
Days == 0 .. LastDay
Months == {MonthOf(d) : d \in Days}
SessionIds == (Users \X Days) \cup Requests
NoRow == [none |-> TRUE]

\* A day's session ends by the last instant considered, and its idle stretches do not overlap, as
\* heartbeats that come one after another leave them (Attendance).
ASSUME ShapesAssumption ==
  \A d \in 0 .. LastDay - 1 : \A shape \in DayShapes[d] \ {NoRow} :
    /\ shape.in \in Nat /\ shape.out \in Nat /\ d * TicksPerDay + shape.out <= LastTick + 1
    /\ shape.idle \subseteq Spans
    /\ \A s \in shape.idle : d * TicksPerDay + s[2] <= LastTick + 1
    /\ \A s, z \in shape.idle : s = z \/ s[2] <= z[1] \/ z[2] <= s[1]

Idle == [at |-> "idle"]
Busy(c) == call[c] # Idle

Locked(months) == \E m \in months : payroll[m].locked    \* isPayrollLocked

SessionsOf(u, d) ==    \* sessionsForDate
  {[in |-> session[i].in, out |-> session[i].out, idle |-> session[i].idle, id |-> i] :
     i \in {j \in SessionIds : /\ session[j] # NoRow /\ session[j].user = u
                               /\ DayOf(session[j].in) = d}}
OnLeave(u, d) ==       \* hasApprovedLeave
  \E l \in Leaves : leave[l].status = "APPROVED" /\ l.user = u /\ l.from <= d /\ d <= l.to
MarksNow(u, d, known) == Marks(SessionsOf(u, d), d, known, OnLeave(u, d))

RowsOf(u, m) == {d \in DaysOf(m) \cap Days : day[<<u, d>>] # NoRow}
PartIn(l, m) == LeaveInMonth([l EXCEPT !.paid = leave[l].paid], m, holidays)
Touching(u, m) ==
  {l \in Leaves : /\ l.user = u /\ leave[l].status = "APPROVED"
                  /\ m \in MonthOf(l.from) .. MonthOf(l.to)}
Figures(m) ==          \* computeRows, of the ACTIVE staff: nobody leaves in the time considered
  LET workingDays == Cardinality({d \in DaysOf(m) : IsWorkingDay(d, holidays)})
  IN [u \in Users |->
        PayrollRow({[d |-> d, status |-> day[<<u, d>>].status, deducted |-> day[<<u, d>>].deducted,
                     overtime |-> day[<<u, d>>].overtime] : d \in RowsOf(u, m)},
                   {[leave |-> l, part |-> PartIn(l, m)] : l \in Touching(u, m)}, workingDays)]

-----------------------------------------------------------------------------
Init ==
  /\ today = 0
  /\ session = [i \in SessionIds |-> NoRow]
  /\ stretches = {}
  /\ request = [r \in Requests |-> NoRow]
  /\ day = [x \in Users \X Days |-> NoRow]
  /\ leave = [l \in Leaves |-> [status |-> "PENDING", paid |-> l.paid]]
  /\ holidays = {}
  /\ payroll = [m \in Months |-> [locked |-> FALSE, locks |-> 0, clean |-> FALSE]]
  /\ exports = {}
  /\ call = [c \in Calls |-> Idle]
  /\ effects = [r \in Requests |-> 0]
  /\ orderly = TRUE

Become(c, next) == call' = [call EXCEPT ![c] = next]
Begin(c, handler, next) ==
  /\ handler \in May[c] /\ ~ Busy(c) /\ Become(c, next)
  /\ orderly' = (orderly /\ \A b \in Calls : ~ Busy(b))
  /\ UNCHANGED <<today, effects>>
Continue(c, at, next) ==
  /\ call[c].at = at /\ Become(c, next)
  /\ UNCHANGED today

\* Days to compute, then months whose late marks to redo, then a night's tally.
Work(todo, lates, night, known) ==
  IF todo = <<>> /\ lates = {} /\ night = Open THEN Idle
  ELSE [at |-> "work", todo |-> todo, lates |-> lates, night |-> night, known |-> known]

-----------------------------------------------------------------------------
\* RegularizationService.create.
WindowFitsDay(x) ==
  /\ x.in # Open \/ x.out # Open
  /\ x.kind = "POWER_CUT" => x.in # Open /\ x.out # Open
  /\ x.out # Open => DayOf(x.out) <= today     \* not in the future
  /\ DayOf(IF x.in # Open THEN x.in ELSE x.out) = x.day
  /\ x.in # Open /\ x.out # Open =>
       /\ x.in < x.out
       /\ x.out - x.in <= IF x.kind = "POWER_CUT" THEN TicksPerDay \div 2 ELSE TicksPerDay
RequestCheck(c, u, x) ==
  /\ x.day <= today /\ ~ Locked({MonthOf(x.day)}) /\ WindowFitsDay(x)
  /\ \A r \in Requests : request[r] # NoRow /\ request[r].status = "PENDING"
                         => request[r].user # u \/ request[r].day # x.day
  /\ \E r \in Requests : request[r] = NoRow
  /\ Begin(c, "create", [at |-> "insert", user |-> u, x |-> x])
  /\ UNCHANGED records
RequestInsert(c) ==
  /\ Continue(c, "insert", Idle)
  /\ \E r \in Requests :
       /\ request[r] = NoRow
       /\ request' = [request EXCEPT ![r] =
            [user |-> call[c].user, day |-> call[c].x.day, kind |-> call[c].x.kind,
             in |-> call[c].x.in, out |-> call[c].x.out, status |-> "PENDING"]]
  /\ UNCHANGED <<session, stretches, day, leave, holidays, payroll, exports, effects, orderly>>

\* correctiveSession: the possible results, none when the request is refused.
Corrective(q) ==
  LET own == SessionsOf(q.user, q.day)
      before == {s.in : s \in {x \in own : x.in < q.out}}
      first == {s \in own : \A x \in own : s.in <= x.in}
  IN IF q.in # Open /\ q.out # Open THEN {<<q.in, q.out>>}
     ELSE IF q.in = Open THEN {<<a, q.out>> : a \in {x \in before : \A y \in before : y <= x}}
     ELSE {<<q.in, s.out>> : s \in {x \in first : q.in < x.out}}

\* decide: what can be refused is refused before the claim.
DecideLoad(c, r, a, approve) ==
  /\ request[r] # NoRow /\ request[r].status = "PENDING" /\ a # request[r].user
  /\ approve => ~ Locked({MonthOf(request[r].day)})
  /\ \E span \in IF approve /\ request[r].kind # "POWER_CUT" THEN Corrective(request[r])
                 ELSE {<<>>} :
       Begin(c, "decide", [at |-> "claim", r |-> r, approve |-> approve, span |-> span])
  /\ UNCHANGED records

\* The claim: the first decision wins, the other is told the request is actioned.
AfterClaim(c) ==
  LET d == call[c]
  IN IF ~ d.approve THEN Idle
     ELSE IF d.span = <<>> THEN [at |-> "credit", r |-> d.r]
     ELSE [at |-> "correct", r |-> d.r, span |-> d.span]
ClaimAlways(c) ==
  /\ Continue(c, "claim", AfterClaim(c))
  /\ request' = [request EXCEPT ![call[c].r].status =
                   IF call[c].approve THEN "APPROVED" ELSE "REJECTED"]
  /\ UNCHANGED <<session, stretches, day, leave, holidays, payroll, exports, effects, orderly>>
DecideClaim(c) ==
  /\ call[c].at = "claim"
  /\ IF request[call[c].r].status = "PENDING" THEN ClaimAlways(c)
     ELSE Continue(c, "claim", Idle) /\ UNCHANGED <<records, effects, orderly>>

TakesEffect(r) == effects' = [effects EXCEPT ![r] = @ + 1]
DayOfRequest(r) == Work(<<<<request[r].user, request[r].day>>>>,
                        {<<request[r].user, MonthOf(request[r].day)>>}, Open, {})
CorrectiveInsert(c) ==
  LET r == call[c].r
  IN /\ Continue(c, "correct", DayOfRequest(r))
     /\ session' = [session EXCEPT ![r] = [user |-> request[r].user, idle |-> 0,
                                           in |-> call[c].span[1], out |-> call[c].span[2]]]
     /\ TakesEffect(r)
     /\ UNCHANGED <<stretches, request, day, leave, holidays, payroll, exports, orderly>>

\* removeIdleInWindow: the stretches cut, the pieces kept, and what each session is credited.
Pieces(g, from, to) ==
  {p \in {[g EXCEPT !.to = Max({g.from, from})], [g EXCEPT !.from = Min({to, g.to})]} :
     p.from < p.to /\ IdleOf({<<p.from, p.to>>}) > 0}
Charged(rows) == MapThenSumSet(LAMBDA g : IdleOf({<<g.from, g.to>>}), rows)
CreditRead(c) ==
  LET q == request[call[c].r]
      cut == {g \in stretches : /\ session[g.id].user = q.user /\ g.from < q.out /\ q.in < g.to
                                /\ Charged({g}) > Charged(Pieces(g, q.in, q.out))}
      kept == UNION {Pieces(g, q.in, q.out) : g \in cut}
      of(rows, i) == {g \in rows : g.id = i}
  IN /\ Continue(c, "credit",
          [at |-> "uncharge", r |-> call[c].r, cut |-> cut, kept |-> kept,
           credit |-> [i \in {g.id : g \in cut} |->
                         Min({session[i].idle, Charged(of(cut, i)) - Charged(of(kept, i))})]])
     /\ UNCHANGED <<records, effects, orderly>>

\* Its transaction: deleting a stretch that is gone rolls it back and ends the handler.
UnchargeRows(c, cut) ==
  LET credit == call[c].credit
  IN /\ stretches' = (stretches \ cut) \cup call[c].kept
     /\ session' = [i \in SessionIds |->
                      IF i \in DOMAIN credit THEN [session[i] EXCEPT !.idle = @ - credit[i]]
                      ELSE session[i]]
     /\ TakesEffect(call[c].r)
     /\ Continue(c, "uncharge", DayOfRequest(call[c].r))
     /\ UNCHANGED orderly
CreditWriteIfGone(c) ==
  /\ call[c].at = "uncharge" /\ UnchargeRows(c, call[c].cut)
  /\ UNCHANGED <<request, day, leave, holidays, payroll, exports>>
CreditWrite(c) ==
  /\ call[c].at = "uncharge"
  /\ IF call[c].cut \subseteq stretches THEN UnchargeRows(c, call[c].cut)
     ELSE /\ Continue(c, "uncharge", Idle) /\ orderly' = FALSE
          /\ UNCHANGED <<stretches, session, effects>>
  /\ UNCHANGED <<request, day, leave, holidays, payroll, exports>>

-----------------------------------------------------------------------------
\* LeaveService.decide as far as attendance sees it; remarkPastDays follows the claim.
LeaveLoad(c, l) ==
  /\ leave[l].status = "PENDING" /\ ~ Locked(MonthOf(l.from) .. MonthOf(l.to))
  /\ Begin(c, "leave", [at |-> "grant", l |-> l])
  /\ UNCHANGED records
NoPastDays(l) == <<>>
PastDays(l) ==
  [i \in 1 .. Max({0, Min({l.to, today - 1}) - l.from + 1}) |-> <<l.user, l.from + i - 1>>]
LeaveClaim(c) ==
  /\ call[c].at = "grant"
  /\ LET l == call[c].l
         past == PastDays(l)
     IN IF leave[l].status = "PENDING"
        THEN /\ Continue(c, "grant",
                         Work(past, {<<p[1], MonthOf(p[2])>> : p \in ToSet(past)}, Open, {}))
             /\ leave' = [leave EXCEPT ![l].status = "APPROVED"]
        ELSE Continue(c, "grant", Idle) /\ UNCHANGED leave
  /\ UNCHANGED <<session, stretches, request, day, holidays, payroll, exports, effects, orderly>>

\* addHoliday: no lock is asked for and no day re-marked; approved leave is refunded.  The months
\* it bears on are no longer clean.
RefundedPaid(l, known) ==
  LET working == Cardinality({d \in l.from .. l.to : IsWorkingDay(d, known)})
      total == IF l.half THEN working ELSE 2 * working
  IN Max({0, Min({leave[l].paid, total - l.unpaid})})
OnApproved(h, l) == leave[l].status = "APPROVED" /\ l.from <= h /\ h <= l.to
BearsOn(h, m) ==
  MonthOf(h) = m \/ \E l \in Leaves : OnApproved(h, l) /\ m \in MonthOf(l.from) .. MonthOf(l.to)
AddHoliday(h) ==
  /\ h \in HolidayDays \ holidays
  /\ holidays' = holidays \cup {h}
  /\ leave' = [l \in Leaves |->
                 IF OnApproved(h, l) THEN [leave[l] EXCEPT !.paid = RefundedPaid(l, holidays')]
                 ELSE leave[l]]
  /\ payroll' = [m \in Months |->
                   IF BearsOn(h, m) THEN [payroll[m] EXCEPT !.clean = FALSE] ELSE payroll[m]]
  /\ orderly' = (/\ orderly /\ \A c \in Calls : ~ Busy(c)
                 /\ \A u \in Users : day[<<u, h>>] = NoRow)
  /\ UNCHANGED <<today, session, stretches, request, day, exports, call, effects>>

-----------------------------------------------------------------------------
\* computeDay: nothing is done for a locked month.
RestOfWork(c) == Work(Tail(call[c].todo), call[c].lates, call[c].night, call[c].known)
ReadMarks(c) ==
  LET u == Head(call[c].todo)[1]
      d == Head(call[c].todo)[2]
      known == IF call[c].night = Open THEN holidays ELSE call[c].known
  IN /\ call[c].at = "work" /\ call[c].todo # <<>>
     /\ Continue(c, "work", [at |-> "mark", user |-> u, day |-> d,
                             marks |-> MarksNow(u, d, known), rest |-> RestOfWork(c)])
     /\ UNCHANGED <<records, effects, orderly>>
ReadDay(c) ==
  /\ call[c].at = "work" /\ call[c].todo # <<>>
  /\ IF Locked({MonthOf(Head(call[c].todo)[2])})
     THEN /\ Continue(c, "work", RestOfWork(c)) /\ UNCHANGED <<records, effects>>
          /\ orderly' = (orderly /\ call[c].night = Open)
     ELSE ReadMarks(c)
UpsertDay(c) ==
  LET x == <<call[c].user, call[c].day>>
      marks == call[c].marks
  IN day' = [day EXCEPT ![x] =
               [worked |-> marks.worked, overtime |-> marks.overtime, idle |-> marks.idle,
                late |-> marks.late, status |-> marks.status, computed |-> today,
                deducted |-> IF @ = NoRow THEN FALSE ELSE @.deducted]]
WriteDay(c) ==
  /\ Continue(c, "mark", call[c].rest)
  /\ UpsertDay(c)
  /\ UNCHANGED <<session, stretches, request, leave, holidays, payroll, exports, effects, orderly>>

\* recomputeLateDeductions: every LateCount-th late day of the month, in date order.
LateDays(u, d) == {x \in RowsOf(u, MonthOf(d)) : x <= d /\ day[<<u, x>>].late}
AppliesBefore(u, d) ==
  day[<<u, d>>].late /\ Cardinality(LateDays(u, d) \ {d}) % LateCount = 0
Applies(u, d) == day[<<u, d>>].late /\ Cardinality(LateDays(u, d)) % LateCount = 0
ReadLates(c) ==
  /\ call[c].at = "work" /\ call[c].todo = <<>> /\ call[c].lates # {}
  /\ \E um \in call[c].lates :
       LET rest == Work(<<>>, call[c].lates \ {um}, call[c].night, call[c].known)
       IN IF Locked({um[2]}) THEN Continue(c, "work", rest)
          ELSE Continue(c, "work",
                 [at |-> "flip", rest |-> rest,
                  flips |-> [x \in {y \in {um[1]} \X RowsOf(um[1], um[2]) :
                                      Applies(y[1], y[2]) # day[y].deducted} |->
                               Applies(x[1], x[2])]])
  /\ UNCHANGED <<records, effects, orderly>>
SetDeductions(flips) ==
  day' = [x \in Users \X Days |->
            IF x \in DOMAIN flips THEN [day[x] EXCEPT !.deducted = flips[x]] ELSE day[x]]
WriteLates(c) ==
  /\ Continue(c, "flip", call[c].rest)
  /\ SetDeductions(call[c].flips)
  /\ UNCHANGED <<session, stretches, request, leave, holidays, payroll, exports, effects, orderly>>

\* runNightly for a date, and applyThreeLatesRule at its end, on late days of that date alone.
Nightly(c, d) ==
  /\ d = today - 1 \/ (d \in RerunDays /\ d <= today)
  /\ Begin(c, "nightly", Work(SetToSeq(Users \X {d}), {}, d, holidays \cap {d}))
  /\ UNCHANGED records
NightTally(c) ==
  /\ call[c].at = "work" /\ call[c].todo = <<>> /\ call[c].night # Open
  /\ LET d == call[c].night
         late == {u \in Users : LateDays(u, d) # {}}
     IN Continue(c, "work", [at |-> "tally", day |-> d,
                             applies |-> [u \in late |-> Cardinality(LateDays(u, d)) % LateCount = 0]])
  /\ UNCHANGED <<records, effects, orderly>>
ApplyTally(d, applies) ==
  day' = [x \in Users \X Days |->
            IF x[2] = d /\ x[1] \in DOMAIN applies /\ day[x] # NoRow /\ day[x].late
            THEN [day[x] EXCEPT !.deducted = applies[x[1]]] ELSE day[x]]
NightApply(c) ==
  /\ Continue(c, "tally", Idle)
  /\ ApplyTally(call[c].day, call[c].applies)
  /\ UNCHANGED <<session, stretches, request, leave, holidays, payroll, exports, effects, orderly>>

-----------------------------------------------------------------------------
\* PayrollService.  locks numbers the locks; clean says that at the last lock nothing was under
\* way and the deductions were in order, and that no holiday bore on the month since.
InOrder(m) ==
  \A u \in Users : \A d \in RowsOf(u, m) :
    day[<<u, d>>].late => day[<<u, d>>].deducted = Applies(u, d)
Lock(m) ==
  /\ payroll[m].locks < MaxLocks[m]
  /\ orderly' = (orderly /\ \A c \in Calls : ~ Busy(c))
  /\ payroll' = [payroll EXCEPT ![m] = [locked |-> TRUE, locks |-> @.locks + 1,
                                        clean |-> InOrder(m) /\ \A c \in Calls : ~ Busy(c)]]
  /\ UNCHANGED <<today, session, stretches, request, day, leave, holidays, exports, call, effects>>
Unlock(m) ==
  /\ payroll[m].locked
  /\ payroll' = [payroll EXCEPT ![m].locked = FALSE]
  /\ UNCHANGED <<today, session, stretches, request, day, leave, holidays, exports, call, effects, orderly>>

\* export: the lock, then the figures and the count, then the insert.
ExportLoad(c, m) ==
  /\ payroll[m].locked /\ Cardinality({e \in exports : e.m = m}) < MaxExports
  /\ Begin(c, "export", [at |-> "figures", m |-> m, locks |-> payroll[m].locks])
  /\ UNCHANGED records
ExportRead(c) ==
  LET m == call[c].m
  IN /\ Continue(c, "figures", [at |-> "export", m |-> m, locks |-> call[c].locks,
                                revision |-> Cardinality({e \in exports : e.m = m}) + 1,
                                rows |-> Figures(m)])
     /\ UNCHANGED <<records, effects, orderly>>
RevisionTaken(m, n) == \E e \in exports : e.m = m /\ e.revision = n
InsertExport(c) ==
  exports' = exports \cup {[m |-> call[c].m, locks |-> call[c].locks,
                            revision |-> call[c].revision, rows |-> call[c].rows]}
ExportInsert(c) ==
  /\ Continue(c, "export", Idle)
  /\ IF RevisionTaken(call[c].m, call[c].revision) THEN UNCHANGED exports ELSE InsertExport(c)
  /\ UNCHANGED <<session, stretches, request, day, leave, holidays, payroll, effects, orderly>>

-----------------------------------------------------------------------------
\* A day ends: its session, if any, was closed and charged (Attendance).
Worked(u, shape) ==
  [user |-> u, in |-> today * TicksPerDay + shape.in, out |-> today * TicksPerDay + shape.out,
   idle |-> IdleOf(shape.idle)]
NextDay ==
  /\ today < LastDay /\ today' = today + 1
  /\ \E worked \in [Users -> DayShapes[today]] :
       LET at == {u \in Users : worked[u] # NoRow}
           base == today * TicksPerDay
       IN /\ session' = [i \in SessionIds |->
                           IF i \in at \X {today} THEN Worked(i[1], worked[i[1]]) ELSE session[i]]
          /\ stretches' = stretches \cup
               UNION {{[id |-> <<u, today>>, from |-> base + s[1], to |-> base + s[2]] :
                         s \in worked[u].idle} : u \in at}
  /\ orderly' = (/\ orderly /\ \A c \in Calls : ~ Busy(c)
                 /\ today > 0 => \A u \in Users : /\ day[<<u, today - 1>>] # NoRow
                                                  /\ day[<<u, today - 1>>].computed = today)
  /\ UNCHANGED <<request, day, leave, holidays, payroll, exports, call, effects>>

\* The API restarts; a handler that died is not resumed and no job is retried.
Restart ==
  /\ \E c \in Calls : Busy(c)
  /\ call' = [c \in Calls |-> Idle] /\ orderly' = FALSE
  /\ UNCHANGED <<today, records, effects>>

Step(c) ==
  \/ \E u \in Users, x \in Corrections : RequestCheck(c, u, x)
  \/ RequestInsert(c)
  \/ \E r \in Requests, a \in Approvers, approve \in BOOLEAN : DecideLoad(c, r, a, approve)
  \/ DecideClaim(c) \/ CorrectiveInsert(c) \/ CreditRead(c) \/ CreditWrite(c)
  \/ \E l \in Leaves : LeaveLoad(c, l)
  \/ LeaveClaim(c)
  \/ \E d \in Days : Nightly(c, d)
  \/ ReadDay(c) \/ WriteDay(c) \/ ReadLates(c) \/ WriteLates(c) \/ NightTally(c) \/ NightApply(c)
  \/ \E m \in Months : ExportLoad(c, m)
  \/ ExportRead(c) \/ ExportInsert(c)

Next ==
  \/ NextDay \/ Restart
  \/ \E h \in HolidayDays : AddHoliday(h)
  \/ \E m \in Months : Lock(m) \/ Unlock(m)
  \/ \E c \in Calls : Step(c)

Spec == Init /\ [][Next]_vars
=============================================================================

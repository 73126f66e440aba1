------------------------------ MODULE DayMarks ------------------------------
(***************************************************************************)
(* The marks of a day, and the part of a leave that falls in a month, as   *)
(* pure functions (computeDayMarks of attendance-rules.ts; leaveInMonth    *)
(* and computeRows of payroll.service.ts).                                 *)
(*                                                                         *)
(* Days are numbered from 0, months have MonthDays days, and amounts of    *)
(* days are counted in halves.                                             *)
(***************************************************************************)
EXTENDS AttendanceRules, SequencesExt

CONSTANTS
  MonthDays,
  WeeklyOff,      \* days that are no working weekday, and the 2nd Saturdays
  LateTick,       \* lateThreshold, a tick of the day
  HalfDayUnder,   \* halfDayUnderHours, in ticks
  LateCount       \* threeLatesDeduction.lateCount; the deduction is half a day

ASSUME CalendarAssumption ==
  TicksPerDay \in Nat \ {0} /\ MonthDays \in Nat \ {0} /\ LateCount \in Nat \ {0}

MonthOf(d) == d \div MonthDays
IsWorkingDay(d, holidays) == d \notin WeeklyOff \cup holidays

-----------------------------------------------------------------------------
\* mergeOverlapping: closed sessions, earliest first, merged where they overlap or touch.
Extend(merged, s) ==
  IF merged # <<>> /\ s[1] <= Last(merged)[2]
  THEN [merged EXCEPT ![Len(merged)][2] = Max({@, s[2]})]
  ELSE Append(merged, s)
ClosedSpans(sessions) == {<<s.in, s.out>> : s \in {x \in sessions : x.in < x.out}}
Latest(spans) == CHOOSE s \in spans : \A z \in spans : z[1] <= s[1]
Unmerged(sessions) ==
  MapThenFoldSet(LAMBDA s, merged : Append(merged, s), <<>>, LAMBDA s : s, Latest,
                 ClosedSpans(sessions))
Merged(sessions) ==
  MapThenFoldSet(LAMBDA s, merged : Extend(merged, s), <<>>, LAMBDA s : s, Latest,
                 ClosedSpans(sessions))

\* splitSessionSeconds: the shift end is that of the day the session began on.
ShiftEndOf(t) == DayOf(t) * TicksPerDay + ShiftEnd
Regular(s) == Max({0, Min({s[2], ShiftEndOf(s[1])}) - s[1]})
Overtime(s) == Max({0, s[2] - Max({s[1], ShiftEndOf(s[1])})})
Total(Part(_), spans) == FoldLeft(LAMBDA n, s : n + Part(s), 0, spans)

\* computeDayMarks; approved leave turns an absence into ON_LEAVE (computeDay).
Status(working, worked) ==
  IF worked = 0 THEN IF working THEN "ABSENT" ELSE "WEEKLY_OFF"
  ELSE IF worked < HalfDayUnder THEN "HALF_DAY" ELSE "PRESENT"

Marks(sessions, d, holidays, onLeave) ==
  LET spans == Merged(sessions)
      worked == Total(Regular, spans)
      working == IsWorkingDay(d, holidays)
      first == {s.in : s \in sessions}
      status == Status(working, worked)
  IN [worked   |-> worked,
      overtime |-> Total(Overtime, spans),
      idle     |-> MapThenSumSet(LAMBDA s : s.idle, sessions),
      late     |-> working /\ first # {} /\ Min(first) % TicksPerDay > LateTick,
      status   |-> IF status = "ABSENT" /\ onLeave THEN "ON_LEAVE" ELSE status]

-----------------------------------------------------------------------------
\* leaveInMonth: paid days are used first, in date order.
DaysOf(m) == m * MonthDays .. (m + 1) * MonthDays - 1
LeaveInMonth(lv, m, holidays) ==
  LET charged == {d \in lv.from .. lv.to : IsWorkingDay(d, holidays)}
      before == 2 * Cardinality({d \in charged : MonthOf(d) < m})
      inside == 2 * Cardinality({d \in charged : MonthOf(d) = m})
      paid == Min({Max({0, lv.paid - before}), inside})
  IN IF lv.half
     THEN IF MonthOf(lv.from) = m THEN [paid |-> lv.paid, unpaid |-> lv.unpaid]
          ELSE [paid |-> 0, unpaid |-> 0]
     ELSE [paid |-> paid, unpaid |-> Min({lv.unpaid, inside - paid})]

\* computeRows, for one employee: rows are the day rows of the month, parts what falls in it of
\* each approved leave that touches it.  The overtime is in ticks.
Worth(status) == CASE status = "PRESENT" -> 2 [] status = "HALF_DAY" -> 1 [] OTHER -> 0
PayrollRow(rows, parts, workingDays) ==
  LET paid == MapThenSumSet(LAMBDA x : x.part.paid, parts)
      deductions == Cardinality({r \in rows : r.deducted})
  IN [workingDays |-> workingDays,
      payable     |-> MapThenSumSet(LAMBDA r : Worth(r.status), rows) + paid - deductions,
      paidLeave   |-> paid,
      unpaidLeave |-> MapThenSumSet(LAMBDA x : x.part.unpaid, parts),
      deductions  |-> deductions,
      overtime    |-> MapThenSumSet(LAMBDA r : r.overtime, rows)]
=============================================================================

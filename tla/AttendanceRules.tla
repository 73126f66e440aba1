-------------------------- MODULE AttendanceRules --------------------------
(***************************************************************************)
(* Time and the shift, as attendance-rules.ts reckons them                 *)
(* (apps/api/src/attendance/attendance-rules.ts).  An instant is a number  *)
(* of ticks, and a calendar day of the company is TicksPerDay of them.     *)
(***************************************************************************)
EXTENDS Integers, FiniteSets

CONSTANTS
  TicksPerDay,
  ShiftStart, ShiftEnd,  \* workStart and workEnd, in ticks of the day
  LastTick               \* bound on the instants considered

Time == 0 .. LastTick
Open == -1    \* checkOutAt IS NULL
Spans == {s \in Time \X Time : s[1] < s[2]}

DayOf(t) == t \div TicksPerDay
EndOfDay(t) == (DayOf(t) + 1) * TicksPerDay - 1
InShift(t) == ShiftStart <= t % TicksPerDay /\ t % TicksPerDay < ShiftEnd

\* overlapWithShiftWindow, over any number of stretches that do not overlap.
ShiftTicks(spans) == {t \in Time : InShift(t) /\ \E s \in spans : s[1] <= t /\ t < s[2]}
IdleOf(spans) == Cardinality(ShiftTicks(spans))
=============================================================================

SPECIFICATION Spec
CONSTANTS
  c1 = c1
  c2 = c2
  emp = emp
  hr = hr
  r1 = r1
  r2 = r2
  TicksPerDay = 5
  ShiftStart = 1
  ShiftEnd = 4
  LastTick = 15
  MonthDays = 2
  WeeklyOff = {}
  LateTick = 1
  HalfDayUnder = 2
  LateCount = 2
  Users = {emp}
  Approvers = {emp, hr}
  LastDay = 2
  DayShapes <- MCDayShapes
  Requests = {r1, r2}
  Corrections <- MCCorrections
  Leaves <- MCLeaves
  HolidayDays = {1, 2}
  RerunDays = {}
  MaxLocks <- MCMaxLocks
  MaxExports = 1
  Calls = {c1, c2}
  May <- MCMay
INVARIANTS EffectsHappenOnce IdleIsStretches TimeCountsOnce MarksAreCurrent DeductionsMatchLates ExportsStand
CHECK_DEADLOCK FALSE
SYMMETRY MCSymmetry
CONSTRAINT MCFocus

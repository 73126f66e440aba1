SPECIFICATION Spec
CONSTANTS
  a = a
  b = b
  NoSession = NoSession
  Ids = {a, b}
  Sources = {"DESKTOP"}
  Users = {emp}
  NoKey = NoKey
  Keys = {k}
  StaffCalls = {s1, s2}
  NightlyCalls = {night}
  TicksPerDay = 2
  ShiftStart = 0
  ShiftEnd = 1
  IdleTicks = 1
  ReplayMax = 2
  LastTick = 2
INVARIANTS SpanIsForward
PROPERTY ClosedIsFinal
CHECK_DEADLOCK FALSE
SYMMETRY MCSymmetry

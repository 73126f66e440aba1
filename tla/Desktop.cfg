SPECIFICATION AgentSpec
CONSTANTS
  a = a
  b = b
  emp = emp
  Me = emp
  NoSession = NoSession
  Ids = {a, b}
  Users = {emp}
  Sources = {"DESKTOP"}
  NoKey = NoKey
  Keys = {}
  StaffCalls = {agent1}
  NightlyCalls = {night}
  TicksPerDay = 4
  ShiftStart = 0
  ShiftEnd = 3
  IdleTicks = 2
  ReplayMax = 6
  LastTick = 4
  Adverse = {}
  MaxHang = 0
  MaxActs = 1
SYMMETRY MCSymmetry
INVARIANTS WorkIsNotIdle IdleFitsSession
CHECK_DEADLOCK FALSE

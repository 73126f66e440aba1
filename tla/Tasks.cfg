SPECIFICATION MCSpec
CONSTANTS
  worker = worker
  hr = hr
  parent = parent
  m1 = m1
  NoOne = NoOne
  NoTask = NoTask
  Users = {worker, hr}
  Officers = {hr}
  Admins = {}
  TeamLead <- MCTeamLead
  TaskHolders = {worker}
  Freelancers = {worker}
  Candidates = {NoOne, worker}
  Tasks = {parent}
  Parent <- MCParent
  MemberCalls = {m1, m2}
  OfficerCalls = {o1}
  ParentMoves = 6
  MaxMoves <- MCMaxMoves
  ChasedMoves = 2
  ClientTasks = {parent}
  DayHours = 1
  ClientHours = 1
  LastHour = 3
  MaxUpdates = 1
  MaxFaults = 1
INVARIANTS HistoryExplainsStatus CompletedWasReviewed NoticesAreOnce
PROPERTIES ImplementsMoves EveryChaseLands
CHECK_DEADLOCK FALSE

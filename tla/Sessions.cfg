SPECIFICATION MCSpec
CONSTANTS
  ann = ann
  bob = bob
  eve = eve
  member = member
  lead = lead
  d1 = d1
  t1 = t1
  t2 = t2
  t3 = t3
  t4 = t4
  l1 = l1
  l2 = l2
  c1 = c1
  c2 = c2
  Users = {ann, bob, eve}
  Roles = {member, lead}
  Devices = {d1}
  Tokens = {t1, t2, t3}
  Links = {l1, l2}
  AccessTicks = 3
  CacheTicks = 1
  GraceTicks = 1
  LinkTicks = 1
  LockTicks = 1
  LockCount = 2
  LastTick = 3
  ShortTick = 2
  SweepTicks = 1
  MaxLosses = 2
  MaxFailures = 2
  Calls = {c1, c2}
  May <- MCMay
INVARIANTS SessionSurvivesLoss ManagersFormTree SocketsAreCutOff WayBack
PROPERTY RevocationTakesHold
CHECK_DEADLOCK FALSE
SYMMETRY MCSymmetry
CONSTRAINTS MCFocus MCWatching

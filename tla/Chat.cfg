SPECIFICATION MCSpec
CONSTANTS
  ann = ann
  bob = bob
  hr = hr
  c1 = c1
  Users = {ann, bob, hr}
  Moderators = {hr}
  Viewer = bob
  Messages = {m1, m2, m3}
  Slots = {s1}
  Calls = {c1, c2}
  Passes = {p1, p2}
  NoOne = NoOne
  NoMessage = NoMessage
  NoSlot = NoSlot
  NoEvent = NoEvent
  MaxEdits = 1
  MaxFaults = 1
  PageSize = 2
  MaxDrops = 1
  MaxClock = 6
INVARIANTS SentOnce ScheduledIsSettled PageMatchesServer ReadWasSeen
SYMMETRY MCSymmetry
CHECK_DEADLOCK FALSE

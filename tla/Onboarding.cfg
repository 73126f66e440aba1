SPECIFICATION MCSpec
CONSTANTS
  site = site
  Orgs = {o1, o2}
  Projects = {site}
  People = {ann, bob}
  Names = {n1}
  AdminCalls = {c1, c2}
  NoOrg = NoOrg
  NoName = NoName
  NoPerson = NoPerson
  MaxDeaths = 0
  Versions = {v1}
  Contents = {x1, x2, big}
  Infected = {x2}
  Oversize = {big}
  Uploads = {u1, u2}
  Workers = {w1, w2}
  Downloads = {d1}
  NoVersion = NoVersion
  NoContent = NoContent
  Attempts = 2
  MaxFailures = 1
  Home <- MCHome
SYMMETRY MCSymmetry
INVARIANT OnboardingIsWhole
CHECK_DEADLOCK FALSE

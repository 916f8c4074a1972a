SPECIFICATION Spec
CONSTANTS
  s1 = s1
  a = a
  b = b
  c1 = c1
  c2 = c2
  Scopes = {s1}
  Operations = {a}
  MaxGen = 1
  Clients = {c1, c2}
  MaxFlights = 2
  MaxPages = 2
  Limit = 2
CHECK_DEADLOCK FALSE
SYMMETRY ClientSymmetry
INVARIANTS TypeOK NoOrphanLoad
PROPERTIES OnlyLiveFlightsCommit AttemptsKeptApart

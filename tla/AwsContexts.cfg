SPECIFICATION ContextsSpec
CONSTANTS
  q1 = q1
  q2 = q2
  x = x
  y = y
  z = z
  None = None
  l1 = l1
  l2 = l2
  Queries = {q1, q2}
  Principals = {x, y, z}
  Account <- Accounts
  Lineages = {l1, l2}
  MaxPages = 2
  MaxExpiries = 1
  MaxSwitches = 1
CHECK_DEADLOCK FALSE
INVARIANTS TypeOK OneResolution PagesMatchKey
PROPERTIES ChangesAreReal WaitsEnd

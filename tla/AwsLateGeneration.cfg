SPECIFICATION Spec
CONSTANTS
  q1 = q1
  q2 = q2
  x = x
  y = y
  z = z
  None = None
  l1 = l1
  l2 = l2
  Queries = {q1, q2}
  Principals = {x, y, z}
  Account <- Accounts
  Lineages = {l1}
  MaxPages = 1
  MaxExpiries = 2
  MaxSwitches = 1
CHECK_DEADLOCK FALSE
INVARIANT ResolvedGenerationIsServed

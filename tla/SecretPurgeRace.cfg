SPECIFICATION Spec
CONSTANTS
  p1 = p1
  p2 = p2
  f1 = f1
  f2 = f2
  v1 = v1
  v2 = v2
  None = None
  Procs = {p1, p2}
  Fields = {f1}
  Values = {v1, v2}
  Tokens = {v2}
  Commands = {"init", "import", "purge", "rotate"}
  Options <- ExpiresOnly
  Failures = FALSE
  MaxCommands = 4
  MaxWeeks = 0
CHECK_DEADLOCK FALSE
PROPERTY PurgeIsFinal

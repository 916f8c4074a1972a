SPECIFICATION Spec
CONSTANTS
  p1 = p1
  p2 = p2
  a = a
  b = b
  None = None
  Procs = {p1, p2}
  Places = {a}
  Groups <- OneGroup
  Retention = 2
  Concurrency = 1
  MaxAge = 0
  MaxJobs = 2
  MaxTime = 0
  MaxChanges = 0
  MaxDamage = 0
CHECK_DEADLOCK FALSE
PROPERTY FailedCollectionKeepsActiveRun

SPECIFICATION Spec
CONSTANTS
  p1 = p1
  p2 = p2
  a = a
  b = b
  None = None
  Procs = {p1, p2}
  Places = {a, b}
  Groups <- TwoGroups
  Retention = 2
  Concurrency = 1
  MaxAge = 0
  MaxJobs = 2
  MaxTime = 1
  MaxChanges = 1
  MaxDamage = 1
CHECK_DEADLOCK FALSE
SYMMETRY Symmetric
INVARIANTS TypeOK TablesConsistent CollectionsDoNotOverlap AnswersAreAccurate
PROPERTY ActiveRunReplacedWhole

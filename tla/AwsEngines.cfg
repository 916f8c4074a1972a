SPECIFICATION EnginesSpec
CONSTANTS
  p1 = p1
  p2 = p2
  a = a
  b = b
  None = None
  Procs = {p1, p2}
  Places = {a}
  Groups <- OneGroup
  Retention = 2
  Concurrency = 1
  MaxAge = 0
  MaxJobs = 2
  MaxTime = 0
  MaxChanges = 0
  MaxDamage = 1
  c = c
  p = p
  q = q
  SearchCurrent = c
  SearchListed = {p, q}
  SearchAccounts = {"home", "other"}
  SearchAccount <- SearchAccountOf
  SlotLimit = 1
  MaxSearchZones = 2
  t1 = t1
  t2 = t2
  t3 = t3
  t4 = t4
  TraceTargets = {t1, t2, t3, t4}
  TraceRoot = t1
  MaxTraceQueries = 2
  MaxTraceResources = 3
  MaxTracePage = 2
  FanRegions = {"r1", "r2"}
  FanCurrent = "r1"
  FanSlots = 1
  MaxFanUpdates = 2
CHECK_DEADLOCK FALSE
INVARIANTS EnginesTypeOK SearchReportsWhatItSearched TraceKeepsToItsLimits
PROPERTIES FanoutCoversEveryRegion EnginesEnd

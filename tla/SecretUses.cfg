SPECIFICATION UseSpec
CONSTANTS
  p1 = p1
  p2 = p2
  f1 = f1
  f2 = f2
  v1 = v1
  v2 = v2
  None = None
  Procs = {p1, p2}
  Fields = {f1, f2}
  Values = {v1, v2}
  Tokens = {v2}
  Commands <- All
  Options <- AllOptions
  Failures = TRUE
  MaxCommands = 5
  MaxWeeks = 1
CHECK_DEADLOCK FALSE
SYMMETRY Symmetric
INVARIANTS TypeOK AloneFilesAgree
PROPERTIES StoreWritesSeeWhatTheyReplace TrashKeepsAndForgets

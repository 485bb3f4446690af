SPECIFICATION Spec
CONSTANTS
  key = key
  log = log
  tmp = tmp
  pipe = pipe
  Modes <- MCIncremental
  Tree <- MCListTree
  NumRecords <- MCNumRecords
  Initially = {key, log}
  Stdin = {pipe}
  Unreadable = {key}
  Mapped = {}
  SaveEvery = 1
  QueueCap = 2
  MaxRuns = 2
  MaxCrashes = 1
  MaxVersion = 1
INVARIANTS
  RestartSkipsScanned

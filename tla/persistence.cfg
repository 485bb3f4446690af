SPECIFICATION Spec
CONSTANTS
  key = key
  log = log
  tmp = tmp
  pipe = pipe
  Modes <- MCModes
  Tree <- MCTree
  NumRecords <- MCNumRecords
  Initially = {log}
  Stdin = {}
  Unreadable = {}
  Mapped = {tmp}
  SaveEvery = 1
  QueueCap = 1
  MaxRuns = 2
  MaxCrashes = 1
  MaxVersion = 2
INVARIANTS
  TypeOK
  MarkedWasRead
  CleanExitScanned
  ResumeSkipsRead
  ReadsOnlyChanged

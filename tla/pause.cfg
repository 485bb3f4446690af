SPECIFICATION Spec
CONSTANTS
  w1 = w1
  w2 = w2
  Worker <- MCWorker
  Top = 3
  Thresholds = {1, 3}
  ThermalMargin = 2
  RamMargin = 1
INVARIANTS
  TypeOK
  PauseHolds
PROPERTIES
  ResumesWhenSafe
  CalmResumes

SPECIFICATION Spec
CONSTANTS
  MaxSize = 6
  MaxChunks = 3
  Cancellable = TRUE
INVARIANTS
  TypeOK
  WholeLinesOnce
  NoLineLost
  FaultsExplained

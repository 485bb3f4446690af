SPECIFICATION Spec
CONSTANTS
  w1 = w1
  w2 = w2
  Worker <- MCWorker
  Char <- MCChar
  Word <- MCWord
  Lower <- MCLower
  Content <- MCContent
  Selections <- MCSelections
  Options <- MCOptions
  Dot = "."
  Esc = "/"
  Escape <- MCEscape
  Post <- MCPost
  MaxRecords = 3
INVARIANTS
  TypeOK
  LiteralsOnce
  MissNeedsRace
  KeepsWords

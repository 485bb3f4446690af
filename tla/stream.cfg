SPECIFICATION Spec
CONSTANTS
  Inputs <- MCInputs
  Options <- MCOptions
  PipeCap = 2
  OutCap = 1
INVARIANTS
  TypeOK
  InOrderAndWhole
  MarkedUnreadExplained
PROPERTIES
  GetsPast

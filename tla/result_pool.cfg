SPECIFICATION Spec
CONSTANTS
  w1 = w1
  w2 = w2
  o1 = o1
  o2 = o2
  o3 = o3
  tab = tab
  Worker <- MCWorker
  Object <- MCObject
  Client = {tab}
  NumHits = 2
  ResultCap = 1
  ClientCap = 1
  Webhook = TRUE
  Html = TRUE
INVARIANTS
  TypeOK
  OneOwner
  RegisteredIsOpen
PROPERTIES
  ScanEnds

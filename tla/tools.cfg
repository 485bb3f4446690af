SPECIFICATION Spec
CONSTANTS
  w1 = w1
  w2 = w2
  Worker <- MCWorker
  NumHits = 2
  Tools <- MCTools
  ToolIDs <- MCToolIDs
  NoRef = "none"
  MaxProc = 1
INVARIANTS
  TypeOK
  SlotPerTool
  FilledFromOwnMatch
  SentWithOutputs
PROPERTIES
  WorkflowEnds

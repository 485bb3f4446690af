SPECIFICATION Spec
CONSTANTS
  w1 = w1
  w2 = w2
  Token = Token
  Email = Email
  Secret = Secret
  Noise = Noise
  Worker <- MCWorker
  NumRecords = 3
  NumMatches <- MCNumMatches
  Keys <- MCKeys
  KeyOf <- MCKeyOf
  Interesting <- MCInteresting
  Entropic <- MCEntropic
  KnownKeys = {}
  RecordCap = 1
  ResultCap = 1
  Unique = FALSE
  GlobalDedupe = TRUE
  SmartMode = TRUE
  EntropyMode = FALSE
  DbReliable = TRUE
  Cancellable = FALSE
INVARIANTS
  SameFindingNeverTwice

CONSTANTS
  t1 = t1
  t2 = t2
  t3 = t3
  c1 = c1
  Tasks <- Three
  Contexts <- OneContext
  Home <- HomeOne
  SqEntries = 2
  SyncWake = FALSE
  Bits = {1, 2}
  MaxCount = 2
  InitialCount = 0
  Spurious = FALSE
SPECIFICATION FairSpec
INVARIANTS
  TypeOK
PROPERTIES
  RefinesSemaphore
  CallAnswered

CONSTANTS
  t1 = t1
  t2 = t2
  t3 = t3
  c1 = c1
  c2 = c2
  Tasks <- MCTasks
  Contexts <- MCContexts
  Home <- MCHome
  SqEntries = 2
  SyncWake = FALSE
  Bits = {1}
SPECIFICATION FairSpec
INVARIANTS
  TypeOK
  MutualExclusion
  OpOwned
  NoLostWakeup
PROPERTIES
  HandOff
  RefinesAbstractMutex

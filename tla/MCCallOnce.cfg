CONSTANTS
  t1 = t1
  t2 = t2
  t3 = t3
  c1 = c1
  c2 = c2
  Tasks <- MCTasks
  Contexts <- MCContexts
  Home <- MCHome
  SqEntries = 1
  SyncWake = TRUE
  Bits = {1}
SPECIFICATION OnceFairSpec
INVARIANTS
  DoneOnce
  GuardOwnsMutex
PROPERTIES
  AllReturn

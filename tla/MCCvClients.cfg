CONSTANTS
  t1 = t1
  t2 = t2
  c1 = c1
  c2 = c2
  Tasks <- Two
  Contexts <- MCContexts
  Home <- MCHome
  SqEntries = 2
  SyncWake = FALSE
  Bits = {1, 2}
  Masks <- Overlapping
  Alls = {TRUE}
SPECIFICATION FairSpec
INVARIANTS
  NobodySleepsThrough
PROPERTIES
  WaitEnds

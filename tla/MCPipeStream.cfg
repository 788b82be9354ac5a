CONSTANTS
  r = r
  w = w
  c1 = c1
  Tasks <- Both
  Contexts = {c1}
  Home <- HomeOne
  SqEntries = 1
  SyncWake = FALSE
  Bits = {1, 2}
  Items <- Chunks
  NoItem = none
  Lost = lost
  Junk <- EndOnly
  MaxSize = 2
  Slacks = {TRUE, FALSE}
  AlwaysNotify = FALSE
  Poppers = {r}
  Pushers = {w}
  Pollers = {}
  Reader = r
  Writer = w
  BufSize = 2
  MaxPut = 3
  Lengths <- Spans
  MaxBytes = 3
  NoBuffer = unallocated
SPECIFICATION PipeFairSpec
INVARIANTS
  PipeTypeOK
  Conserved
  EndIsEnd
  NoStrandedPopper
  NoStrandedPusher
PROPERTIES
  HarmKnown
  EndSeen
CHECK_DEADLOCK FALSE

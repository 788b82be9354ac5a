CONSTANTS
  t1 = t1
  t2 = t2
  t3 = t3
  c1 = c1
  Tasks <- Three
  Contexts <- OneContext
  Home <- HomeOne
  SqEntries = 1
  SyncWake = FALSE
  Bits = {1, 2}
  Items = {"a"}
  NoItem = "none"
  Lost = "lost"
  Junk = {"a"}
  MaxSize = 1
  Slacks = {FALSE}
  AlwaysNotify = TRUE
  Poppers = {t1, t2}
  Pushers = {t3}
  Pollers = {t3}
SPECIFICATION FairSpec
PROPERTIES
  
  PopAnswered
  PushAnswered

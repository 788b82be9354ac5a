CONSTANTS
  a = a
  b = b
  Tasks <- Two
  Contexts <- Two
  Home <- MCHome
  SqEntries = 1
  SyncWake = FALSE
  Bits = {1}
  Ids <- MCIds
  Framings <- MCFramings
  Slots = 1
  MaxRequests = 2
  MaxGcs = 1
  Supported = TRUE
SPECIFICATION FairSpec
INVARIANTS
  EntryOwned
  NoAnswerDue
PROPERTIES
  AnswerMatches
  ConnectReturns
CHECK_DEADLOCK FALSE

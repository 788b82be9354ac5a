CONSTANTS
  Clients = {a, b}
  Threads = {w1, w2}
  Destroys = TRUE
  Gone = Gone
  NoThread = NoThread
  NoClient = NoClient
SPECIFICATION FairSpec
CHECK_DEADLOCK FALSE
PROPERTIES
  DestructorReturns

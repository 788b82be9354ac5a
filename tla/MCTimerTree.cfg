CONSTANTS
  main = main
  s1 = s1
  s2 = s2
  s3 = s3
  Nodes <- Four
  Main = main
  Nil = nil
  Delays = {0, 2}
  MaxSleep = 1
  MaxCalls = 2
SPECIFICATION LoopSpec
INVARIANT
  TimersKept
CHECK_DEADLOCK FALSE

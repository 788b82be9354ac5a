CONSTANTS
  main = main
  s1 = s1
  s2 = s2
  s3 = s3
  Nodes <- Four
  Main = main
  Nil = nil
  Delays = {1, 3}
  MaxSleep = 2
  MaxCalls = 1
SPECIFICATION LoopFairSpec
INVARIANTS
  ReturnsWhenIdle
  TimersKeptUnlessTorn
  WakesInTime
PROPERTIES
  InTurn
  SleepEnds
CHECK_DEADLOCK FALSE

CONSTANT
  Kind <- Mixed
SPECIFICATION FairSpec
INVARIANTS
  WinnerReported
  NothingOutlives
PROPERTIES
  OneWinner
  WonEnds

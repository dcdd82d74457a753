CONSTANTS
  MaxAttempts = 4
  RetryTime   = 20
  Jitter      <- MCJitter
SPECIFICATION FairSpec
INVARIANTS
  ReportIsTrue
  AtMostOneLateCall
PROPERTIES
  Returns
  CancelEndsDo
  ImplementsAtLeastOnce

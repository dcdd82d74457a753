\* Three chunks, two workers, fewer possible failures than workers.
CONSTANTS
  NumItems    = 5
  Items       <- MCItems
  Yield       <- MCYield
  BatchSize   = 2
  MaxWorkers  = 2
  MaxFailures = 1
SPECIFICATION FairSpec
INVARIANTS
  WorkersBounded
  NoStrayWorker
  AnswerIsExact
PROPERTIES
  Returns
  StepsRunOut
  ImplementsBatchProcessing

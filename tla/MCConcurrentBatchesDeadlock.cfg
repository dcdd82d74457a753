\* Three chunks, two workers, and both of the first two batches may fail.
\* The system does stop: that is what the run shows.
CONSTANTS
  NumItems    = 3
  Items       <- MCItems
  Yield       <- MCYield
  BatchSize   = 1
  MaxWorkers  = 2
  MaxFailures = 2
SPECIFICATION FairSpec
PROPERTIES
  Returns
CHECK_DEADLOCK FALSE

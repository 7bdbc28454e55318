SPECIFICATION FairSpec
CONSTANTS
  Grid <- FourJobs
  Header = 0
  Fields = 2
  Workers = {w0, w1, w2}
  Spawner = w0
  NoWorker = NoWorker
  Broken = {2}
  MaxFailures = 2
INVARIANTS
  RowsNeverMixed
  CompleteUnlessRefused
PROPERTIES
  FailureIsFinal
  Ends
CHECK_DEADLOCK FALSE

SPECIFICATION FairSpec
CONSTANTS
  Workers = {w1, w2, w3}
  Jobs = {j1, j2, j3, bad}
  FailingJobs = {bad}
  Null = Null
INVARIANTS TypeOK WorkConserving OneOwner CancelReachesEveryWorker
PROPERTIES NoJobStartsWhileCancelling EveryJobLeavesQueue ShutdownCompletes
\* the process stops after the destructor or after a job throws
CHECK_DEADLOCK FALSE

CONSTANTS
  w1 = w1
  w2 = w2
  shared = shared
  Jobs = {"job1"}
  Workers = {w1, w2}
  WorkerId <- SharedName
  LegacyJobs = {}
  MaxAttempts = 3
  LeaseTerm = 2
  MaxLag = 1
  Requests = {r1, r2}
  MaxCrashes = 3
  AtomicRetry = FALSE
  RenewErrors = TRUE
  NoWorker = NoWorker
  NoJob = NoJob
  NoTime = NoTime
SPECIFICATION Spec
INVARIANTS
  FencedWriteNeverConflicts
  ReviewedResultIsTheLastSuccess
CHECK_DEADLOCK FALSE

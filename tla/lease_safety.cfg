CONSTANTS
  w1 = w1
  w2 = w2
  shared = shared
  Jobs = {"job1"}
  Workers = {w1, w2}
  WorkerId <- OwnNames
  LegacyJobs = {"job1"}
  MaxAttempts = 3
  LeaseTerm = 2
  MaxLag = 1
  Requests = {r1}
  MaxCrashes = 2
  AtomicRetry = TRUE
  RenewErrors = TRUE
  NoWorker = NoWorker
  NoJob = NoJob
  NoTime = NoTime

SPECIFICATION FairSpec
INVARIANTS
  TypeOK
  AttemptHistoryMatchesLease
  UnsettledAttemptIsCurrent
  QueuedOrOwned
  OutcomesAgree
PROPERTIES
  DeadLetterIsFinal
  ImplementsLifecycle
  NoJobIsStuck
CHECK_DEADLOCK FALSE

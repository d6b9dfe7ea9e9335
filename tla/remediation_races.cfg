SPECIFICATION Spec
CONSTANTS
  j1 = j1
  j2 = j2
  c1 = c1
  Jobs = {j1, j2}
  Cases = {c1, c2}
  Source <- OneAfterOther
  Demo = {c2}
  Requests = {r1, r2}
  Keys = {1, 2, 3, 4}
  MaxRuns = 2
  MaxAttempts = 2
  OneWriter = FALSE
  NoJob = NoJob
  NoCase = NoCase
  NoKey = NoKey
SYMMETRY Interchangeable
INVARIANTS
  CasesAreSound
  ReviewedSourceIsDecided
  LiveVersionNamesOneChange
PROPERTIES
  ImplementsFindingLifecycle
CHECK_DEADLOCK FALSE

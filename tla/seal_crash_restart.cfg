CONSTANTS
  j1 = j1
  j2 = j2
  s1 = s1
  s2 = s2
  Jobs = {j1}
  Sessions = {s1}
  MaxFaults = 4
  Meddling = FALSE
  NoJob = NoJob

SPECIFICATION FairSpec
INVARIANTS
  InterruptionLeavesNoMark
PROPERTIES
  CompletedIsFinal
  SealSettles
CHECK_DEADLOCK FALSE

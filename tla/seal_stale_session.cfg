CONSTANTS
  j1 = j1
  j2 = j2
  s1 = s1
  s2 = s2
  Jobs = {j1}
  Sessions = {s1, s2}
  MaxFaults = 0
  Meddling = FALSE
  NoJob = NoJob

SPECIFICATION Spec
PROPERTIES
  CompletedIsFinal
CHECK_DEADLOCK FALSE

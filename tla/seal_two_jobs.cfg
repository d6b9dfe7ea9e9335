CONSTANTS
  j1 = j1
  j2 = j2
  s1 = s1
  s2 = s2
  Jobs = {j1, j2}
  Sessions = {s1, s2}
  MaxFaults = 2
  Meddling = TRUE
  NoJob = NoJob

SPECIFICATION Spec
INVARIANTS
  ApprovedIsSealed
  LedgerIsSound
PROPERTIES
  LedgerOnlyGrows
CHECK_DEADLOCK FALSE

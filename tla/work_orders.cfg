SPECIFICATION Spec
CONSTANTS
    Orders = {"w1"}
    Jobs = {"j1", "j2"}
    Clerks = {"c1", "c2"}
    Designs <- MCDesigns
    Policies <- MCPolicies
    Captures <- MCCaptures
    Observations <- MCObservations
    Numbers <- MCNumbers
    OneWriter = FALSE
INVARIANTS
    VerdictsAreEarned
    RefusalNeedsARival
PROPERTIES
    OnlyOpenSessionsOverwriteADeviation
    UploadedEvidenceIsDecided
CHECK_DEADLOCK FALSE

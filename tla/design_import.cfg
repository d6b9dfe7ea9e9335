SPECIFICATION Spec
CONSTANTS
    Uploads = {u1, u2}
    Confirms = {c1, c2}
    JsonUploads = {j1}
    Codes = {p, q}
    Limits <- MCLimits
    Contents <- MCContents
    JsonFiles <- MCJsonFiles
    MaxPending = 1
    MaxPendingBytes = 2
    MaxScan = 6
    MaxOthers = 1
    MaxJsonBytes = 2
    MaxFaults = 1
    OneWriter = FALSE
SYMMETRY Alike
INVARIANTS
    PackagesAreWhatWasShown
    PendingWithinQuota
    StagingKeepsWhatItOwes
CHECK_DEADLOCK FALSE

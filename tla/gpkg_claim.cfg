SPECIFICATION Spec
CONSTANTS
    Uploads = {u1}
    Confirms = {c1, c2, c3}
    JsonUploads = {}
    Codes = {p}
    Limits <- MCLimits
    Contents <- MCContents
    JsonFiles <- MCNoJson
    MaxPending = 2
    MaxPendingBytes = 3
    MaxScan = 6
    MaxOthers = 1
    MaxJsonBytes = 2
    MaxFaults = 0
    OneWriter = FALSE
SYMMETRY Alike
INVARIANTS
    ExclusiveClaim
CHECK_DEADLOCK FALSE

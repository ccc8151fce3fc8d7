CONSTANTS
    MaxRows = 2
    BlockSize = 2
    MaxSequence = 8
    MaxClaims = 0
    MaxCallers = 0
    MirrorCap = 1
    MaxAppends = 1
    MaxUnnoted = 1
    MaxConn = 2
    MaxFaults = 0
    MayFail = FALSE
    Metadata = {}
    Folder = {}
SPECIFICATION Spec
INVARIANTS RowsStillOfferable
CHECK_DEADLOCK FALSE

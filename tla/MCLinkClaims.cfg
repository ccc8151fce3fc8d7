CONSTANTS
    MaxRows = 2
    BlockSize = 2
    MaxSequence = 8
    MaxClaims = 1
    MaxCallers = 1
    MirrorCap = 1
    MaxAppends = 0
    MaxUnnoted = 1
    MaxConn = 1
    MaxFaults = 0
    MayFail = FALSE
    Metadata = {}
    Folder = {}
SPECIFICATION FairSpec
PROPERTIES LinkGoesLive
CHECK_DEADLOCK FALSE

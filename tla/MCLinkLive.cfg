CONSTANTS
    MaxRows = 2
    BlockSize = 2
    MaxSequence = 8
    MaxClaims = 0
    MaxCallers = 0
    MirrorCap = 1
    MaxAppends = 1
    MaxUnnoted = 1
    MaxConn = 2
    MaxFaults = 1
    MayFail = FALSE
    Metadata = {1, 3}
    Folder = {1}
SPECIFICATION FairSpec
PROPERTIES EveryRowRetired LinkGoesLive
CHECK_DEADLOCK FALSE

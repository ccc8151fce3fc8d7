CONSTANTS
    MaxRows = 2
    BlockSize = 2
    MaxSequence = 8
    MaxClaims = 0
    MaxCallers = 0
    MirrorCap = 1
    MaxAppends = 2
    MaxUnnoted = 1
    MaxConn = 2
    MaxFaults = 1
    MayFail = TRUE
    Metadata = {1, 4}
    Folder = {1}
SPECIFICATION Spec
INVARIANTS TypeOK SnapshotCoversRows OneInFlight DrainedBetweenDrains
PROPERTIES DeliveredInOrder LiveMeansCaughtUp
CHECK_DEADLOCK FALSE

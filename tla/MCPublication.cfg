CONSTANTS
    d1 = d1
    MaxSeq = 5
    Snapshots = {1, 4}
    Metadata = {2, 5}
    Folder = {2}
    MaxConn = 3
    Direct = {d1}
    MaxEntries = 1
    MaxFaults = 2
SPECIFICATION Spec
INVARIANTS TypeOK NoOrphanSlot AckedIsDurable
PROPERTIES BusPromise PublishedInOrder
CHECK_DEADLOCK FALSE

CONSTANTS
    s1 = s1
    s2 = s2
    r1 = r1
    r2 = r2
    Sessions = {s1}
    Requests = {r1}
    MaxPasses = 0
    MaxDrops = 0
SPECIFICATION FairSpec
PROPERTIES RefusedIsReplayed
CHECK_DEADLOCK FALSE

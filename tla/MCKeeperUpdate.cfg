CONSTANTS
    s1 = s1
    s2 = s2
    r1 = r1
    r2 = r2
    Sessions = {s1}
    Requests = {r1, r2}
    MaxPasses = 1
    MaxDrops = 1
SPECIFICATION FairSpec
INVARIANTS TypeOK ProofStands ClosedWhilePrepared
PROPERTIES DestroysOnlyDecided PreparationSettles
CHECK_DEADLOCK FALSE

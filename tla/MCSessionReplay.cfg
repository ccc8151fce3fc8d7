CONSTANTS
    s1 = s1
    s2 = s2
    Sessions = {s1, s2}
    Adopted = {s1}
    MetaKinds = {"folder"}
    ForceClosable = {s1}
    Killable = {s1, s2}
    MaxConn = 2
SPECIFICATION FairSpec
INVARIANTS TypeOK ClosedStaysClosed Agreement
PROPERTIES OwnClosesReplay
CHECK_DEADLOCK FALSE

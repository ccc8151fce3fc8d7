CONSTANTS
    s1 = s1
    s2 = s2
    Sessions = {s1}
    Adopted = {s1}
    MetaKinds = {}
    ForceClosable = {s1}
    Killable = {}
    MaxConn = 2
SPECIFICATION FairSpec
PROPERTIES ReplayCompletes
CHECK_DEADLOCK FALSE

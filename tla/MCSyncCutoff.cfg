CONSTANTS
    s1 = s1
    s2 = s2
    Sessions = {s1, s2}
    Astray = {s2}
    Cursors = {0}
    MaxAppends = 2
    HoldMax = 2
    QueueMax = 2
    Window = 1
    MaxDrops = 1
    MaxFaults = 0
SPECIFICATION Spec
PROPERTY CutoffIsFinal
CHECK_DEADLOCK FALSE

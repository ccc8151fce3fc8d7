CONSTANTS
    s1 = s1
    s2 = s2
    Sessions = {s1, s2}
    Astray = {s2}
    Cursors = {0, 5}
    MaxAppends = 2
    HoldMax = 2
    QueueMax = 2
    Window = 1
    MaxDrops = 1
    MaxFaults = 1
SPECIFICATION Spec
INVARIANTS TypeOK SeamExact NoFrameBeforeHydration ConvergedWhenQuiet
PROPERTIES EventuallyConverged
CHECK_DEADLOCK FALSE

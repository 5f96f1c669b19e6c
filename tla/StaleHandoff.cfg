SPECIFICATION FairSpec
CONSTANTS
    Proc = {p1, p2}
    None = None
    Dead = Dead
    NumGens = 2
    Identical = {}
    MaxUpdates = 2
    MaxCrashes = 1
    MaxRefs = 1
PROPERTIES GateSettles
CHECK_DEADLOCK FALSE

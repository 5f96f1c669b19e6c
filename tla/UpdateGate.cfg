SPECIFICATION FairSpec
CONSTANTS
    Proc = {p1, p2}
    None = None
    Dead = Dead
    NumGens = 3
    Identical <- SameDependencies
    MaxUpdates = 2
    MaxCrashes = 3
    MaxRefs = 2
INVARIANTS Consistent WritersSeeOpenGate OpenIsWhole CrashAloneNeverManual
PROPERTIES NoReopenPastHandoff GateSettlesUnlessStale
CHECK_DEADLOCK FALSE

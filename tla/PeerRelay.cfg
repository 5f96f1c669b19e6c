SPECIFICATION FairSpec
CONSTANTS
    NumRows = 2
    Session = {s1}
    NumProcs = 2
    None = None
    Human = Human
    Batch = 2
    MaxAttempts = 2
    MaxBoots = 1
    MaxHumans = 1
    Faults <- AllFaults
INVARIANTS TypeOK ReadAtMostOnce VerdictIsTrue InOrder
PROPERTIES GivenUpAfterTries Resolved
CHECK_DEADLOCK FALSE

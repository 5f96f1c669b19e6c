SPECIFICATION FairSpec
CONSTANTS
    Msg = {m1, m2}
    User = {u1, u2}
    Starter = u1
    None = None
    MaxTurns = 2
    QueueMax = 1
    PerTurnMax = 2
    MaxOut = 1
INVARIANTS InOnePlace VerdictIsTrue ReadOnceByItsRun OthersNeedTheStarter
PROPERTIES GraceSparesSteers Settled
CHECK_DEADLOCK FALSE

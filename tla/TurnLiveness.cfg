SPECIFICATION FairSpec
CONSTANTS
    Turn = {t1}
    Exec = {e1, e2}
    Proc = {p1, p2, p3}
    hosted = hosted
    cli = cli
    s1 = s1
    s2 = s2
    Runtime = {hosted, cli}
    RuntimeOf <- OneRuntime
    SessionOf <- OneSession
    Fresh = Fresh
    MayOverlap = FALSE
    Reused = {p1}
    None = None
INVARIANTS LeaseHasHolder
PROPERTIES CancelCompletes RunningIsResolved DeadOwnerReleased
CHECK_DEADLOCK FALSE

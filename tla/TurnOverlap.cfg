SPECIFICATION Spec
CONSTANTS
    Turn = {t1}
    Exec = {e1, e2}
    Proc = {p1, p2, p3}
    hosted = hosted
    cli = cli
    s1 = s1
    s2 = s2
    Runtime = {cli}
    RuntimeOf <- OneRuntime
    SessionOf <- OneSession
    Fresh = Fresh
    MayOverlap = TRUE
    Reused = {p1, p2, p3}
    None = None
SYMMETRY Symmetry
INVARIANTS AtMostOnceDispatch WorkingHoldsLease
PROPERTIES ImplementsContract
CHECK_DEADLOCK FALSE

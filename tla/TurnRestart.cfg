SPECIFICATION Spec
CONSTANTS
    Turn = {t1, t2}
    Exec = {e1, e2}
    Proc = {p1, p2, p3}
    hosted = hosted
    cli = cli
    s1 = s1
    s2 = s2
    Runtime = {hosted, cli}
    RuntimeOf <- TwoRuntimes
    SessionOf <- FirstIsFresh
    Fresh = Fresh
    MayOverlap = FALSE
    Reused = {p1, p2, p3}
    None = None
SYMMETRY Symmetry
INVARIANTS ReapedIsQuiet RunningHasDriver
PROPERTIES NoDispatchAfterCancel
CHECK_DEADLOCK FALSE

SPECIFICATION Spec
CONSTANTS
    Root = {x1, x2}
    Run = {r1, r2, r3}
    NoRoot = NoRoot
INVARIANTS RunsFollowTheirRoot
PROPERTIES CompletionOrCancellation
CHECK_DEADLOCK FALSE

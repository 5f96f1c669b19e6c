SPECIFICATION Spec
CONSTANTS
    Message = {1, 2}
    Content = {1, 2}
    Call = {c1, c2, c3, c4}
    Supervised = {2}
    MaxExits = 2
    None = None
    c4 = c4
    c3 = c3
    c2 = c2
    c1 = c1
SYMMETRY CallIds
INVARIANTS LaunchedOnceAsBound
PROPERTIES AnswersAreTrue
CHECK_DEADLOCK FALSE

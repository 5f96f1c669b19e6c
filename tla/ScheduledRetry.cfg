SPECIFICATION FairSpec
CONSTANTS
    Message = {1}
    Content = {1, 2}
    Session = {s1, s2}
    User = {u1}
    Delivery = {d1, d2}
    SessionOf <- OneSession
    OwnerOf <- OneOwner
    Slot = {1}
    Cap = 2
    UserCap = 2
    MaxAttempts = 2
    MaxEdits = 2
    MaxExits = 2
    Faults = TRUE
    s1 = s1
    s2 = s2
    u1 = u1
    d1 = d1
    d2 = d2
    None = None
    Lost = Lost
INVARIANTS OneEffectAsTold
PROPERTIES DueIsResolved
CHECK_DEADLOCK FALSE

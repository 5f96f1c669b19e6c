SPECIFICATION Spec
CONSTANTS
    Message = {1, 2}
    Content = {1, 2}
    Session = {s1, s2}
    User = {u1}
    Delivery = {d1, d2}
    SessionOf <- TwoSessions
    OwnerOf <- OneOwner
    Slot = {1}
    Cap = 1
    UserCap = 2
    MaxAttempts = 1
    MaxEdits = 1
    MaxExits = 1
    Faults = FALSE
    s1 = s1
    s2 = s2
    u1 = u1
    d1 = d1
    d2 = d2
    None = None
    Lost = Lost
SYMMETRY DeliveryIds
INVARIANTS TurnsWithinCaps
PROPERTIES LaunchesWhatIsScheduled
CHECK_DEADLOCK FALSE

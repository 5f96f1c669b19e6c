SPECIFICATION FairSpec
CONSTANTS
    Decision = {1, 2}
    Session = {s1}
    User = {u1}
    u1 = u1
    UserOf <- OneUser
    Proc = {p1, p2}
    Kind = {"turn", "spawn", "read"}
    None = None
INVARIANTS OutcomeIsHonest FencesHold
PROPERTIES NoClaimBesideAnOrphan NodeReturns
CHECK_DEADLOCK FALSE

CONSTANTS
    Workers = {w1, w2}
    Users = {u1}
    Tokens = {t1, t2, t3}
    None = None
    MaxAttempts = 1
    Faults = {}
SPECIFICATION FairSpec
INVARIANTS
    RevokedStayDead
    ReuseMeansReplay
PROPERTIES
    ReuseIsPunished
    RequestsEnd
CHECK_DEADLOCK FALSE

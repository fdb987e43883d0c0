CONSTANTS
    Workers = {w1, w2}
    Users = {u1}
    Tokens = {t1, t2, t3}
    None = None
    MaxAttempts = 1
    Faults = {}
SYMMETRY Symmetry
SPECIFICATION Spec
INVARIANTS
    ReusedSessionIsOver
CHECK_DEADLOCK FALSE

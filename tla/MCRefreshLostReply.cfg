CONSTANTS
    Workers = {w1}
    Users = {u1}
    Tokens = {t1}
    None = None
    MaxAttempts = 2
    Faults = {"lost"}
SYMMETRY Symmetry
SPECIFICATION Spec
INVARIANTS
    ReuseMeansReplay
CHECK_DEADLOCK FALSE

CONSTANTS
    Workers = {w1, w2}
    Users = {u1, u2}
    Tokens = {t1, t2, t3}
    None = None
    MaxAttempts = 2
    Faults = {"fail", "lost", "breaker", "postgres"}
SYMMETRY Symmetry
VIEW View
SPECIFICATION Spec
INVARIANTS
    LiveIsIndexed
    OneSuccessor
PROPERTIES
    ServiceSpec
CHECK_DEADLOCK FALSE

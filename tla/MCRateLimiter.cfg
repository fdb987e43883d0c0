CONSTANTS
    Requests = {q1, q2}
    Keys = {k1, k2}
    Limiters = {i1, i2, i3}
    None = None
    Burst = 2
    EntryTTL = 3
    MaxDelay = 2
    MaxWindow = 3
SPECIFICATION FairSpec
INVARIANTS
    RateHolds
PROPERTIES
    BucketSpec
    IdleIsEvicted

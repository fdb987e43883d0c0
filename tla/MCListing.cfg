CONSTANTS
    Clients = {c1}
    Ranks = {1, 2, 3, 4, 5}
    Sizes = {0, 1, 2, 9}
    DefaultPageSize = 2
    MaxPageSize = 3
    Half = 4
SPECIFICATION Spec
INVARIANTS
    TypeOK
    WalkMissesNone
    PageFitsTotal

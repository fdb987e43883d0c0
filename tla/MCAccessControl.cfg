CONSTANTS
    Handlers = {h1, h2}
    UserIds = {u1, u2}
    None = None
    Faults = {"database", "redis"}
SPECIFICATION FairSpec
INVARIANTS
    OwnerClaimsAreTrue
    OthersSeenByManagers
PROPERTIES
    RolesSpec
    LostRightsStayLost
    LostRightsEnd

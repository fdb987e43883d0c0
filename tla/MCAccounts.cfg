CONSTANTS
    Handlers = {h1, h2}
    UserIds = {u1, u2, u3, u4}
    Emails = {e1, e2}
    Passwords = {p1, p2}
    Names = {n1}
    None = None
    Faults = {"database", "redis", "audit"}
SYMMETRY Symmetry
SPECIFICATION Spec
INVARIANTS
    OwnerExists
    ClaimLostToOwner
    SavesDoNotCollide
    AdminIsGranted
    RoleAuditIsTrue
PROPERTIES
    OwnerIsPermanent
    RolesSpec

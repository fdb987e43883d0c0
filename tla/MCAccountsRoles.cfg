CONSTANTS
    Handlers = {h1, h2}
    UserIds = {u1, u2, u3, u4}
    Emails = {e1, e2}
    Passwords = {p1}
    Names = {n1}
    None = None
    Faults = {}
SYMMETRY Symmetry
SPECIFICATION Spec
PROPERTY OnlyChangeRoleChangesRoles

CONSTANTS
    Handlers = {h1, h2}
    UserIds = {u1, u2, u3}
    Objects = {o1, o2, o3}
    Emails = {e1, e2}
    None = None
SYMMETRY Symmetry
SPECIFICATION Spec
INVARIANTS
    OwnersAreMade
    OneFirstOwner
    EmailsClashOnlyInRaces
PROPERTIES
    SavesUndoNothing

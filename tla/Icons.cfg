CONSTANTS
    Requests = {r1, r2}
    Icons = {i1, i2}
    Uuids = {u1, u2, u3}
    Older = {u1}
    Groups = {g1}
    SameNumber <- MCSameNumber
    None = None
    Gone = Gone
SPECIFICATION Spec
SYMMETRY Symmetric
CHECK_DEADLOCK FALSE
INVARIANTS
    IconsTypeOK
    DeletionIsComplete
    LinksAreOwnIcons
    LoneSyncLinks
PROPERTIES
    ImplementsIconStore

CONSTANTS
    Groups = {g1, g2}
    Syncs = {q1}
    Requests = {r1, r2, r3}
    ZoneIds = {z1, z2}
    Keep = Keep
    None = None
SPECIFICATION HSpec
SYMMETRY Symmetric
CHECK_DEADLOCK FALSE
INVARIANTS
    ZonesTypeOK
    ZonesHaveDefault
    LoneSyncIsExact
    DeletedGroupsTakeZones

CONSTANTS
    Groups = {g1}
    Syncs = {q1, q2}
    Requests = {r1}
    ZoneIds = {z1}
    Keep = Keep
    None = None
SPECIFICATION HSpec
CHECK_DEADLOCK FALSE
PROPERTIES
    DeletedGroupsStayDeleted

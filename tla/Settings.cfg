CONSTANTS
    Requests = {r1, r2}
    Categories = {c1, c2}
    Groups = {g1, g2}
    Names = {n1, n2}
    Configs = {k1, k2}
    Zones = {z1}
    Columns = {col1, col2}
    Related = {col2}
    Perms = {p1, p2}
    Values = {v1, v2}
    CrawlIds = {w1, w2}
    Channels = {t1, t2}
    Times = {m1, m2}
    Lists <- MCLists
    None = None
    Gone = Gone
SPECIFICATION Spec
SYMMETRY Symmetric
CHECK_DEADLOCK FALSE
INVARIANTS
    SettingsTypeOK
    GroupsStand
    PermissionsStand
    ReportStands
    GroupsKeepCategory
    ZonesLeaveNothing
PROPERTIES
    LonePatchIsExact

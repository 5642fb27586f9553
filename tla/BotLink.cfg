CONSTANTS
    Requests = {r1, r2}
    ServerIds = {s1, s2}
    ServerNames = {n1, n2}
    Home = s1
    ZoneIds = {z1, z2}
    ZoneNames = {n1, n2}
    Minutes = {0, 1, 2, 3}
    Bodies <- MCBodies
    Rows <- MCRows
    None = None
    Gone = Gone
SPECIFICATION Spec
SYMMETRY Symmetric
CHECK_DEADLOCK FALSE
INVARIANTS
    BotLinkTypeOK
    NoBareServer
    DeletionStands
    NamesClashOnlyByRace
    MinutesOrdered
    ToldIsTable

SPECIFICATION Spec
CONSTANTS
  Requests = {r1, r2, r3}
  Clients = {c1, c2}
  TsIds = {t1, t2}
  Allowed = 1
  MaxAsked = 0
  LostAcks = TRUE
  None = None
SYMMETRY Symmetry
INVARIANTS
  TypeOK
  OneChannelPerClient
  RowsAreOwnChannels
  NoSilentOrphan
  RemovalIsComplete
PROPERTIES
  RowOutlivesChannel
  ImplementsLedger

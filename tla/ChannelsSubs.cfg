SPECIFICATION FairSpec
CONSTANTS
  Requests = {r1, r2, r3}
  Clients = {c1}
  TsIds = {t1}
  Allowed = 1
  MaxAsked = 1
  LostAcks = FALSE
  None = None
INVARIANTS
  UndoSparesRecorded
  OneAdderKeepsLimit
PROPERTIES
  EveryRequestEnds

SPECIFICATION FairSpec
CONSTANTS
  Deletions = {d1, d2}
  Readers = {q1}
  Connections = {k1, k2}
  None = None
PROPERTY
  EveryCallReturns
CHECK_DEADLOCK FALSE

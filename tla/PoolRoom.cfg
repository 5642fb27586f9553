SPECIFICATION FairSpec
CONSTANTS
  Deletions = {d1, d2}
  Readers = {q1, q2}
  Connections = {k1, k2, k3}
  None = None
INVARIANTS
  PoolTypeOK
  EndedHoldNothing
  PoolNotStuck
PROPERTY
  EveryCallReturns

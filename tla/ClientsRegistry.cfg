SPECIFICATION Spec
CONSTANTS
  Requests = {r1, r2, r3}
  Users = {u1, u2}
  Servers = {s1, s2}
  Idents = {d1, d2}
  Addresses = {a1}
  RowIds = {i1, i2}
  TokenIds = {k1, k2, k3, k4}
  None = None
SYMMETRY Symmetry
INVARIANTS
  ClientsTypeOK
  AnsweredLinksStand
  TokensStand
PROPERTIES
  ImplementsRegistry

SPECIFICATION Spec
CONSTANTS
  Requests = {r1, r2}
  Users = {u1}
  Servers = {s1}
  Idents = {d1, d2}
  Addresses = {a1}
  RowIds = {i1}
  TokenIds = {k1, k2}
  None = None
INVARIANT
  OneFoundIsVerified

SPECIFICATION TenantsSpec
CONSTANTS
  Org = {o1, o2}
  Doc = {d1, d2}
  Req = {r1, r2}
  Key = {k1}
  Size = {1}
  Digest = {s1}
  MinRowSize = 0
  None = None
INVARIANTS
  OneEventPerKey
  TenantIsolation
PROPERTY
  RequestsEnd
CHECK_DEADLOCK FALSE

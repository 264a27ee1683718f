SPECIFICATION Spec
CONSTANTS
  Org = {o1}
  Doc = {d1}
  Req = {r1, r2, r3}
  Key = {k1}
  Size = {1}
  Digest = {s1, s2}
  MinRowSize = 0
  None = None
SYMMETRY Symmetry
INVARIANTS
  TypeOK
  TransactionalOutbox
  OneEventPerKey
  DocumentFollowsUploads
  AnnouncedBytesStored
PROPERTIES
  ImplementsLedger
CHECK_DEADLOCK FALSE

SPECIFICATION Spec
CONSTANTS
  Org = {o1, o2}
  Doc = {d1}
  Req = {r1, r2, r3}
  Key = {k1}
  Name = {n1}
  Size = {1, 2}
  Digest = {s1}
  MaxRestarts = 1
  Torn = Torn
  None = None
SYMMETRY Symmetry
INVARIANTS
  TypeOK
  OneUploadPerKey
  ShownIsExplained
  ConfirmedHasFile
PROPERTIES
  ConfirmedOnce
CHECK_DEADLOCK FALSE

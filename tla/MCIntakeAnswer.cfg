SPECIFICATION Spec
CONSTANTS
  Org = {o1}
  Doc = {d1}
  Req = {r1, r2}
  Key = {k1}
  Size = {1}
  Digest = {s1}
  MinRowSize = 1
  None = None
INVARIANTS
  AnsweredUploadRecorded
CHECK_DEADLOCK FALSE

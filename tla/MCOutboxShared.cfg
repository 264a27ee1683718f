SPECIFICATION Spec
CONSTANTS
  Event = {e1, e2}
  GoPublisher = {g1}
  PyPublisher = {f1}
  Limit = 2
  BackoffCap = 1
  AttemptCap = 2
  Faults = {"claim", "drop", "publish", "mark", "markFailed", "shutdown", "crash"}
  MaxFaults = 3
  None = None
INVARIANTS
  TypeOK
  ExclusiveClaim
  PublishedWasHanded
  DuplicatesNeedFaults
CHECK_DEADLOCK FALSE

SPECIFICATION FairSpec
CONSTANTS
  Event = {e1, e2}
  GoPublisher = {g1}
  PyPublisher = {f1}
  Limit = 2
  BackoffCap = 1
  AttemptCap = 2
  Faults = {"publish", "mark"}
  MaxFaults = 2
  None = None
PROPERTIES
  EventuallyPublished
CHECK_DEADLOCK FALSE

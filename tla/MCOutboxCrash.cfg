SPECIFICATION FairSpec
CONSTANTS
  Event = {e1}
  GoPublisher = {g1}
  PyPublisher = {}
  Limit = 2
  BackoffCap = 1
  AttemptCap = 2
  Faults = {"crash"}
  MaxFaults = 1
  None = None
PROPERTIES
  EventuallyDelivered
CHECK_DEADLOCK FALSE

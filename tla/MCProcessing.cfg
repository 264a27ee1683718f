SPECIFICATION FairSpec
CONSTANTS
  Event = {e1}
  Task = {t1, t2}
  Prefetch = 2
  MaxAttempts = 2
  MaxCopies = 2
  MaxCrashes = 1
  MaxDrops = 1
  None = None
INVARIANTS
  TypeOK
  NotLost
  ProcessedOnce
  DeadLetterEarned
PROPERTY
  Settles
CHECK_DEADLOCK FALSE

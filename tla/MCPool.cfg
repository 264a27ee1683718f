SPECIFICATION Spec
CONSTANTS
  Org = {o1, o2}
  Req = {r1, r2, r3}
  Workers = 2
  Unit = 2
  Rate = 1
  Burst = 2
  FailureThreshold = 2
  OpenDuration = 2
  MaxTime = 4
INVARIANTS
  TypeOK
  SlotsAreHeld
  RateBound
  BreakerCounts
PROPERTY
  RefusesWhileOpen
CHECK_DEADLOCK FALSE

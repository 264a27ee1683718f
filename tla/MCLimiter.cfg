SPECIFICATION LimiterSpec
CONSTANTS
  Addr = {a1, a2}
  RateLimitRPS = 3
  RateLimitBurst = 2
  Unit = 2
  MaxTime = 5
INVARIANTS
  AddressRateBound
CHECK_DEADLOCK FALSE

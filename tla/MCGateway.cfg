SPECIFICATION Spec
CONSTANTS
  Addr = {a1}
  RateLimitRPS = 1
  RateLimitBurst = 2
  Unit = 2
  MaxTime = 1
  c1 = c1
  c2 = c2
  Caller <- MCCaller
  Uses <- MCUses
  AskedOrgs = {Blanks, None}
  o1 = o1
  o2 = o2
  e0 = e0
  e1 = e1
  Org <- MCOrg
  Email <- MCEmail
  Earlier <- MCEarlier
  SeedEmail = e0
  SeedOrg = o1
  DevelopmentSeed = TRUE
  Word = {"admin", "member", "org_admin"}
  Doc = {d1}
  AccessTTL = 1
  MaxStops = 1
  Blanks = Blanks
  None = None
  RoleLists = {{}}
INVARIANTS
  AnswersAreTrue
  TypeOK
  OneAccountPerEmail
  ServedForOwner
  TokensAreBacked
CHECK_DEADLOCK FALSE

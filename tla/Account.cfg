SPECIFICATION FairSpec
CONSTANTS
  Request = {r1, r2}
  Email = {e1, e2}
  LongEmail = {e2}
  Password = {p1, p2}
  ChosenSlug = {x1}
  DerivedSlug = d1
  Suffixed = {x1, x2}
  None = None
  e1 = e1
  e2 = e2
  p2 = p2
  Credential <- MCCredential
  p1 = p1
  x1 = x1
  Seed <- MCSeed
  MaxFaults = 1
  MaxTenants = 3
  MaxOwned = 1
INVARIANTS
  TenantsSound
  RegistrationHolds
PROPERTIES
  Recovers
CHECK_DEADLOCK FALSE

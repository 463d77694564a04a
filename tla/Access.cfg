SPECIFICATION Spec
CONSTANTS
  t1 = t1
  t2 = t2
  u1 = u1
  u2 = u2
  User = {u1, u2, u3}
  Tenant = {t1, t2}
  Key = {k1}
  Founder <- MCFounder
  Request = {r1, r2}
  Caller = {u1, u2}
  Op <- MCOp
  Asked <- MCAsked
  None = None
  AccessTTL = 1
  MintedAt = {0, 1}
  Leeway = 0
  RequestTimeout = 1
  MaxTime = 2
  MaxGrants = 2
INVARIANTS
  NothingGrows
  KeyTrail
  GateStands
  DeadCredentialsStop
SYMMETRY Symmetry

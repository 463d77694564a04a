SPECIFICATION Spec
CONSTANTS
  User = {u1}
  Family = {f1, f2}
  Token = {t1, t2, t3}
  Request = {r1, r2}
  NoUser = NoUser
  NoFamily = NoFamily
  NoToken = NoToken
  Grace = 1
  TTL = 3
  RequestTimeout = 1
INVARIANTS
  LinearFamily
  OneRotationAfterRevocation
  RetriesAreTolerated
PROPERTIES
  ReplayEndsSession
SYMMETRY Interchangeable

SPECIFICATION LimiterSpec
CONSTANTS
  a1 = a1
  a2 = a2
  a3 = a3
  p1 = p1
  p2 = p2
  t1 = t1
  t2 = t2
  u1 = u1
  NoUser = NoUser
  None = None
  Garbage = Garbage
  Caller <- MCCaller
  Address = {a1, a2, a3, p1, p2}
  Trusted = {p1, p2}
  Policy = {"login", "refresh_ip", "api"}
  Limit <- MCLimit
  Window <- MCWindow
  Second = 2
  MaxSame = 3
  MaxBusy = 2
  MaxTime = 4
INVARIANTS
  LimitExact
  RetryExact
  ForgottenInTime

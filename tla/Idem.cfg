SPECIFICATION FairSpec
CONSTANTS
  Request = {r1, r2}
  Route = {pay}
  Resource = {i1}
  Body = {b1, b2}
  NoRequest = NoRequest
  NoResponse = NoResponse
  Lease = 1
  Retention = 3
  RequestTimeout = 1
  Stall = TRUE
  MaxCrashes = 1
  MaxDisconnects = 1
  MaxSweeps = 1
INVARIANTS
  NoConcurrentHandlers
  EffectsExcused
  RecordedEffectHappened
PROPERTIES
  OnlyLateCompletesAnother
  EventuallyAnswered

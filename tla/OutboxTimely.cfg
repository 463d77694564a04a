SPECIFICATION FairSpec
CONSTANTS
  Worker = {w1, w2}
  Endpoint = {e1, e2}
  Occurrence = {o1}
  EventName = {paid}
  NoDue = NoDue
  BatchSize = 2
  MaxAttempts = 2
  LeaseDuration = 2
  DeliveryTimeout = 1
  Schedule <- OneStep
  Stall = FALSE
  MaxOverdue = 0
  AttemptBound = 6
  MaxReplays = 0
  MaxFaults = 1
INVARIANTS
  LeaseCoversTurn
PROPERTIES
  EventuallySettled

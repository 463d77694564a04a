SPECIFICATION Spec
CONSTANTS
  Worker = {w1, w2}
  Endpoint = {e1}
  Occurrence = {o1}
  EventName = {paid}
  NoDue = NoDue
  BatchSize = 1
  MaxAttempts = 2
  LeaseDuration = 1
  DeliveryTimeout = 0
  Schedule <- OneStep
  Stall = TRUE
  MaxOverdue = 0
  AttemptBound = 4
  MaxReplays = 1
  MaxFaults = 2
INVARIANTS
  UniqueHolder
  AttemptBudget
PROPERTIES
  FencedUnlessReplayed
  KeepsPromise

SPECIFICATION FairSpec
CONSTANTS
  Request = {r1, r2}
  Route = {pay}
  Resource = {i1}
  Body = {b1}
  NoRequest = NoRequest
  NoResponse = NoResponse
  Lease = 1
  Retention = 3
  RequestTimeout = 1
  Stall = TRUE
  MaxCrashes = 0
  MaxDisconnects = 0
  MaxSweeps = 0
PROPERTY
  OnlyHolderCompletes

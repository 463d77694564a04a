SPECIFICATION Spec
CONSTANTS
  Client = {c1, k1}
  Machine = {k1}
  Field = {f1}
  Slug = {s1, s2}
  DerivedSlug = s1
  None = None
  MaxTx = 4
  DefaultPageSize = 1
  MaxPageSize = 2
INVARIANTS
  TypeOK
  TrailReplays
  TrueBefore
  WalksExact
PROPERTIES
  ArchivedIsFinal
  ConflictIsReal
CHECK_DEADLOCK FALSE

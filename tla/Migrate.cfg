SPECIFICATION Spec
CONSTANTS
  old = old
  new = new
  edited = edited
  Runner = {old, new, edited}
  Files <- MCFiles
  None = None
  MaxRuns = 3
INVARIANTS
  SchemaIsRecorded
  RunsSound
PROPERTIES
  EveryRunEnds
CHECK_DEADLOCK FALSE

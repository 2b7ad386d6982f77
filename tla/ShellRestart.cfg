\* One operation and one restart: the command can be started twice.
CONSTANTS
  Operations = {o1}
  Types = {"shell"}
  FileChunks = 1
  MaxPending = 12
  MaxRuns = 2
SPECIFICATION Spec
CHECK_DEADLOCK FALSE
INVARIANTS CommandStartedAtMostOnce

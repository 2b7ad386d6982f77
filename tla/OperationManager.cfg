\* Two operations of any types that interleave, are canceled and shut
\* down at any step.
CONSTANTS
  Operations = {o1, o2}
  Types = {"shell", "value", "skill", "image", "remote", "unsupported"}
  FileChunks = 2
  MaxPending = 3
  MaxRuns = 2
SYMMETRY Symmetry
SPECIFICATION Spec
CHECK_DEADLOCK FALSE
INVARIANTS ManagerInv UpdatesEndInFinal NoJobAbandoned
PROPERTIES CancelWins

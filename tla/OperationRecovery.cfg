\* One operation of any type whose process dies at any step, twice.
CONSTANTS
  Operations = {o1}
  Types = {"shell", "value", "skill", "image", "remote", "unsupported"}
  FileChunks = 3
  MaxPending = 12
  MaxRuns = 3
SPECIFICATION FairSpec
CHECK_DEADLOCK FALSE
INVARIANTS ResultsAreReal
PROPERTIES RecordedStartNotRepeated CancelSettles DrainEnds

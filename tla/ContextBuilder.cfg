\* Two inputs or heartbeats and two calls around up to four answers, of which any
\* may be a compaction; usages and thresholds on both sides of each other.
CONSTANTS
  Inputs = {i1, i2}
  CallIDs = {c1, c2}
  Usages = {1, 3}
  Retained = 1
  Thresholds = {1, 3}
  MaxAnswers = 4
SPECIFICATION Spec
SYMMETRY Symmetry
CHECK_DEADLOCK FALSE
INVARIANTS BuilderInv RequestsAreAccepted HistoryNotRewritten NothingLost AnswersFollowTheirInputs

\* Two records and three appends: an append that fails at every step, a torn
\* tail followed by an append, an unsynced record followed by an append, and a
\* crash in each of them.
CONSTANTS
  Records = {r1, r2}
  Header = hdr
  MaxWrites = 3
SPECIFICATION Spec
INVARIANTS IInv AcknowledgedSurvive
PROPERTIES ImplementsSessionLog

\* Both adapters with up to three attempts of up to two outputs, of which the
\* first that settles the attempt counts and the second comes too late.
CONSTANTS
  Attempts = {1, 2, 3}
  MaxAttempts = 3
  Statuses = {"stream", "plain", "retryable", "fatal"}
  Frames = {"delta", "stop", "hollow", "failed_retry", "failed_fatal", "error_retry", "error_fatal", "malformed"}
  MaxFrames = 2
  Adapters = {"messages", "responses"}
SPECIFICATION FairSpec
CHECK_DEADLOCK FALSE
INVARIANTS ExchangeInv AnswersAreKept RetriesAreJustified
PROPERTIES ExchangeReturns

\* Both stops, in either order and at any step, around an input, tool calls of two
\* turns that may run forever, a heartbeat and a restart.  MaxTurns is never reached.
CONSTANTS
  e1 = e1
  e2 = e2
  settingsIn = settingsIn
  crashIn = crashIn
  hardIn = hardIn
  idleIn = idleIn
  Inputs = {e1, hardIn, idleIn}
  InputKind <- MCInputKind
  HeartbeatIDs = {h1}
  CallIDs = {c1}
  OpsPerCall = 1
  MaxTurns = 8
  MaxToolTurns = 2
  MaxCompactions = 0
  MaxRuns = 2
  MaxForks = 0
SPECIFICATION LiveSpec
CHECK_DEADLOCK FALSE
INVARIANTS StopsSettle
PROPERTIES NothingNewAfterHardStop InputsAnswered HardStopReturns IdleStopReturns

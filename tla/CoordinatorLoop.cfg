\* An input, new settings, two tool calls of one turn that end in any order, a
\* heartbeat, a compaction, and a process that dies at any step and is started again.
CONSTANTS
  e1 = e1
  e2 = e2
  settingsIn = settingsIn
  crashIn = crashIn
  hardIn = hardIn
  idleIn = idleIn
  Inputs = {e1, settingsIn}
  InputKind <- MCInputKind
  HeartbeatIDs = {h1}
  CallIDs = {c1, c2}
  OpsPerCall = 1
  MaxTurns = 4
  MaxToolTurns = 1
  MaxCompactions = 1
  MaxRuns = 2
  MaxForks = 1
SPECIFICATION Spec
CHECK_DEADLOCK FALSE
SYMMETRY Symmetry
INVARIANTS LoopInv ReplayMatchesLive OperationsAreDriven NoLostWakeup PendingMatchesHistory

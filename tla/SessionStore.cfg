\* Two sessions, either of which may be forked onto the other at any turn, so
\* that forks of forks and replaced sessions occur.
CONSTANTS
  Sessions = {s1, s2}
  TurnIDs = {t1, t2}
  CallIDs = {c1}
  OperationIDs = {o1}
  NoLog = NoLog
  NoHead = NoHead
  NoTurn = NoTurn
  MaxRecords = 5
SPECIFICATION Spec
SYMMETRY Symmetry
INVARIANTS StoreInv AlwaysDecodable WorkResumedOnce

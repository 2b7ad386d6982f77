\* Both outputs piped and a signal to the group, with descendants in and out of the group.
CONSTANTS
  w = w
  i = i
  k = k
  Streams = {stdout, stderr}
  Controls = {k}
  ControlKind <- MCControlKind
  MaxOutput = 1
SPECIFICATION Spec
INVARIANTS ProcessInv OutputComplete
PROPERTIES ImplementsContract

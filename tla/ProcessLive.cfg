\* One piped output, a write that may block and closing the input.
CONSTANTS
  w = w
  i = i
  k = k
  Streams = {stdout}
  Controls = {w, i}
  ControlKind <- MCControlKind
  MaxOutput = 1
SPECIFICATION FairSpec
PROPERTIES InvocationEnds ControlsAnswered

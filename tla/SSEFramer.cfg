\* Every stream of up to eight bytes in chunks of up to three: frames of
\* several lines, empty frames, each line ending cut by the end of a chunk.
CONSTANTS
  Modes = {"strip", "pass"}
  Limits = {2, 4, 8}
  MaxChunk = 3
  MaxWire = 8
SPECIFICATION Spec
CHECK_DEADLOCK FALSE
INVARIANTS FramerInv FramesMatchStream

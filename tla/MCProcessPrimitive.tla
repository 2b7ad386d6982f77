------------------------- MODULE MCProcessPrimitive -------------------------
(* Instances of ProcessPrimitive for TLC.                                  *)
EXTENDS ProcessPrimitive

CONSTANTS w, i, k   \* controls: write, close the input, signal the group

MCControlKind ==
  [c \in Controls |-> CASE c = w -> "write"
                        [] c = i -> "close"
                        [] c = k -> "signal_group"]

=============================================================================

---------------------------- MODULE MCCoordinator ----------------------------
(* Instances of Coordinator for TLC.                                       *)
EXTENDS Coordinator

CONSTANTS e1, e2, settingsIn, crashIn, hardIn, idleIn   \* client inputs

MCInputKind ==
  [i \in Inputs |-> CASE i \in {e1, e2}   -> "external"
                      [] i = settingsIn -> "settings"
                      [] i = crashIn    -> "crash"
                      [] i = hardIn     -> "hard"
                      [] i = idleIn     -> "when_idle"]

Symmetry == Permutations(CallIDs)

=============================================================================

--------------------------- MODULE MCSessionStore ---------------------------
(* Instances of SessionStore for TLC.                                      *)
EXTENDS SessionStore

(* No session and no turn is distinguished from another.                   *)
Symmetry == Permutations(Sessions) \cup Permutations(TurnIDs)

=============================================================================

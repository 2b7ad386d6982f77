------------------------- MODULE MCOperationManager -------------------------
(***************************************************************************)
(* OperationManager for TLC: the operations are interchangeable.           *)
(***************************************************************************)
EXTENDS OperationManager, TLC

Symmetry == Permutations(Operations)

=============================================================================

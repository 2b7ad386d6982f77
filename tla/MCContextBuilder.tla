--------------------------- MODULE MCContextBuilder ---------------------------
(* Instances of the context builder and its requests for TLC.              *)
EXTENDS ModelRequests

(* Nothing tells the inputs apart, nor the calls: an answer may hold them  *)
(* in any order.                                                           *)
Symmetry == Permutations(CallIDs) \cup Permutations(Inputs)

=============================================================================

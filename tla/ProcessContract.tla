--------------------------- MODULE ProcessContract ---------------------------
(***************************************************************************)
(* What StartProcess promises the operation manager about the events of    *)
(* one process: at most one report of the start, then exactly one event    *)
(* that ends the invocation, and "canceled" only for a canceled context.   *)
(* These are the stages OperationManager works with; ProcessPrimitive is   *)
(* shown to implement them.                                                *)
(***************************************************************************)
VARIABLES stage,    \* "new", "started", "reported" or "ended"
          outcome,  \* the event that ended the invocation, or "none"
          ctx       \* the context is canceled

contractVars == <<stage, outcome, ctx>>

Outcomes(c) == {"failed"} \cup (IF c THEN {"canceled"} ELSE {})

ContractInit == stage = "new" /\ outcome = "none" /\ ctx = FALSE

ContractCancel ==
  /\ ctx' = TRUE
  /\ UNCHANGED <<stage, outcome>>

(* The command starts; a context that ends at this moment does not stop it.*)
ContractStart ==
  /\ stage = "new"
  /\ stage' = "started"
  /\ UNCHANGED <<outcome, ctx>>

(* The start is reported, or the context ends first.                       *)
ContractReport ==
  /\ stage = "started"
  /\ stage' = "reported"
  /\ UNCHANGED <<outcome, ctx>>

(* The command was never started, or it has come to its end.               *)
ContractEnd ==
  /\ \/ stage = "new" /\ outcome' \in Outcomes(ctx)
     \/ stage = "reported" /\ outcome' \in Outcomes(ctx) \cup {"completed"}
  /\ stage' = "ended"
  /\ UNCHANGED ctx

ContractNext == ContractCancel \/ ContractStart \/ ContractReport \/ ContractEnd

ContractSpec == ContractInit /\ [][ContractNext]_contractVars

=============================================================================

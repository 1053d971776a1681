-------------------------- MODULE MCFinalization --------------------------
(***************************************************************************)
(* Instances of Finalization for TLC.                                      *)
(***************************************************************************)
EXTENDS Finalization

CONSTANTS r1, r2

MCReconcilers == {r1, r2}
OneReconciler == {r1}

MCValues ==
  {[status |-> "completed", answer |-> "report"],
   [status |-> "failed", answer |-> "error"],
   [status |-> "cancelled", answer |-> "stopped"]}

=============================================================================

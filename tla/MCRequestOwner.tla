--------------------------- MODULE MCRequestOwner ---------------------------
(***************************************************************************)
(* Bounds for checking RequestOwner. The clock passes the deadline, a      *)
(* second manifest could be made, and decisions agree, differ in the action *)
(* or differ in the reason.                                                *)
(***************************************************************************)
EXTENDS RequestOwner

ASSUME DeadlinePasses == Lifetime < MaxTime
ASSUME SecondPlanPossible == MaxPlans > 1
=============================================================================

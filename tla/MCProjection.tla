---------------------------- MODULE MCProjection ----------------------------
(***************************************************************************)
(* Bounds for checking Projection: a delivery that waits, is created and   *)
(* is settled, its parents projected meanwhile.                            *)
(***************************************************************************)
EXTENDS Projection

Lengths == [link |-> 2, request |-> 2, delivery |-> 3]

ASSUME SettlementPossible == MaxRevision["delivery"] >= 3 /\ MaxFaults >= 2
=============================================================================

----------------------------- MODULE MCDelivery -----------------------------
(***************************************************************************)
(* Bounds for checking Delivery. Every fence generation after the first    *)
(* needs a refusal, which is a disturbance, so with one generation more    *)
(* than disturbances the bound on generations never stops a claim.         *)
(***************************************************************************)
EXTENDS Delivery

ASSUME GenerationsSuffice == MaxGeneration > MaxFaults
=============================================================================

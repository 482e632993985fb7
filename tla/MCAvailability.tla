--------------------------- MODULE MCAvailability ---------------------------
(***************************************************************************)
(* Bounds for checking Availability: a replacement whose webhooks overtake *)
(* each other, with changes at GitHub and unanswered reads in between.     *)
(***************************************************************************)
EXTENDS Availability

ASSUME Replaceable == MaxInstallation > 1 /\ MaxChanges > 1
=============================================================================

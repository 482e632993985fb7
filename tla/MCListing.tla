----------------------------- MODULE MCListing -----------------------------
(***************************************************************************)
(* An instance of Listing for TLC: up to eight entries of two times on     *)
(* pages of two, so that entries of one time fall on both sides of a       *)
(* page's end and a walk along Link headers may come upon its bound.       *)
(***************************************************************************)
EXTENDS Listing

ASSUME Paged == LastTime * LastId > MaxPages * PageSize /\ LastId > 1
=============================================================================

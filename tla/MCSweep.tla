------------------------------ MODULE MCSweep ------------------------------
(***************************************************************************)
(* An instance of Sweep for TLC: two accounts, one with two rows.          *)
(***************************************************************************)
EXTENDS Sweep

CONSTANTS a, b

TwoOfOne == <<a, a, b>>
=============================================================================

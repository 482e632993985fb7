---------------------------- MODULE MCWebSession ----------------------------
(***************************************************************************)
(* An instance of WebSession for TLC: two requests of one browser, with    *)
(* lifetimes in the order the code gives them.                             *)
(***************************************************************************)
EXTENDS WebSession, TLC

\* Requests are alike: no property names one.
Symmetry == Permutations(Request)
=============================================================================

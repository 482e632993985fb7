---------------------------- MODULE MCSettlement ----------------------------
(***************************************************************************)
(* Bounds for checking Settlement: an observation for a webhook and one of *)
(* a sweep beside a withdrawal that may be continued and outlive the       *)
(* installation it was authorized for.                                     *)
(***************************************************************************)
EXTENDS Settlement

ASSUME Replaceable == MaxInstallation > 1

\* docs/adr/0006-delivery-and-settlement-checks-stay-distinct.md:17 says that
\* settlement answers "Cannot observe now" and settles nothing if it cannot
\* verify the repository: an invitation that evidence cancelled left its
\* requester without access (observe, settlement.rs:113).
NegativeEvidenceIsTrue ==
    settlement = [state |-> "cancelled", by |-> "evidence"] => FALSE \in seen
=============================================================================

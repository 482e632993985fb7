---------------------------- MODULE MCAdmission ----------------------------
(***************************************************************************)
(* Bounds for checking Admission. A deadline and an observation window both *)
(* pass, a link expires while an attempt is decided, and a limited link is  *)
(* exhausted while attempts are still open.                                *)
(***************************************************************************)
EXTENDS Admission

\* Two reviewed uses until the link expires.
Reviewed == [max_uses |-> 2, expires_at |-> 2, approval_required |-> TRUE]

\* A single use, approved by policy.
Single == [max_uses |-> 1, expires_at |-> NoExpiry, approval_required |-> FALSE]

LimitedTerms == {Reviewed, Single}
=============================================================================

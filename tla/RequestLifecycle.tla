-------------------------- MODULE RequestLifecycle --------------------------
(***************************************************************************)
(* The life of one invitation request, as both its owner                   *)
(* (crates/ghinvite-workflows/src/request_owner.rs) and the link that       *)
(* admitted it rely on: it waits for a decision until its deadline and is   *)
(* terminal afterwards.                                                    *)
(***************************************************************************)
EXTENDS Integers

RequestState == {"pending", "approved", "declined", "expired"}

\* A request approved by policy has no deadline.
NoDeadline == 0

\* Defect: a decision exactly at the deadline still counts.
DueAfter(request, now) ==
    request.state = "pending" /\ request.deadline # NoDeadline
        /\ now > request.deadline

\* expire_due: at the deadline or later a request still pending has expired.
Due(request, now) ==
    request.state = "pending" /\ request.deadline # NoDeadline
        /\ now >= request.deadline

\* A pending or approved request suppresses another one of its requester.
Blocking(request) == request.state \in {"pending", "approved"}

\* What an inspection at that time leaves of the state.
Inspected(request, now) ==
    IF Due(request, now) THEN "expired" ELSE request.state

\* The states a decision evaluated at that time can leave.
Decidable(request, now) ==
    IF request.state = "pending" /\ ~Due(request, now)
    THEN {"approved", "declined"}
    ELSE {Inspected(request, now)}
=============================================================================

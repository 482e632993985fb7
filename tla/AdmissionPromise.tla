-------------------------- MODULE AdmissionPromise --------------------------
(***************************************************************************)
(* What an invitation link promises: a fixed number of uses, each spent on *)
(* one requester who holds no live request, never refunded, and none spent *)
(* once the link is closed.                                                *)
(***************************************************************************)
EXTENDS Integers

CONSTANTS Requester, Unlimited

VARIABLES
    allowed,  \* uses the link may spend, Unlimited, or 0 before it exists
    spent,    \* uses spent so far
    holders,  \* requesters with a pending or approved request
    closed    \* revoked

promiseVars == <<allowed, spent, holders, closed>>

PromiseInit ==
    /\ allowed = 0
    /\ spent = 0
    /\ holders = {}
    /\ closed = FALSE

Open ==
    /\ allowed = 0
    /\ allowed' # 0
    /\ UNCHANGED <<spent, holders, closed>>

Spend(requester) ==
    /\ ~closed
    /\ allowed = Unlimited \/ spent < allowed
    /\ requester \notin holders
    /\ spent' = spent + 1
    /\ holders' = holders \cup {requester}
    /\ UNCHANGED <<allowed, closed>>

\* Declined or expired: the requester may apply again, the use stays spent.
Leave(requester) ==
    /\ requester \in holders
    /\ holders' = holders \ {requester}
    /\ UNCHANGED <<allowed, spent, closed>>

Close ==
    /\ allowed # 0
    /\ closed' = TRUE
    /\ UNCHANGED <<allowed, spent, holders>>

PromiseNext ==
    \/ Open
    \/ \E requester \in Requester : Spend(requester) \/ Leave(requester)
    \/ Close

PromiseSpec == PromiseInit /\ [][PromiseNext]_promiseVars
=============================================================================

--------------------------- MODULE RequestPromise ---------------------------
(***************************************************************************)
(* What an admitted invitation request promises: it ends at most once, and *)
(* only for an approved one are invitations ordered, one identity for each *)
(* repository however often the order is sent.                             *)
(***************************************************************************)
CONSTANTS Repo, InvitationId

VARIABLES
    standing,  \* "absent", "pending", or how the request ended
    ordered    \* [repo, invitation] pairs ordered so far

promiseVars == <<standing, ordered>>

PromiseInit ==
    /\ standing = "absent"
    /\ ordered = {}

Begin ==
    /\ standing = "absent"
    /\ standing' \in {"pending", "approved"}
    /\ UNCHANGED ordered

End ==
    /\ standing = "pending"
    /\ standing' \in {"approved", "declined", "expired"}
    /\ UNCHANGED ordered

\* All repositories may be ordered at once; none is ordered anew.
Order ==
    /\ standing = "approved"
    /\ ordered \subseteq ordered'
    /\ ordered' \subseteq [repo : Repo, invitation : InvitationId]
    /\ \A s, t \in ordered' : s.repo = t.repo => s.invitation = t.invitation
    /\ UNCHANGED standing

PromiseNext == Begin \/ End \/ Order

PromiseSpec == PromiseInit /\ [][PromiseNext]_promiseVars
=============================================================================

-------------------------- MODULE MCMemberWebhook --------------------------
(***************************************************************************)
(* An instance of MemberWebhook for TLC: two requests of one link, made    *)
(* one after the other, and two webhook requests.                          *)
(***************************************************************************)
EXTENDS MemberWebhook, TLC

OneLink == [i \in Invitation |-> CHOOSE l \in Link : TRUE]

Symmetry == Permutations(Payload) \cup Permutations(Handler)
                \cup Permutations(Invitation)
=============================================================================

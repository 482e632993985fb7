-------------------------- MODULE ProjectionPromise --------------------------
(***************************************************************************)
(* What SQL promises of one link, one request admitted through it and one  *)
(* delivery of that request, with no queues and no repetition: each row    *)
(* shows one of the snapshots that its owner sent and only moves to later  *)
(* ones, a row never stands without its parent, the invitation's state is  *)
(* the one of the delivery that is shown, and facts are only added.        *)
(***************************************************************************)
EXTENDS Naturals, Sequences

VARIABLES
    sent,       \* what every owner has sent, in the order of its revisions
    row,        \* the revision of the snapshot that is shown, or 0
    invitation, \* the state of the GitHub invitation
    audit       \* the facts recorded, named by the revision that made them

promiseVars == <<sent, row, invitation, audit>>

Table == {"link", "request", "delivery"}
Parent == [request |-> "link", delivery |-> "request"]

\* The state of an invitation that a snapshot of its delivery stands for.
StateOf(snapshot) ==
    IF snapshot.settlement # "none" THEN snapshot.settlement
    ELSE IF snapshot.outcome = "created" THEN "sent"
    ELSE IF snapshot.outcome = "member" THEN "accepted"
    ELSE IF snapshot.outcome = "failed" THEN "failed"
    ELSE "sending"

Shown(history, rows, t) == history[t][rows[t]]

PromiseInit ==
    /\ sent = [t \in Table |-> <<>>]
    /\ row = [t \in Table |-> 0]
    /\ invitation = "absent"
    /\ audit = [t \in Table |-> {}]

\* An owner's next snapshot.
Tell ==
    /\ \E t \in Table :
          LET told == sent'[t]
          IN told # <<>> /\ sent' = [sent EXCEPT ![t] = Append(@, told[Len(told)])]
    /\ UNCHANGED <<row, invitation, audit>>

\* What is told may be shown, all that depends on it included.
Show ==
    /\ UNCHANGED sent
    /\ \A t \in Table :
          /\ row'[t] \in row[t] .. Len(sent[t])
          /\ audit[t] \subseteq audit'[t]
          /\ row'[t] # 0 => Shown(sent, row', t).events \subseteq audit'[t]
          /\ \A k \in audit'[t] \ audit[t] :
                \E n \in 1 .. Len(sent[t]) : k \in sent[t][n].events
    /\ \A t \in DOMAIN Parent : row'[t] # 0 => row'[Parent[t]] # 0
    /\ invitation' = IF row'["delivery"] = 0 THEN "absent"
                     ELSE StateOf(Shown(sent, row', "delivery"))

PromiseNext == Tell \/ Show

PromiseSpec == PromiseInit /\ [][PromiseNext]_promiseVars
=============================================================================

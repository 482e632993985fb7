----------------------------- MODULE Projection -----------------------------
(***************************************************************************)
(* The projectors of a link, of a request admitted through it and of one   *)
(* delivery of that request, and the SQL transactions they run             *)
(* (ghinvite-workflows/src/projection.rs, delivery.rs,                     *)
(* ghinvite-core/src/storage/projection, delivery_projection.rs and the    *)
(* triggers in migrations/0001_initial.sql).                               *)
(*                                                                         *)
(* An owner sends every snapshot once it is retained, and may send one     *)
(* again. A projector takes the snapshots of its key in the order they     *)
(* were sent and repeats each until SQL answered. A transaction whose      *)
(* answer was given up may still commit, long after newer ones.            *)
(*                                                                         *)
(* A snapshot's content is what SQL tells apart: the delivery's outcome    *)
(* and settlement, and the facts to record. Its revision is its place      *)
(* among the snapshots of its owner: that no two of them share one is      *)
(* RevisionNamesLink, RevisionNamesRequest and RevisionNamesSnapshot of    *)
(* the owners' modules, and the identity columns never differ.             *)
(***************************************************************************)
EXTENDS Naturals, Sequences

CONSTANTS
    MaxRevision, \* snapshots of each owner
    MaxFaults    \* snapshots sent again, lost answers, abandoned transactions


VARIABLES
    sent,       \* the snapshots every owner sent
    queue,      \* the revisions every projector has still to apply
    late,       \* transactions given up that may still commit
    row,        \* the revision stored in every table, 0 for no row
    invitation, \* github_invitations.state
    audit,      \* audit_events: the facts, named by the revision that made them
    faults

vars == <<sent, queue, late, row, invitation, audit, faults>>
sql == <<row, invitation, audit>>

Promise == INSTANCE ProjectionPromise

Table == {"link", "request", "delivery"}
Parent == [request |-> "link", delivery |-> "request"]

ASSUME ProjectionBounds == MaxRevision \in [Table -> Nat] /\ MaxFaults \in Nat

Revision == UNION {1 .. MaxRevision[t] : t \in Table}

Confirmed == {"created", "member", "failed"}
Outcome == {"none", "waiting"} \cup Confirmed
\* Being declined, cancelled and expired differ in name only here.
Terminal == {"accepted", "cancelled"}
Settlement == {"none"} \cup Terminal
InvitationState == {"absent", "sending", "sent", "failed"} \cup Terminal

\* A delivery that is blocked, throttled or unknown is waiting; only one that
\* GitHub created is settled (encode).
Snapshot ==
    {s \in [outcome : Outcome, settlement : Settlement, events : SUBSET Revision] :
        s.settlement # "none" => s.outcome = "created"}

TypeOK ==
    /\ sent \in [Table -> Seq(Snapshot)]
    /\ queue \in [Table -> Seq(Revision)]
    /\ late \subseteq Table \X Revision
    /\ row \in [Table -> Nat]
    /\ invitation \in InvitationState
    /\ audit \in [Table -> SUBSET Revision]
    /\ faults \in Nat

Init ==
    /\ sent = [t \in Table |-> <<>>]
    /\ queue = [t \in Table |-> <<>>]
    /\ late = {}
    /\ row = [t \in Table |-> 0]
    /\ invitation = "absent"
    /\ audit = [t \in Table |-> {}]
    /\ faults = 0

Disturbance == faults < MaxFaults /\ faults' = faults + 1

-----------------------------------------------------------------------------
(* The owners *)

Latest(t) == sent[t][Len(sent[t])]

\* A link's transition carries its own facts, a request's snapshot all facts
\* so far, a delivery's the confirmation and the settlement it retains. Once
\* confirmed a delivery changes by its settlement only, and that once.
LinkFollows(n, s) ==
    /\ s.outcome = "none" /\ s.settlement = "none"
    /\ s.events \in {{}, {n}}

RequestFollows(n, s) ==
    /\ sent["link"] # <<>>
    /\ s.outcome = "none" /\ s.settlement = "none"
    /\ s.events = 1 .. n

DeliveryFollows(n, s) ==
    /\ sent["request"] # <<>>
    /\ \/ /\ n > 1 => Latest("delivery").outcome = "waiting"
          /\ s.outcome # "none" /\ s.settlement = "none"
          /\ s.events = IF s.outcome \in Confirmed THEN {n} ELSE {}
       \/ /\ n > 1
          /\ Latest("delivery").outcome = "created"
          /\ Latest("delivery").settlement = "none"
          /\ s.outcome = "created" /\ s.settlement # "none"
          /\ s.events = Latest("delivery").events \cup {n}

Follows(t, s) ==
    LET n == Len(sent[t]) + 1
    IN \/ t = "link" /\ LinkFollows(n, s)
       \/ t = "request" /\ RequestFollows(n, s)
       \/ t = "delivery" /\ DeliveryFollows(n, s)

Send(t) ==
    /\ Len(sent[t]) < MaxRevision[t]
    /\ \E s \in Snapshot : Follows(t, s) /\ sent' = [sent EXCEPT ![t] = Append(@, s)]
    /\ queue' = [queue EXCEPT ![t] = Append(@, Len(sent[t]) + 1)]
    /\ UNCHANGED <<late, sql, faults>>

\* A repeated initialization or a replayed confirmed receipt sends again.
Resend(t) ==
    /\ t # "link" /\ sent[t] # <<>>
    /\ t = "delivery" => Latest(t).outcome \in Confirmed
    /\ Disturbance
    /\ queue' = [queue EXCEPT ![t] = Append(@, Len(sent[t]))]
    /\ UNCHANGED <<sent, late, sql>>

-----------------------------------------------------------------------------
(* The transactions *)

\* Defect: the upsert replaces what is stored without comparing revisions.
LastWriter(stored, n) == n

\* An upsert takes effect unless a newer revision is stored.
Newest(stored, n) == IF n >= stored THEN n ELSE stored

OutcomeState(outcome, state) ==
    IF outcome = "created" THEN "sent"
    ELSE IF outcome = "member" THEN "accepted"
    ELSE IF outcome = "failed" THEN "failed"
    ELSE state

\* Defect: the trigger applies to an invitation in any state.
StartedAlways(state, s) ==
    IF s.outcome \in Confirmed THEN OutcomeState(s.outcome, state) ELSE state

\* delivery_created: the outcome moves an invitation that is being sent.
Started(state, s) ==
    IF state = "sending" THEN OutcomeState(s.outcome, state) ELSE state

\* INITIAL inserts the invitation; RECEIPT, if it stores the snapshot, fires
\* the trigger.
Received(n) ==
    LET initial == IF invitation = "absent" THEN "sending" ELSE invitation
    IN IF Newest(row["delivery"], n) = n THEN Started(initial, sent["delivery"][n])
       ELSE initial

\* SETTLED: the retained settlement, if this very snapshot is the stored one.
Settled(state, n) ==
    IF /\ Newest(row["delivery"], n) = n
       /\ sent["delivery"][n].settlement # "none"
    THEN sent["delivery"][n].settlement
    ELSE state

\* github_invitation_settlement_fence: an update that takes a settled
\* invitation elsewhere aborts the transaction.
FenceAllows(n) ==
    LET stored == Newest(row["delivery"], n)
    IN /\ invitation \notin {"absent", "sending", "sent"}
       /\ sent["delivery"][stored].settlement # "none"
       => Received(n) \in {invitation, sent["delivery"][stored].settlement}

\* A row's parent must be there first; the error is repeated until it is.
HasParent(t) == t \in DOMAIN Parent => row[Parent[t]] # 0

Commits(t, n) == HasParent(t) /\ (t = "delivery" => FenceAllows(n))

\* One transaction: the row, the facts whatever is stored, the invitation.
Write(t, n) ==
    /\ Commits(t, n)
    /\ row' = [row EXCEPT ![t] = Newest(@, n)]
    /\ audit' = [audit EXCEPT ![t] = @ \cup sent[t][n].events]
    /\ invitation' = IF t = "delivery" THEN Settled(Received(n), n) ELSE invitation

\* The projector's next snapshot; a lost answer makes it come again.
Apply(t) ==
    /\ queue[t] # <<>>
    /\ Write(t, Head(queue[t]))
    /\ \/ queue' = [queue EXCEPT ![t] = Tail(@)] /\ UNCHANGED faults
       \/ Disturbance /\ UNCHANGED queue
    /\ UNCHANGED <<sent, late>>

\* The attempt is given up and repeated; its transaction has not ended yet.
Abandon(t) ==
    /\ queue[t] # <<>>
    /\ Disturbance
    /\ late' = late \cup {<<t, Head(queue[t])>>}
    /\ UNCHANGED <<sent, queue, sql>>

\* A transaction given up commits after all, or aborts.
CommitLate(t, n) ==
    /\ <<t, n>> \in late
    /\ late' = late \ {<<t, n>>}
    /\ Write(t, n) \/ UNCHANGED sql
    /\ UNCHANGED <<sent, queue, faults>>

-----------------------------------------------------------------------------
Next ==
    \E t \in Table :
        \/ Send(t) \/ Resend(t) \/ Apply(t) \/ Abandon(t)
        \/ \E n \in Revision : CommitLate(t, n)

Spec == Init /\ [][Next]_vars

\* Every projector takes its next snapshot until SQL answers it.
Fairness == \A t \in Table : WF_vars(Apply(t))

FairSpec == Spec /\ Fairness

-----------------------------------------------------------------------------
(* Properties *)

\* Whatever is repeated, overtaken or committed late, each row only moves to
\* later snapshots of its owner, the invitation is in the state of the delivery
\* that is stored, rows have their parents and facts are only added
\* (delivery_projection.rs:77, sql.rs:101, 0001_initial.sql:184).
KeepsPromise == Promise!PromiseSpec

\* SQL shows the newest snapshot of every owner and records every fact that any
\* of them carried, and every projector was told so.
UpToDate ==
    \A t \in Table :
        /\ queue[t] = <<>>
        /\ row[t] = Len(sent[t])
        /\ \A n \in 1 .. Len(sent[t]) : sent[t][n].events \subseteq audit[t]

\* However often the owners send, SQL comes up to date again: no projector is
\* stuck behind its own repetition or its parent (delivery_created, the fence).
CatchesUp == []<>UpToDate
=============================================================================

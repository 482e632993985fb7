---------------------------- MODULE MemberWebhook ----------------------------
(***************************************************************************)
(* Routing of GitHub's webhooks to invitations (crates/ghinvite-web,       *)
(* commands.rs, github_webhook_dispatcher, and ghinvite-core, storage,     *)
(* github_invitations.rs): one requester and one repository of an account. *)
(*                                                                         *)
(* A member event names the requester and the repository only. The web     *)
(* server looks in SQL for the one invitation it can mean and retains what *)
(* it found under the hash of the payload. SQL follows the owners late, so *)
(* the only invitation in SQL may be the wrong one. Whatever was found is  *)
(* only observed: the observation, not the event, settles an invitation.   *)
(***************************************************************************)
EXTENDS Integers, FiniteSets

CONSTANTS
    Invitation,      \* one invitation of each request for the repository
    Link,
    LinkOf,          \* of each invitation, the link of its request
    Payload,         \* bodies of member events; GitHub may send one twice
    Handler,         \* webhook requests the web server can have under way
    Nothing          \* no invitation

\* A payload without a receipt.
Unbound == "unbound"

ASSUME LinksAssumption ==
    /\ LinkOf \in [Invitation -> Link]
    /\ IsFiniteSet(Invitation)
    /\ Nothing \notin Invitation /\ Unbound \notin Invitation \cup {Nothing}

VARIABLES
    request,     \* of each invitation's request: the request owner's state
    delivery,    \* of each invitation: the delivery owner's state
    sqlUses,     \* SQL: uses_count of each link
    sqlRequest,  \* SQL: each request's state
    sqlDelivery, \* SQL: each invitation's state
    receipts,    \* SQL: member_webhook_receipts, what each payload is bound to
    upstream,    \* GitHub: each invitation
    member,      \* GitHub: the requester is a collaborator
    events,      \* GitHub: member events, each with the invitation behind it
    handler,     \* the webhook requests
    routed,      \* on_webhook calls sent to delivery owners
    observing,   \* invitations with an observation under way
    first        \* history: what was sent, and what hidden, at first receipts

owners == <<request, delivery>>
stored == <<sqlUses, sqlRequest, sqlDelivery>>
github == <<upstream, member, events>>
webhookVars == <<owners, stored, receipts, github, handler, routed, observing, first>>

-----------------------------------------------------------------------------
\* Requests that end otherwise send no invitation and are left out.
RequestState == {"none", "pending", "approved"}

\* "other": a delivery without a pending invitation, in whatever state.
DeliveryState == {"none", "other", "sent", "settled"}

Event == [payload : Payload, cause : Invitation \cup {Nothing}]
Route == [payload : Payload, invitation : Invitation]

\* The receipt, with what stood behind the event when SQL was read.
Match == [invitation : Invitation \cup {Nothing}, hidden : BOOLEAN,
          causes : SUBSET (Invitation \cup {Nothing})]
NoMatch == [invitation |-> Nothing, hidden |-> FALSE, causes |-> {}]

Idle == [step |-> "idle", payload |-> Nothing, match |-> NoMatch]
NotYet == [sent |-> {}, match |-> NoMatch]

WebhookTypeOK ==
    /\ request \in [Invitation -> RequestState]
    /\ delivery \in [Invitation -> DeliveryState]
    /\ sqlUses \in [Link -> Nat]
    /\ sqlRequest \in [Invitation -> RequestState]
    /\ sqlDelivery \in [Invitation -> DeliveryState]
    /\ receipts \in [Payload -> Invitation \cup {Nothing, Unbound}]
    /\ upstream \in [Invitation -> {"none", "pending", "accepted", "gone"}]
    /\ member \in BOOLEAN
    /\ events \subseteq Event
    /\ handler \in [Handler -> [step : {"idle", "bind", "dispatch"},
                                payload : Payload \cup {Nothing}, match : Match]]
    /\ routed \subseteq Route
    /\ observing \subseteq Invitation
    /\ first \in [Payload -> [sent : SUBSET Invitation, match : Match]]

WebhookInit ==
    /\ request = [i \in Invitation |-> "none"]
    /\ delivery = [i \in Invitation |-> "none"]
    /\ sqlUses = [l \in Link |-> 0]
    /\ sqlRequest = request
    /\ sqlDelivery = delivery
    /\ receipts = [p \in Payload |-> Unbound]
    /\ upstream = [i \in Invitation |-> "none"]
    /\ member = FALSE
    /\ events = {}
    /\ handler = [h \in Handler |-> Idle]
    /\ routed = {}
    /\ observing = {}
    /\ first = [p \in Payload |-> NotYet]

-----------------------------------------------------------------------------
(* The owners *)

\* A link's uses are its accepted requests.
Uses(state, l) == Cardinality({i \in Invitation : LinkOf[i] = l /\ state[i] # "none"})

\* The link owner accepts a request, which a policy approves at once or later.
Admit(i) ==
    /\ \/ request[i] = "none" /\ request' = [request EXCEPT ![i] = "pending"]
       \/ request[i] # "approved" /\ request' = [request EXCEPT ![i] = "approved"]
    /\ UNCHANGED <<delivery, stored, receipts, github, handler, routed, observing, first>>

\* The delivery owner creates the invitation, or ends up without one. GitHub
\* has at most one invitation of a requester to a repository.
Create(i) ==
    /\ request[i] = "approved"
    /\ delivery[i] = "none"
    /\ \/ /\ ~member
          /\ \A j \in Invitation : upstream[j] # "pending"
          /\ delivery' = [delivery EXCEPT ![i] = "sent"]
          /\ upstream' = [upstream EXCEPT ![i] = "pending"]
       \/ delivery' = [delivery EXCEPT ![i] = "other"] /\ UNCHANGED upstream
    /\ UNCHANGED <<request, stored, receipts, member, events, handler, routed,
                   observing, first>>

-----------------------------------------------------------------------------
(* Projection: each projector is late on its own; children wait for parents. *)

ProjectLink(l) ==
    /\ sqlUses' = [sqlUses EXCEPT ![l] = Uses(request, l)]
    /\ UNCHANGED <<owners, sqlRequest, sqlDelivery, receipts, github, handler, routed,
                   observing, first>>

ProjectRequest(i) ==
    /\ sqlRequest' = [sqlRequest EXCEPT ![i] = request[i]]
    /\ UNCHANGED <<owners, sqlUses, sqlDelivery, receipts, github, handler, routed,
                   observing, first>>

ProjectDelivery(i) ==
    /\ sqlRequest[i] # "none"
    /\ sqlDelivery' = [sqlDelivery EXCEPT ![i] = delivery[i]]
    /\ UNCHANGED <<owners, sqlUses, sqlRequest, receipts, github, handler, routed,
                   observing, first>>

-----------------------------------------------------------------------------
(* MEMBER_CANDIDATES and the choice among them *)

Rows == {i \in Invitation : sqlDelivery[i] # "none"}

\* A link has counted a request that SQL has not.
RequestIsMissing == \E l \in Link : sqlUses[l] > Uses(sqlRequest, l)

\* Defect: an approved request may lack its invitation.
DeliveryIsIgnored == FALSE

\* An approved request has no invitation yet.
DeliveryIsMissing ==
    \E i \in Invitation : sqlRequest[i] = "approved" /\ sqlDelivery[i] = "none"

\* Defect: only invitations that are open can be meant.
OpenRows ==
    IF RequestIsMissing \/ DeliveryIsMissing THEN {}
    ELSE {i \in Rows : sqlDelivery[i] = "sent"}

\* History counts as well: an old event must not be taken for a new one.
Candidates == IF RequestIsMissing \/ DeliveryIsMissing THEN {} ELSE Rows

\* The only candidate, if it is sent and its upstream identity known.
Candidate ==
    IF \E i \in Candidates : Candidates = {i} /\ sqlDelivery[i] = "sent"
    THEN CHOOSE i \in Candidates : TRUE
    ELSE Nothing

\* What the query cannot see: a link's snapshot, or an approval, is not in SQL.
Hidden ==
    \/ \E l \in Link : sqlUses[l] < Uses(request, l)
    \/ \E i \in Invitation : sqlRequest[i] = "pending" /\ request[i] = "approved"

-----------------------------------------------------------------------------
(* A member.added webhook *)

\* GitHub delivers an event, again at anybody's wish; the installation, which SQL
\* need not know, and the candidates are read.
Receive(h, payload) ==
    /\ handler[h] = Idle
    /\ \E e \in events : e.payload = payload
    /\ \E found \in {Candidate, Nothing} :
           handler' = [handler EXCEPT ![h].step = "bind", ![h].payload = payload,
               ![h].match = [invitation |-> found, hidden |-> Hidden,
                             causes |-> {e.cause : e \in
                                 {x \in events : x.payload = payload}}]]
    /\ UNCHANGED <<owners, stored, receipts, github, routed, observing, first>>

\* Defect: an event that was not matched may be matched again.
RetainMatch(payload, found) ==
    IF receipts[payload] \in {Unbound, Nothing} THEN found ELSE receipts[payload]

\* ON CONFLICT DO NOTHING: the first match, or that there was none, stays.
Retain(payload, found) ==
    IF receipts[payload] = Unbound THEN found ELSE receipts[payload]

\* bind_member_webhook: the receipt is read back by a second statement, but
\* nothing changes one that is there.
Bind(h) ==
    /\ handler[h].step = "bind"
    /\ LET payload == handler[h].payload
           match == handler[h].match
       IN /\ receipts' = [receipts EXCEPT ![payload] = Retain(payload, match.invitation)]
          /\ first' = IF receipts[payload] # Unbound THEN first
                      ELSE [first EXCEPT ![payload] =
                            [sent |-> {i \in Invitation : delivery[i] # "none"},
                             match |-> match]]
          /\ handler' = [handler EXCEPT ![h] =
                 IF receipts'[payload] = Nothing THEN Idle
                 ELSE [Idle EXCEPT !.step = "dispatch", !.payload = payload,
                                   !.match.invitation = receipts'[payload]]]
    /\ UNCHANGED <<owners, stored, github, routed, observing>>

\* The bound invitation is sent to its owner; the answer may be lost.
Dispatch(h) ==
    /\ handler[h].step = "dispatch"
    /\ routed' = routed \cup {[payload |-> handler[h].payload,
                               invitation |-> handler[h].match.invitation]}
    /\ handler' = [handler EXCEPT ![h] = Idle]
    /\ UNCHANGED <<owners, stored, receipts, github, observing, first>>

\* SQL or Restate fails, or the server goes down.
Fail(h) ==
    /\ handler[h].step # "idle"
    /\ handler' = [handler EXCEPT ![h] = Idle]
    /\ UNCHANGED <<owners, stored, receipts, github, routed, observing, first>>

-----------------------------------------------------------------------------
(* What comes of it *)

Settle(i) == delivery' = [delivery EXCEPT ![i] = "settled"]

\* Defect: the event is believed.
OnWebhookBelieves(r) ==
    /\ r \in routed
    /\ delivery[r.invitation] = "sent"
    /\ Settle(r.invitation)
    /\ UNCHANGED <<request, stored, receipts, github, handler, routed, observing, first>>

\* on_webhook with verify: an unsettled invitation is observed.
OnWebhook(r) ==
    /\ r \in routed
    /\ delivery[r.invitation] = "sent"
    /\ observing' = observing \cup {r.invitation}
    /\ UNCHANGED <<owners, stored, receipts, github, handler, routed, first>>

\* DeliveryObservation, whose reads Settlement has: a pending invitation is left
\* alone, one that is over is settled by what its requester can do.
Observe(i) ==
    /\ i \in observing
    /\ observing' = observing \ {i}
    /\ IF delivery[i] = "sent" /\ upstream[i] # "pending"
       THEN Settle(i)
       ELSE UNCHANGED delivery
    /\ UNCHANGED <<request, stored, receipts, github, handler, routed, first>>

\* A repository_invitation event, or the sweep, names the invitation itself,
\* once SQL has it.
Named(i) ==
    /\ sqlDelivery[i] = "sent"
    /\ delivery[i] = "sent"
    /\ upstream[i] # "pending"
    /\ Settle(i)
    /\ UNCHANGED <<request, stored, receipts, github, handler, routed, observing, first>>

-----------------------------------------------------------------------------
(* GitHub *)

\* The invitation is accepted, which GitHub tells, or ends without an event.
Answer(i) ==
    /\ upstream[i] = "pending"
    /\ \/ /\ upstream' = [upstream EXCEPT ![i] = "accepted"]
          /\ member' = TRUE
          /\ \E p \in Payload : events' = events \cup {[payload |-> p, cause |-> i]}
       \/ upstream' = [upstream EXCEPT ![i] = "gone"] /\ UNCHANGED <<member, events>>
    /\ UNCHANGED <<owners, stored, receipts, handler, routed, observing, first>>

\* The requester is added in another way, which is the same event.
AddDirectly ==
    /\ ~member
    /\ member' = TRUE
    /\ \E p \in Payload : events' = events \cup {[payload |-> p, cause |-> Nothing]}
    /\ UNCHANGED <<owners, stored, receipts, upstream, handler, routed, observing, first>>

Remove ==
    /\ member
    /\ member' = FALSE
    /\ UNCHANGED <<owners, stored, receipts, upstream, events, handler, routed,
                   observing, first>>

WebhookNext ==
    \/ \E i \in Invitation :
           \/ Admit(i) \/ Create(i) \/ ProjectRequest(i) \/ ProjectDelivery(i)
           \/ Observe(i) \/ Named(i) \/ Answer(i)
    \/ \E l \in Link : ProjectLink(l)
    \/ \E h \in Handler :
           \/ \E p \in Payload : Receive(h, p)
           \/ Bind(h) \/ Dispatch(h) \/ Fail(h)
    \/ \E r \in routed : OnWebhook(r)
    \/ AddDirectly
    \/ Remove

WebhookSpec == WebhookInit /\ [][WebhookNext]_webhookVars

-----------------------------------------------------------------------------
(* Properties *)

\* An acceptance is taken for its own invitation's or for nobody's, however late
\* the snapshots of requests and deliveries reach SQL: only a link's or an
\* approval that SQL lacks can deceive the query (github_invitations.rs:33).
EventIsOfItsInvitation ==
    \A p \in Payload :
        LET match == first[p].match
        IN match.invitation # Nothing /\ ~match.hidden =>
               match.causes \subseteq {match.invitation, Nothing}

\* However often a payload is delivered, at once or again after a failure
\* before the dispatch, all deliveries go to one invitation, and
\* never to one sent after the payload was first recorded
\* (docs/invitation-ownership.md:29).
RedeliveryStays ==
    \A r \in routed :
        /\ r.invitation = receipts[r.payload]
        /\ r.invitation \in first[r.payload].sent

\* A misrouted event harms nobody: an invitation that GitHub has pending is not
\* settled, whosever event it was taken for (settlement.rs:219).
PendingIsNotSettled ==
    \A i \in Invitation : upstream[i] = "pending" => delivery[i] = "sent"
=============================================================================
